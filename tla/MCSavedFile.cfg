\* Three commands of two processes, two faults; done when the commands are.
SPECIFICATION Spec
CONSTANTS
  command = command
  store = store
  v1 = v1
  v2 = v2
  v3 = v3
  Torn = Torn
  Missing = Missing
  Process <- MCProcess
  Stores <- MCStores
  Version <- MCVersion
  MaxCommands = 3
  MaxFaults = 2
SYMMETRY Symmetry
INVARIANT
  TypeOK
PROPERTY
  ChangesAreUndoable
CHECK_DEADLOCK FALSE
