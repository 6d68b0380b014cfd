----------------------------- MODULE SavedFile -----------------------------
(***************************************************************************)
(* How a changed document reaches the disk: write_file_with_undo and       *)
(* cmd_undo (main.rs), Store::save, create_backup and Drop (store.rs).     *)
(*                                                                         *)
(* A writer copies the file to `<file>.undo` and then rewrites the file in *)
(* place.  Both are more than one step: the target is truncated first, and *)
(* a crash or an I/O error can come anywhere.  No lock keeps two processes *)
(* apart.  A Store that could not save tries once more when it is dropped. *)
(***************************************************************************)
EXTENDS Integers

CONSTANTS
  Process,      \* commands and library users on one document
  Stores,       \* those that write through a Store with auto_save
  Version,      \* what a document can say
  Torn,         \* the start of some content, or a mixture of two
  Missing,      \* no such file
  MaxCommands,  \* bound on the commands begun
  MaxFaults     \* bound on crashes and failed writes

ASSUME FileAssumption ==
  /\ Stores \subseteq Process
  /\ MaxCommands \in Nat /\ MaxFaults \in Nat
  /\ Torn \notin Version /\ Missing \notin Version /\ Torn # Missing

VARIABLES
  file,      \* the document on disk
  undo,      \* `<file>.undo`
  at,        \* where each process is
  text,      \* the content each process is about to write
  dropping,  \* the Store of the process is saving a second time
  commands,  \* commands begun so far
  faults,    \* crashes and failed writes so far
  lapses     \* history: what has happened that no undo copy survives

vars == << file, undo, at, text, dropping, commands, faults, lapses >>

Content == Version \cup {Torn}

\* loaded: read and edited in memory.  copying, writing, restoring: the target
\* has been truncated.  copied: the backup is complete.
Places == {"idle", "loaded", "copying", "copied", "writing", "restoring"}

Goes(p, place) == at' = [at EXCEPT ![p] = place]

\* overlap: a command began in the middle of another.  damaged: a command began
\* on damaged content.  drop: a Store saved again over what it had damaged.
Lapse == {"overlap", "damaged", "drop"}

Begins(p, content) ==
  lapses' = lapses
    \cup (IF \E q \in Process \ {p} : at[q] # "idle" THEN {"overlap"} ELSE {})
    \cup (IF content \in Version THEN {} ELSE {"damaged"})

(***************************************************************************)
(* A command that changes the document.                                    *)
(***************************************************************************)
\* The whole file is read, and what is missing stays missing.
Load(p) ==
  /\ at[p] = "idle"
  /\ commands < MaxCommands
  /\ commands' = commands + 1
  /\ Goes(p, "loaded")
  /\ \E v \in Version :
        text' = [text EXCEPT ![p] = IF file \in Version THEN v ELSE Torn]
  /\ dropping' = [dropping EXCEPT ![p] = FALSE]
  /\ Begins(p, file)
  /\ UNCHANGED << file, undo, faults >>

\* Mutant: a document that has an undo copy keeps it.
BackupOnlyOnce(p) ==
  /\ at[p] = "loaded"
  /\ IF undo = Missing
     THEN Goes(p, "copying") /\ undo' = Torn
     ELSE Goes(p, "copied") /\ UNCHANGED undo
  /\ UNCHANGED << file, text, dropping, commands, faults, lapses >>

\* std::fs::copy to the .undo file: truncated first.
Backup(p) ==
  /\ at[p] = "loaded"
  /\ Goes(p, "copying")
  /\ undo' = Torn
  /\ UNCHANGED << file, text, dropping, commands, faults, lapses >>

BackedUp(p) ==
  /\ at[p] = "copying"
  /\ Goes(p, "copied")
  /\ undo' = file
  /\ UNCHANGED << file, text, dropping, commands, faults, lapses >>

\* std::fs::write: truncated first.
Write(p) ==
  /\ at[p] = "copied"
  /\ Goes(p, "writing")
  /\ file' = Torn
  /\ UNCHANGED << undo, text, dropping, commands, faults, lapses >>

\* Two processes that fill the file at once can leave a mixture.
Filled(p, content) ==
  \/ file' = content
  \/ /\ \E q \in Process \ {p} : at[q] \in {"writing", "restoring"}
     /\ file' = Torn

Written(p) ==
  /\ at[p] = "writing"
  /\ Goes(p, "idle")
  /\ Filled(p, text[p])
  /\ UNCHANGED << undo, text, dropping, commands, faults, lapses >>

(***************************************************************************)
(* cmd_undo: a copy in the other direction, with nothing put aside.        *)
(***************************************************************************)
Restore(p) ==
  /\ at[p] = "idle"
  /\ commands < MaxCommands
  /\ commands' = commands + 1
  /\ undo # Missing
  /\ Goes(p, "restoring")
  /\ file' = Torn
  /\ Begins(p, undo)
  /\ UNCHANGED << undo, text, dropping, faults >>

Restored(p) ==
  /\ at[p] = "restoring"
  /\ Goes(p, "idle")
  /\ Filled(p, IF undo \in Content THEN undo ELSE Torn)
  /\ UNCHANGED << undo, text, dropping, commands, faults, lapses >>

(***************************************************************************)
(* Faults.                                                                 *)
(***************************************************************************)
Fault == faults < MaxFaults /\ faults' = faults + 1

Crash(p) ==
  /\ at[p] # "idle"
  /\ Fault
  /\ Goes(p, "idle")
  /\ UNCHANGED << file, undo, text, dropping, commands, lapses >>

\* Mutant: every failed write is tried again.
FailsAndRepeats(p) ==
  /\ at[p] # "idle"
  /\ Fault
  /\ IF at[p] # "restoring" /\ ~ dropping[p]
     THEN /\ Goes(p, "loaded")
          /\ dropping' = [dropping EXCEPT ![p] = TRUE]
          /\ lapses' = lapses \cup (IF file = Torn THEN {"drop"} ELSE {})
     ELSE /\ Goes(p, "idle")
          /\ UNCHANGED << dropping, lapses >>
  /\ UNCHANGED << file, undo, text, commands >>

\* The call that comes next, or is under way, returns an error.  A dirty Store
\* is then dropped, and Drop saves once more, backup included.
Fails(p) ==
  /\ at[p] # "idle"
  /\ Fault
  /\ IF p \in Stores /\ at[p] # "restoring" /\ ~ dropping[p]
     THEN /\ Goes(p, "loaded")
          /\ dropping' = [dropping EXCEPT ![p] = TRUE]
          /\ lapses' = lapses \cup (IF file = Torn THEN {"drop"} ELSE {})
     ELSE /\ Goes(p, "idle")
          /\ UNCHANGED << dropping, lapses >>
  /\ UNCHANGED << file, undo, text, commands >>

Init ==
  /\ file \in Version
  /\ undo \in Version \cup {Missing}
  /\ at = [p \in Process |-> "idle"]
  /\ text = [p \in Process |-> Torn]
  /\ dropping = [p \in Process |-> FALSE]
  /\ commands = 0 /\ faults = 0
  /\ lapses = {}

Next == \E p \in Process :
  \/ Load(p) \/ Backup(p) \/ BackedUp(p) \/ Write(p) \/ Written(p)
  \/ Restore(p) \/ Restored(p)
  \/ Crash(p) \/ Fails(p)

Spec == Init /\ [][Next]_vars
(***************************************************************************)
(* Properties.                                                             *)
(***************************************************************************)
\* Nobody but a Store saves a second time.
TypeOK ==
  /\ file \in Content
  /\ undo \in Content \cup {Missing}
  /\ at \in [Process -> Places]
  /\ text \in [Process -> Content]
  /\ dropping \in [Process -> BOOLEAN]
  /\ \A p \in Process : dropping[p] => p \in Stores
  /\ commands \in 0 .. MaxCommands /\ faults \in 0 .. MaxFaults
  /\ lapses \subseteq Lapse

\* The content that can be had: the file's, or with `undo` the one put aside.
AsideOf(copy) == IF copy \in Version THEN copy ELSE Missing

Undoable == INSTANCE UndoableFile WITH
  None <- Missing,
  prev <- AsideOf(undo),
  cur  <- IF file \in Version THEN file ELSE AsideOf(undo)

\* Through any crash and any failed call, as long as commands run one after the
\* other and the user answers damage with `undo`: the document changes only from
\* a content that is put aside whole, and is otherwise only restored to it
\* (the order of copy and write in write_file_with_undo and Store::save).
ChangesAreUndoable == [][lapses' = {} => Undoable!Next \/ UNCHANGED Undoable!vars]_vars
=============================================================================
