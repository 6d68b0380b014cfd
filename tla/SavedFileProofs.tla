-------------------------- MODULE SavedFileProofs --------------------------
(***************************************************************************)
(* SavedFile keeps its types, and keeps the promise of UndoableFile while  *)
(* nothing has happened that no undo copy survives.                        *)
(***************************************************************************)
EXTENDS SavedFile, TLAPS

\* Each action moves one process from one place to another.
LEMMA GoesType ==
  ASSUME at \in [Process -> Places], NEW p \in Process, NEW place \in Places,
         Goes(p, place)
  PROVE  /\ at' \in [Process -> Places]
         /\ at'[p] = place
         /\ \A q \in Process \ {p} : at'[q] = at[q]
BY DEF Goes

\* The type invariant is inductive.
LEMMA StepKeepsTypes == TypeOK /\ [Next]_vars => TypeOK'
<1> SUFFICES ASSUME TypeOK, [Next]_vars PROVE TypeOK'
  OBVIOUS
<1> USE FileAssumption DEF TypeOK, Content, Places
<1>1. ASSUME NEW p \in Process, Load(p) PROVE TypeOK'
  <2>1. text' \in [Process -> Content] /\ dropping' \in [Process -> BOOLEAN]
    BY <1>1 DEF Load
  <2>2. \A q \in Process : dropping'[q] => q \in Stores
    BY <1>1 DEF Load
  <2>3. lapses' \subseteq Lapse
    BY <1>1 DEF Load, Begins, Lapse
  <2> QED BY <1>1, <2>1, <2>2, <2>3 DEF Load, Goes
<1>2. ASSUME NEW p \in Process, Backup(p) PROVE TypeOK'
  BY <1>2 DEF Backup, Goes
<1>3. ASSUME NEW p \in Process, BackedUp(p) PROVE TypeOK'
  BY <1>3 DEF BackedUp, Goes
<1>4. ASSUME NEW p \in Process, Write(p) PROVE TypeOK'
  BY <1>4 DEF Write, Goes
<1>5. ASSUME NEW p \in Process, Written(p) PROVE TypeOK'
  BY <1>5 DEF Written, Goes, Filled
<1>6. ASSUME NEW p \in Process, Restore(p) PROVE TypeOK'
  <2>1. lapses' \subseteq Lapse
    BY <1>6 DEF Restore, Begins, Lapse
  <2> QED BY <1>6, <2>1 DEF Restore, Goes
<1>7. ASSUME NEW p \in Process, Restored(p) PROVE TypeOK'
  BY <1>7 DEF Restored, Goes, Filled
<1>8. ASSUME NEW p \in Process, Crash(p) PROVE TypeOK'
  BY <1>8 DEF Crash, Goes, Fault
<1>9. ASSUME NEW p \in Process, Fails(p) PROVE TypeOK'
  <2>1. lapses' \subseteq Lapse
    BY <1>9 DEF Fails, Lapse
  <2>2. /\ at' \in [Process -> Places]
        /\ dropping' \in [Process -> BOOLEAN]
        /\ \A q \in Process : dropping'[q] => q \in Stores
    BY <1>9 DEF Fails, Goes
  <2> QED BY <1>9, <2>1, <2>2 DEF Fails, Fault
<1>10. CASE UNCHANGED vars
  BY <1>10 DEF vars
<1> QED BY <1>1, <1>2, <1>3, <1>4, <1>5, <1>6, <1>7, <1>8, <1>9, <1>10 DEF Next

\* Every reachable state is made of whole, torn and missing files, and only the
\* process of a Store ever saves again.
THEOREM TypeCorrect == Spec => []TypeOK
<1>1. Init => TypeOK
  BY FileAssumption DEF Init, TypeOK, Content, Places, Lapse
<1>2. TypeOK /\ [Next]_vars => TypeOK'
  BY StepKeepsTypes
<1> QED BY <1>1, <1>2, PTL DEF Spec

(***************************************************************************)
(* What holds between the two files while there has been no lapse.         *)
(***************************************************************************)
\* Only one command is under way.
OneAtATime == \A p, q \in Process : at[p] # "idle" /\ at[q] # "idle" => p = q

\* Where the command of p stands, and what the files are there.
Placed(p) ==
  /\ at[p] \in {"loaded", "copying", "copied"} => file \in Version
  /\ at[p] \in {"loaded", "copying", "copied", "writing"} => text[p] \in Version
  /\ at[p] = "copied" => undo = file
  /\ at[p] \in {"writing", "restoring"} => file = Torn

Settled ==
  lapses = {} => /\ OneAtATime
                 /\ \A p \in Process : Placed(p)
                 /\ file = Torn => undo \in Version

\* Lapses stay.
LEMMA LapsesStay == ASSUME [Next]_vars, lapses' = {} PROVE lapses = {}
BY DEF Next, vars, Load, Backup, BackedUp, Write, Written, Restore, Restored,
       Crash, Fails, Begins

\* A command that begins without a lapse is the only one, on whole content.
LEMMA BeginsAlone ==
  ASSUME NEW p \in Process, NEW content, Begins(p, content), lapses' = {}
  PROVE  /\ lapses = {}
         /\ content \in Version
         /\ \A q \in Process \ {p} : at[q] = "idle"
BY DEF Begins

\* The next place of p is as described, and the others are idle.
LEMMA OneMoves ==
  ASSUME TypeOK, NEW p \in Process, NEW place \in Places, Goes(p, place),
         \A q \in Process \ {p} : at[q] = "idle"
  PROVE  /\ at'[p] = place
         /\ OneAtATime'
         /\ \A q \in Process \ {p} : Placed(q)'
<1>1. /\ at'[p] = place
      /\ \A q \in Process \ {p} : at'[q] = "idle"
  BY GoesType DEF TypeOK
<1>2. \A q \in Process \ {p} : Placed(q)'
  BY <1>1 DEF Placed
<1>3. OneAtATime'
  BY <1>1 DEF OneAtATime
<1> QED BY <1>1, <1>2, <1>3

\* With no lapse, the process that is under way is alone.
LEMMA UnderWayAlone ==
  ASSUME Settled, lapses = {}, NEW p \in Process, at[p] # "idle"
  PROVE  \A q \in Process \ {p} : at[q] = "idle"
BY DEF Settled, OneAtATime

\* Settled is inductive, given the types.
LEMMA StepStaysSettled == TypeOK /\ Settled /\ [Next]_vars => Settled'
<1> SUFFICES ASSUME TypeOK, Settled, [Next]_vars, lapses' = {}
             PROVE  /\ OneAtATime'
                    /\ \A p \in Process : Placed(p)'
                    /\ file' = Torn => undo' \in Version
  BY DEF Settled
<1> DEFINE Lands(p) == \E place \in Places :
                          /\ Goes(p, place)
                          /\ \A q \in Process \ {p} : at[q] = "idle"
                          /\ Placed(p)'
                          /\ file' = Torn => undo' \in Version
<1>1. lapses = {}
  BY LapsesStay
<1>2. \A p \in Process : Placed(p)
  BY <1>1 DEF Settled
<1>3. file = Torn => undo \in Version
  BY <1>1 DEF Settled
<1>4. file \in Version \cup {Torn} /\ Torn \notin Version
  BY FileAssumption DEF TypeOK, Content
<1>5. ASSUME NEW p \in Process, Lands(p)
      PROVE  /\ OneAtATime'
             /\ \A q \in Process : Placed(q)'
             /\ file' = Torn => undo' \in Version
  BY <1>5, OneMoves
<1>6. ASSUME NEW p \in Process, Load(p)
      PROVE  Lands(p)
  <2>1. file \in Version /\ \A q \in Process \ {p} : at[q] = "idle"
    BY <1>6, BeginsAlone DEF Load
  <2>2. at'[p] = "loaded" /\ text'[p] \in Version /\ file' = file /\ Goes(p, "loaded")
    BY <1>6, <2>1 DEF Load, Goes, TypeOK
  <2> QED BY <1>4, <2>1, <2>2 DEF Placed, Places
<1>7. ASSUME NEW p \in Process, Backup(p)
      PROVE  Lands(p)
  <2>1. at[p] = "loaded" /\ \A q \in Process \ {p} : at[q] = "idle"
    BY <1>1, <1>7, UnderWayAlone DEF Backup
  <2>2. file \in Version /\ text[p] \in Version
    BY <1>2, <2>1 DEF Placed
  <2>3. at'[p] = "copying" /\ text' = text /\ file' = file /\ Goes(p, "copying")
    BY <1>7 DEF Backup, Goes, TypeOK
  <2> QED BY <1>4, <2>1, <2>2, <2>3 DEF Placed, Places
<1>8. ASSUME NEW p \in Process, BackedUp(p)
      PROVE  Lands(p)
  <2>1. at[p] = "copying" /\ \A q \in Process \ {p} : at[q] = "idle"
    BY <1>1, <1>8, UnderWayAlone DEF BackedUp
  <2>2. file \in Version /\ text[p] \in Version
    BY <1>2, <2>1 DEF Placed
  <2>3. /\ at'[p] = "copied" /\ text' = text /\ file' = file /\ undo' = file
        /\ Goes(p, "copied")
    BY <1>8 DEF BackedUp, Goes, TypeOK
  <2> QED BY <1>4, <2>1, <2>2, <2>3 DEF Placed, Places
<1>9. ASSUME NEW p \in Process, Write(p)
      PROVE  Lands(p)
  <2>1. at[p] = "copied" /\ \A q \in Process \ {p} : at[q] = "idle"
    BY <1>1, <1>9, UnderWayAlone DEF Write
  <2>2. file \in Version /\ text[p] \in Version /\ undo = file
    BY <1>2, <2>1 DEF Placed
  <2>3. /\ at'[p] = "writing" /\ text' = text /\ file' = Torn /\ undo' = undo
        /\ Goes(p, "writing")
    BY <1>9 DEF Write, Goes, TypeOK
  <2> QED BY <2>1, <2>2, <2>3 DEF Placed, Places
<1>10. ASSUME NEW p \in Process, Written(p)
      PROVE  Lands(p)
  <2>1. at[p] = "writing" /\ \A q \in Process \ {p} : at[q] = "idle"
    BY <1>1, <1>10, UnderWayAlone DEF Written
  <2>2. text[p] \in Version
    BY <1>2, <2>1 DEF Placed
  <2>3. file' = text[p]
    BY <1>10, <2>1 DEF Written, Filled
  <2>4. at'[p] = "idle" /\ Goes(p, "idle")
    BY <1>10 DEF Written, Goes, TypeOK
  <2> QED BY <1>4, <2>1, <2>2, <2>3, <2>4 DEF Placed, Places
<1>11. ASSUME NEW p \in Process, Restore(p)
      PROVE  Lands(p)
  <2>1. undo \in Version /\ \A q \in Process \ {p} : at[q] = "idle"
    BY <1>11, BeginsAlone DEF Restore
  <2>2. /\ at'[p] = "restoring" /\ file' = Torn /\ undo' = undo
        /\ Goes(p, "restoring")
    BY <1>11 DEF Restore, Goes, TypeOK
  <2> QED BY <2>1, <2>2 DEF Placed, Places
<1>12. ASSUME NEW p \in Process, Restored(p)
      PROVE  Lands(p)
  <2>1. at[p] = "restoring" /\ \A q \in Process \ {p} : at[q] = "idle"
    BY <1>1, <1>12, UnderWayAlone DEF Restored
  <2>2. undo \in Version
    BY <1>2, <1>3, <2>1 DEF Placed
  <2>3. file' = undo
    BY <1>12, <2>1, <2>2 DEF Restored, Filled, Content
  <2>4. at'[p] = "idle" /\ Goes(p, "idle")
    BY <1>12 DEF Restored, Goes, TypeOK
  <2> QED BY <1>4, <2>1, <2>2, <2>3, <2>4 DEF Placed, Places
<1>13. ASSUME NEW p \in Process, Crash(p)
      PROVE  Lands(p)
  <2>1. \A q \in Process \ {p} : at[q] = "idle"
    BY <1>1, <1>13, UnderWayAlone DEF Crash
  <2>2. /\ at'[p] = "idle" /\ file' = file /\ undo' = undo
        /\ Goes(p, "idle")
    BY <1>13 DEF Crash, Goes, TypeOK
  <2> QED BY <1>3, <2>1, <2>2 DEF Placed, Places
<1>14. ASSUME NEW p \in Process, Fails(p)
      PROVE  Lands(p)
  <2>1. \A q \in Process \ {p} : at[q] = "idle"
    BY <1>1, <1>14, UnderWayAlone DEF Fails
  <2>2. file' = file /\ undo' = undo /\ text' = text
    BY <1>14 DEF Fails
  <2>3. CASE p \in Stores /\ at[p] # "restoring" /\ ~ dropping[p]
    <3>1. /\ at'[p] = "loaded" /\ Goes(p, "loaded") /\ file # Torn
          /\ at[p] \in {"loaded", "copying", "copied", "writing"}
      BY <1>14, <2>3 DEF Fails, Goes, TypeOK, Places
    <3>2. file \in Version /\ text[p] \in Version
      BY <1>2, <1>4, <3>1 DEF Placed
    <3> QED BY <1>4, <2>1, <2>2, <3>1, <3>2 DEF Placed, Places
  <2>4. CASE ~ (p \in Stores /\ at[p] # "restoring" /\ ~ dropping[p])
    <3>1. at'[p] = "idle" /\ Goes(p, "idle")
      BY <1>14, <2>4 DEF Fails, Goes, TypeOK
    <3> QED BY <1>3, <2>1, <2>2, <3>1 DEF Placed, Places
  <2> QED BY <2>3, <2>4
<1>15. CASE UNCHANGED vars
  BY <1>1, <1>15 DEF Settled, vars, OneAtATime, Placed
<1>16. CASE Next
  BY <1>5, <1>6, <1>7, <1>8, <1>9, <1>10, <1>11, <1>12, <1>13, <1>14, <1>16 DEF Next
<1> QED BY <1>15, <1>16

\* In every reachable state without a lapse the two files are as described; one
\* of them is whole.
LEMMA SettledHolds == Spec => [](TypeOK /\ Settled)
<1>1. Init => TypeOK /\ Settled
  BY FileAssumption
     DEF Init, TypeOK, Content, Places, Lapse, Settled, OneAtATime, Placed
<1>2. TypeOK /\ Settled /\ [Next]_vars => (TypeOK /\ Settled)'
  BY StepKeepsTypes, StepStaysSettled
<1> QED BY <1>1, <1>2, PTL DEF Spec

\* Each step without a lapse is a step of the promise, or changes nothing of it:
\* a backup protects, the end of a write edits, the start of `undo` restores.
LEMMA StepIsUndoable ==
  ASSUME TypeOK, Settled, Settled', [Next]_vars, lapses' = {}
  PROVE  Undoable!Next \/ UNCHANGED Undoable!vars
<1> DEFINE Cur  == IF file \in Version THEN file ELSE AsideOf(undo)
           Prev == AsideOf(undo)
           Same == Cur' = Cur /\ Prev' = Prev
<1> USE DEF AsideOf
<1>1. lapses = {}
  BY LapsesStay
<1>2. /\ file \in Version \cup {Torn} /\ Torn \notin Version /\ Missing \notin Version
      /\ file = Torn => undo \in Version
      /\ \A p \in Process : Placed(p)
  BY <1>1, FileAssumption DEF TypeOK, Content, Settled
<1>3. Same => UNCHANGED Undoable!vars
  BY DEF Undoable!vars
<1>4. Cur' = Cur /\ Prev' \in {Cur, Missing} => Undoable!Next
  BY DEF Undoable!Next, Undoable!Protect
<1>5. Prev = Cur /\ Cur' \in Version /\ Prev' = Prev => Undoable!Next
  BY DEF Undoable!Next, Undoable!Edit
<1>6. Prev # Missing /\ Cur' = Prev /\ Prev' = Prev => Undoable!Next
  BY DEF Undoable!Next, Undoable!Restore
<1>7. ASSUME NEW p \in Process, Backup(p) PROVE Undoable!Next
  <2>1. file \in Version /\ file' = file /\ undo' = Torn
    BY <1>2, <1>7 DEF Backup, Placed
  <2> QED BY <1>2, <1>4, <2>1
<1>8. ASSUME NEW p \in Process, BackedUp(p) PROVE Undoable!Next
  <2>1. file \in Version /\ file' = file /\ undo' = file
    BY <1>2, <1>8 DEF BackedUp, Placed
  <2> QED BY <1>4, <2>1
<1>9. ASSUME NEW p \in Process, Write(p) PROVE Same
  <2>1. file \in Version /\ undo = file /\ file' = Torn /\ undo' = undo
    BY <1>2, <1>9 DEF Write, Placed
  <2> QED BY <1>2, <2>1
<1>10. ASSUME NEW p \in Process, Written(p) PROVE Undoable!Next
  <2>1. at[p] = "writing" /\ \A q \in Process \ {p} : at[q] = "idle"
    BY <1>1, <1>10, UnderWayAlone DEF Written
  <2>2. file = Torn /\ text[p] \in Version /\ undo \in Version
    BY <1>2, <2>1 DEF Placed
  <2>3. file' = text[p] /\ undo' = undo
    BY <1>10, <2>1 DEF Written, Filled
  <2> QED BY <1>2, <1>5, <2>2, <2>3
<1>11. ASSUME NEW p \in Process, Restore(p) PROVE Undoable!Next
  <2>1. undo \in Version /\ file' = Torn /\ undo' = undo
    BY <1>11, BeginsAlone DEF Restore
  <2> QED BY <1>2, <1>6, <2>1
<1>12. ASSUME NEW p \in Process, Restored(p) PROVE Same
  <2>1. at[p] = "restoring" /\ \A q \in Process \ {p} : at[q] = "idle"
    BY <1>1, <1>12, UnderWayAlone DEF Restored
  <2>2. file = Torn /\ undo \in Version
    BY <1>2, <2>1 DEF Placed
  <2>3. file' = undo /\ undo' = undo
    BY <1>12, <2>1, <2>2 DEF Restored, Filled, Content
  <2> QED BY <1>2, <2>2, <2>3
<1>13. ASSUME NEW p \in Process, Load(p) \/ Crash(p) \/ Fails(p) PROVE Same
  BY <1>13 DEF Load, Crash, Fails
<1>14. CASE UNCHANGED vars
  BY <1>3, <1>14 DEF vars
<1>15. CASE Next
  BY <1>3, <1>7, <1>8, <1>9, <1>10, <1>11, <1>12, <1>13, <1>15 DEF Next
<1> QED BY <1>14, <1>15

\* While commands run one after the other and damage is answered with `undo`,
\* every crash and every failed call included, the document changes only from a
\* content put aside whole and is otherwise only restored to it
\* (write_file_with_undo, Store::save, cmd_undo).
THEOREM UndoableChanges == Spec => ChangesAreUndoable
<1>1. /\ (TypeOK /\ Settled) /\ (TypeOK /\ Settled)' /\ [Next]_vars
      => [lapses' = {} => Undoable!Next \/ UNCHANGED Undoable!vars]_vars
  BY StepIsUndoable
<1>2. Spec => [](TypeOK /\ Settled)
  BY SettledHolds
<1> QED BY <1>1, <1>2, PTL DEF Spec, ChangesAreUndoable

\* The same as a refinement: the behaviours without a lapse are behaviours of
\* the promise.
THEOREM ImplementsUndoable == Init /\ [][Next /\ lapses' = {}]_vars => Undoable!Spec
<1>1. Init => Undoable!Init
  BY FileAssumption DEF Init, Undoable!Init, AsideOf
<1>2. Init => TypeOK /\ Settled
  BY FileAssumption
     DEF Init, TypeOK, Content, Places, Lapse, Settled, OneAtATime, Placed
<1>3. TypeOK /\ Settled /\ [Next /\ lapses' = {}]_vars => (TypeOK /\ Settled)'
  BY StepKeepsTypes, StepStaysSettled DEF vars
<1>4. /\ TypeOK /\ Settled /\ (TypeOK /\ Settled)' /\ [Next /\ lapses' = {}]_vars
      => [Undoable!Next]_(Undoable!vars)
  <2>1. CASE Next /\ lapses' = {}
    BY <2>1, StepIsUndoable
  <2>2. CASE UNCHANGED vars
    BY <2>2 DEF vars, Undoable!vars, AsideOf
  <2> QED BY <2>1, <2>2
<1> QED BY <1>1, <1>2, <1>3, <1>4, PTL DEF Undoable!Spec
=============================================================================
