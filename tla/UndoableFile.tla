---------------------------- MODULE UndoableFile ----------------------------
(***************************************************************************)
(* What a document with a one-step undo promises: it changes only after    *)
(* its content has been put aside, as a whole, and otherwise only goes     *)
(* back to what was put aside.  cur is the content that can be had, from   *)
(* the file or, when the file is damaged, with `undo`.                     *)
(***************************************************************************)
CONSTANTS
  Version,   \* what a document can say
  None       \* nothing put aside; not a Version

VARIABLES
  cur,   \* the content that can be had
  prev   \* the content put aside

vars == << cur, prev >>

Init == cur \in Version /\ prev \in Version \cup {None}

\* The content is put aside, or the attempt destroys what was there.
Protect == cur' = cur /\ prev' \in {cur, None}

\* Only a protected content is replaced.
Edit == prev = cur /\ cur' \in Version /\ UNCHANGED prev

Restore == prev # None /\ cur' = prev /\ UNCHANGED prev

Next == Protect \/ Edit \/ Restore

Spec == Init /\ [][Next]_vars
=============================================================================
