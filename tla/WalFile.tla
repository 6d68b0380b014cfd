------------------------------ MODULE WalFile ------------------------------
(***************************************************************************)
(* The write-ahead log of a document, `<document>.wal`, as a sequence of   *)
(* lines (wal.rs).  What an entry says is one of Op; its checksum is what  *)
(* makes a damaged entry unreadable, and the commit line carries one that  *)
(* no reader looks at.                                                     *)
(*                                                                         *)
(* `writeln!` hands the text and its newline to the file separately and a  *)
(* write may stop anywhere, so the last line may lack its newline (ended   *)
(* is FALSE) or part of its text; the next line written is glued to it.    *)
(***************************************************************************)
EXTENDS Integers, Sequences, FiniteSets

CONSTANT Op   \* the operations an entry can log

(***************************************************************************)
(* Lines.  head: a line starting with #.  junk: text no reader takes.      *)
(***************************************************************************)
Head0        == [kind |-> "head", ended |-> TRUE]
Separator    == [kind |-> "sep", ended |-> TRUE]
CommitMarker == [kind |-> "commit", ended |-> TRUE]
Entry(n, o)  == [kind |-> "entry", ended |-> TRUE, seq |-> n, op |-> o]

LogLine == [kind : {"head", "sep", "commit", "junk"}, ended : BOOLEAN]
           \cup [kind : {"entry"}, ended : BOOLEAN, seq : Nat, op : Op]

Header == << Head0, Separator >>

(***************************************************************************)
(* Writing.                                                                *)
(***************************************************************************)
\* What a line turns into when another one lands on it: a comment stays a
\* comment and `starts_with("COMMIT")` still holds, the rest is unreadable.
Glued(line, next) ==
  [kind |-> IF line.kind \in {"head", "commit"} THEN line.kind ELSE "junk",
   ended |-> next.ended]

Appended(file, new) ==
  IF file # << >> /\ new # << >> /\ ~ file[Len(file)].ended
  THEN SubSeq(file, 1, Len(file) - 1)
         \o << Glued(file[Len(file)], new[1]) >> \o SubSeq(new, 2, Len(new))
  ELSE file \o new

\* A line cut short: all of its text, or too little of it to be read as such.
Torn(line) ==
  {[line EXCEPT !.ended = FALSE],
   [kind |-> IF line.kind = "head" THEN "head" ELSE "junk", ended |-> FALSE]}

\* Whatever part of new reached the file.
Partly(new) ==
  {SubSeq(new, 1, k) : k \in 0 .. Len(new)}
    \cup UNION {{Append(SubSeq(new, 1, k - 1), t) : t \in Torn(new[k])} :
                  k \in 1 .. Len(new)}

(***************************************************************************)
(* Reading.                                                                *)
(***************************************************************************)
\* Wal::is_committed: any line that starts with COMMIT.
Committed(file) == \E i \in 1 .. Len(file) : file[i].kind = "commit"

SeparatorsBefore(file, i) == {j \in 1 .. i - 1 : file[j].kind = "sep"}

\* Wal::read_entries: every separator flips in_entries.
ReadAt(file, i) ==
  file[i].kind = "entry" /\ Cardinality(SeparatorsBefore(file, i)) % 2 = 1

\* Wal::scan_existing: a separator opens the entries, a commit line closes them.
ScannedAt(file, i) ==
  /\ file[i].kind = "entry"
  /\ \E j \in SeparatorsBefore(file, i) :
        \A k \in j .. i - 1 : file[k].kind # "commit"

\* The lines each of them takes for an entry; both keep the order of the file.
ReadEntries(file) == {i \in 1 .. Len(file) : ReadAt(file, i)}
Scanned(file)     == {i \in 1 .. Len(file) : ScannedAt(file, i)}

\* One more than the largest sequence number the scan saw.
NextSeq(file) ==
  CHOOSE n \in {1} \cup {file[i].seq + 1 : i \in Scanned(file)} :
    \A i \in Scanned(file) : file[i].seq < n
=============================================================================
