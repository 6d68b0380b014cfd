----------------------------- MODULE Comparing -----------------------------
(***************************************************************************)
(* Two documents side by side (fast_ops.rs, cmd_diff and                   *)
(* cmd_replace of main.rs): the diff of their records, and the copy of     *)
(* whole records into another document.                                    *)
(*                                                                         *)
(* A text of a string slot has no blanks around it.                        *)
(***************************************************************************)
EXTENDS Matching, SequencesExt

\* Records are gone through in the order of their labels, index_0, index_1, ...
ASSUME ComparingAssumption == Rec \subseteq 0 .. 9

RecordsIn(c) == {r \in Rec : Scanned(c, r)}

Worths(c, r)   == [i \in 0 .. 8 |-> Worth[NumbersOf(c, r).value[i]]]
ZonesOf(c, r)  == ZonesIn(LineAt(c, AsciiLine(c, r)))

Diff(a, b) ==
  LET both == RecordsIn(a) \cap RecordsIn(b)
      numbers == {r \in both : Worths(a, r) # Worths(b, r)}
      strings == {r \in both : StringSlots(a, r) # StringSlots(b, r)}
      zones   == {r \in both : ZonesOf(a, r) # ZonesOf(b, r)}
  IN  [onlyA |-> RecordsIn(a) \ both, onlyB |-> RecordsIn(b) \ both,
       numbers |-> numbers, strings |-> strings, zones |-> zones,
       identical |-> both \ (numbers \cup strings \cup zones)]

CanDiff(a, b) == Scans(a) /\ Scans(b)

(***************************************************************************)
(* replace: the six lines of a record one after the other, each a rewrite  *)
(* of the text; << >> once one of them is outside it.                      *)
(***************************************************************************)
Rewritten(text, a, line) ==
  IF text = << >> \/ a >= Len(Lines(text[1])) THEN << >>
  ELSE << UpdateLine(text[1], a, line) >>

\* The line of the source under the header; hex-words that do not parse are
\* three empty zones.
SourceLine(source, r, i) ==
  IF i = 2 THEN HexLine(ZonesOf(source, r)) ELSE LineAt(source, HeaderLine(source, r) + i)

\* Mutant: five lines.
FiveLinesCopied(text, h, source, r) ==
  FoldLeft(LAMBDA t, i : Rewritten(t, h + i, SourceLine(source, r, i)), text,
           << 1, 2, 3, 4, 5 >>)

RecordCopied(text, h, source, r) ==
  FoldLeft(LAMBDA t, i : Rewritten(t, h + i, SourceLine(source, r, i)), text,
           << 1, 2, 3, 4, 5, 6 >>)

\* named: the indexes asked for; all of them if none was.
Chosen(target, source, named) == RecordsIn(target) \cap RecordsIn(source) \cap named

Replaced(target, source, named) ==
  FoldLeft(LAMBDA t, r : RecordCopied(t, HeaderLine(target, r), source, r), << target >>,
           SetToSortSeq(Chosen(target, source, named), <))

CanReplace(target, source, named) ==
  CanDiff(target, source) /\ Replaced(target, source, named) # << >>
=============================================================================
