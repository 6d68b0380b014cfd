------------------------------ MODULE Document ------------------------------
(***************************************************************************)
(* A regedited document as the code sees it: a text cut at its newlines,   *)
(* the seven-line index records found in it, and the rewriting primitives  *)
(* every command is built from (header.rs, zone_editor.rs, store.rs).      *)
(*                                                                         *)
(* A document is the sequence of pieces `content.split('\n')` yields, so   *)
(* "a\nb\n" is <<a, b, Blank>>.  `str::lines()` drops a final empty piece, *)
(* and `join("\n")` never puts it back; Lines and Join say exactly that.   *)
(* Line numbers are 0-based, as in the hex-words; sequences are 1-based.   *)
(***************************************************************************)
EXTENDS Integers, Sequences

CONSTANTS
  Rec,    \* registry indexes a record can carry
  Text,   \* what a non-empty line of payload, or of a string slot, can say
  Value   \* what a numeric line can say

\* The registry index of a record is the number of its `index: N` line.
ASSUME RecAssumption == Rec \subseteq Nat

(***************************************************************************)
(* Lines.                                                                  *)
(***************************************************************************)
ZoneIdx  == 0 .. 2
ZonePair == [start : Nat, end : Nat]
NoZone   == [start |-> 0, end |-> 0]
Zones    == [ZoneIdx -> ZonePair]

Blank         == [kind |-> "blank"]
Marker        == [kind |-> "marker"]
IndexLine(r)  == [kind |-> "index", rec |-> r]
HexLine(zs)   == [kind |-> "hex", zones |-> zs]
NumLine(v)    == [kind |-> "num", value |-> v]
TextLine(t)   == [kind |-> "text", text |-> t]

Line == {Blank, Marker}
        \cup [kind : {"index"}, rec : Rec]
        \cup [kind : {"hex"}, zones : Zones]
        \cup [kind : {"num"}, value : Value]
        \cup [kind : {"text"}, text : Text]

\* What a string slot holds, and what a user types into a zone.
Prose == {Blank} \cup [kind : {"text"}, text : Text]

Content == {c \in Seq(Line) : c # << >>}

Lines(c) == IF c[Len(c)] = Blank THEN SubSeq(c, 1, Len(c) - 1) ELSE c
Join(ls) == IF ls = << >> THEN << Blank >> ELSE ls

\* The line numbered i; a reader past the end of the file sees nothing.
LineAt(c, i) == IF i \in 0 .. Len(c) - 1 THEN c[i + 1] ELSE Blank

(***************************************************************************)
(* Index records.                                                          *)
(***************************************************************************)
Headers(c) == {h \in 0 .. Len(c) - 1 : c[h + 1] = Marker}

\* scan_content succeeds: six pieces follow every marker, the first of them is
\* an index line, and no registry index is taken twice.
Loadable(c) ==
  /\ \A h \in Headers(c) : h + 7 <= Len(c) /\ c[h + 2].kind = "index"
  /\ \A g, h \in Headers(c) : c[g + 2] = c[h + 2] => g = h

HeadersOf(c, r)  == {h \in Headers(c) : LineAt(c, h + 1) = IndexLine(r)}
HasRec(c, r)     == HeadersOf(c, r) # {}
HeaderLine(c, r) == CHOOSE h \in HeadersOf(c, r) : TRUE
AsciiLine(c, r)  == HeaderLine(c, r) + 2
String3Line(c, r) == HeaderLine(c, r) + 6

\* extract_section_data and fast_scan want the whole record inside lines().
Readable(c, r) == HasRec(c, r) /\ String3Line(c, r) < Len(Lines(c))

\* AsciiStore::from_line: an empty line is three empty zones.
IsHexWords(line) == line.kind \in {"hex", "blank"}
ZonesIn(line) ==
  IF line.kind = "hex" THEN line.zones ELSE [z \in ZoneIdx |-> NoZone]

ZoneAt(c, r, z) == ZonesIn(LineAt(c, AsciiLine(c, r)))[z]

(***************************************************************************)
(* Rewriting.                                                              *)
(***************************************************************************)
\* header::update_lines; the caller has checked that at is below Len(Lines(c)).
UpdateLines(c, at, new) ==
  LET ls == Lines(c)
  IN  Join([i \in 1 .. Len(ls) |-> IF i - 1 \in at THEN new[i - 1] ELSE ls[i]])

UpdateLine(c, a, line) == UpdateLines(c, {a}, [i \in {a} |-> line])

\* shift_hex_word_line: each of the six words on its own, negatives become 0.
ShiftWord(n, from, delta) ==
  IF n < from THEN n ELSE IF n + delta < 0 THEN 0 ELSE n + delta

ShiftPair(p, from, delta) ==
  [start |-> ShiftWord(p.start, from, delta),
   end   |-> ShiftWord(p.end, from, delta)]

ShiftHexLine(line, from, delta) ==
  HexLine([z \in ZoneIdx |-> ShiftPair(line.zones[z], from, delta)])

\* apply_line_deltas with its one delta: rescan, shift every hex-word line of a
\* record, and rewrite the document only if one of them changed.
ApplyDelta(c, from, delta) ==
  LET ls    == Lines(c)
      moved == {a \in 0 .. Len(ls) - 1 :
                  /\ a - 2 \in Headers(c)
                  /\ ls[a + 1].kind = "hex"
                  /\ ShiftHexLine(ls[a + 1], from, delta) # ls[a + 1]}
  IN  IF moved = {}
      THEN c
      ELSE UpdateLines(c, moved,
                       [a \in moved |-> ShiftHexLine(ls[a + 1], from, delta)])

\* Lines s..e give way to new.
Splice(c, s, e, new) ==
  LET ls == Lines(c)
  IN  Join(SubSeq(ls, 1, IF s < Len(ls) THEN s ELSE Len(ls))
           \o new \o SubSeq(ls, e + 2, Len(ls)))

\* Mutant: the line right after the edit counts as part of it.
ShiftOneLineLate(c, s, e, new) ==
  LET delta == Len(new) - (e - s + 1)
      cut   == Splice(c, s, e, new)
  IN  IF delta = 0 THEN cut ELSE ApplyDelta(cut, e + 2, delta)

\* The splice, and the shift of every later line number when the size changed.
SpliceAndShift(c, s, e, new) ==
  LET delta == Len(new) - (e - s + 1)
      cut   == Splice(c, s, e, new)
  IN  IF delta = 0 THEN cut ELSE ApplyDelta(cut, e + 1, delta)

\* Mutant: an edit that leaves no line is not told apart.
ExtentOfNothing(s, count) == [start |-> s, end |-> s + count - 1]

\* The zone left behind by an edit at s that put count lines there.
Extent(s, count) ==
  IF count = 0 THEN NoZone ELSE [start |-> s, end |-> s + count - 1]
=============================================================================
