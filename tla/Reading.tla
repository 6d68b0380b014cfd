------------------------------ MODULE Reading ------------------------------
(***************************************************************************)
(* What the readers of a document see: zone contents (zone_editor.rs), the *)
(* parsed records of Store (store.rs), the scan every index command starts *)
(* with (fast_ops.rs), references and the state (main.rs).                 *)
(*                                                                         *)
(* A value is a string of the program: the sequence of its pieces between  *)
(* newlines, never empty ("" is one blank piece).                          *)
(***************************************************************************)
EXTENDS Document

Empty == << Blank >>

(***************************************************************************)
(* Records.                                                                *)
(***************************************************************************)
ZoneHere(c, a, z) == ZonesIn(LineAt(c, a))[z]

\* extract_zone_content answers "" past the end of the file and for an empty
\* zone; an inverted pair makes the byte slice panic.
CanExtract(c, a, z) ==
  a < Len(Lines(c)) =>
    /\ IsHexWords(LineAt(c, a))
    /\ LET p == ZoneHere(c, a, z)
       IN  p # NoZone => p.start < Len(Lines(c)) /\ p.start <= p.end + 1

Extracted(c, a, z) ==
  LET ls == Lines(c)
      p  == ZoneHere(c, a, z)
  IN  IF a >= Len(ls) \/ p = NoZone
      THEN << >>
      ELSE SubSeq(ls, p.start + 1, IF p.end < Len(ls) THEN p.end + 1 ELSE Len(ls))

\* Store::get_section_data: the six lines of the record are parsed.  They are
\* joined to a text and cut again with lines(), so an empty third string leaves
\* five, an error.
CanWriteRecord(c, r) ==
  /\ Loadable(c)
  /\ Readable(c, r)
  /\ IsHexWords(LineAt(c, AsciiLine(c, r)))
  /\ LineAt(c, AsciiLine(c, r) + 1).kind = "num"
  /\ LineAt(c, String3Line(c, r)) # Blank

StringSlots(c, r) ==
  [i \in 1 .. 3 |-> << LineAt(c, AsciiLine(c, r) + 1 + i) >>]

NumbersOf(c, r) == LineAt(c, AsciiLine(c, r) + 1)

\* fast_scan_content: one numeric line that does not parse refuses the whole
\* file; a record the file cuts short is passed over.
Scans(c) ==
  /\ Loadable(c)
  /\ \A r \in Rec : Readable(c, r) => LineAt(c, AsciiLine(c, r) + 1).kind = "num"
Scanned(c, r) == Scans(c) /\ Readable(c, r)

(***************************************************************************)
(* References: a field of a record, a zone, the coordinates of a zone, or  *)
(* a literal range of lines.                                               *)
(***************************************************************************)
\* The two hex-words of a zone as one text.
Spelled(p) == TextLine(<< p >>)

Literal(s, e)  == [kind |-> "lines", start |-> s, end |-> e]
RangeNamed(c, ref) ==
  IF ref.kind = "lines" THEN [start |-> ref.start, end |-> ref.end]
  ELSE ZoneAt(c, ref.rec, ref.slot)

\* line_range_text: outside the file is an error; within it the slice s..=e
\* panics on an inverted pair, save the empty one.
InFile(c, p)    == p.start < Len(Lines(c)) /\ p.end < Len(Lines(c))
Panics(c, p)    == InFile(c, p) /\ p.start > p.end + 1
Sliceable(c, p) == InFile(c, p) /\ ~ Panics(c, p)
Sliced(c, p)    == Join(SubSeq(Lines(c), p.start + 1, p.end + 1))

CanRead(c, ref) ==
  \/ ref.kind = "text"
  \/ /\ ref.kind = "index" /\ Scanned(c, ref.rec)
     /\ \A z \in ZoneIdx :
          LET p == ZoneAt(c, ref.rec, z)
          IN  p = NoZone \/ (p.start <= p.end /\ p.end < Len(Lines(c)))
  \/ /\ ref.kind \in {"string", "number", "numbers"}
     /\ Scanned(c, ref.rec) /\ CanWriteRecord(c, ref.rec)
  \/ ref.kind \in {"hexline", "zonehex"} /\ Scanned(c, ref.rec)
  \/ /\ ref.kind = "zone" /\ Scanned(c, ref.rec)
     /\ \/ RangeNamed(c, ref) = NoZone
        \/ Sliceable(c, RangeNamed(c, ref))
  \/ ref.kind = "lines" /\ ref.start <= ref.end /\ Sliceable(c, RangeNamed(c, ref))

\* aggregate_index_content: identity, hex-words, numbers, strings, zones.
Aggregate(c, r) ==
  LET zone(z) == IF ZoneAt(c, r, z) = NoZone THEN << >> ELSE Sliced(c, ZoneAt(c, r, z))
  IN  [i \in 1 .. 6 |-> LineAt(c, HeaderLine(c, r) + i)] \o zone(0) \o zone(1) \o zone(2)

ReadRef(c, ref) ==
  CASE ref.kind = "text"    -> ref.value
    [] ref.kind = "index"   -> Aggregate(c, ref.rec)
    [] ref.kind = "string"  -> StringSlots(c, ref.rec)[ref.slot]
    [] ref.kind = "number"  ->
         << TextLine(LineAt(c, AsciiLine(c, ref.rec) + 1).value[ref.slot]) >>
    [] ref.kind = "numbers" -> << LineAt(c, AsciiLine(c, ref.rec) + 1) >>
    [] ref.kind = "hexline" -> << LineAt(c, AsciiLine(c, ref.rec)) >>
    [] ref.kind = "zone"    ->
         IF RangeNamed(c, ref) = NoZone THEN Empty ELSE Sliced(c, RangeNamed(c, ref))
    [] ref.kind = "zonehex" -> << Spelled(RangeNamed(c, ref)) >>
    [] ref.kind = "lines"   -> Sliced(c, RangeNamed(c, ref))

(***************************************************************************)
(* state.                                                                  *)
(***************************************************************************)
\* make_state: a zone outside the file contributes "".
CanState(c) ==
  /\ Scans(c)
  /\ \A r \in Rec, z \in ZoneIdx : Readable(c, r) => ~ Panics(c, ZoneAt(c, r, z))

Contents(c, r, z) ==
  LET p == ZoneAt(c, r, z)
  IN  IF p = NoZone \/ ~ Sliceable(c, p) THEN Empty ELSE Sliced(c, p)

State(c) ==
  [r \in {q \in Rec : Readable(c, q)} |->
     [strings |-> StringSlots(c, r), db |-> NumbersOf(c, r),
      hexline |-> LineAt(c, AsciiLine(c, r)),
      zones   |-> [z \in ZoneIdx |-> Contents(c, r, z)]]]
=============================================================================
