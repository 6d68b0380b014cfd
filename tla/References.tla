------------------------------ MODULE References ------------------------------
(***************************************************************************)
(* The reference commands of main.rs: ref-get, ref-set, ref-copy with and  *)
(* without --move, the index-zone commands, zone-set-hex, zone-set-lines   *)
(* and state-compare, over one document and its .undo copy.                *)
(*                                                                         *)
(* A reference names a field of a record, a zone, the coordinates of a     *)
(* zone or a literal range of lines.  Setting one is a single write of the *)
(* file; a move is two, the source first, each with its own .undo copy,    *)
(* and the process may fail or die between them.                           *)
(***************************************************************************)
EXTENDS ZoneEditor

CONSTANTS
  Sources,   \* references a session reads from, literals among them
  Targets,   \* references a session writes to
  Numerals,  \* the texts DecimalValue::parse accepts
  ZeroNumeral

\* The references parse_ref_spec lets through: strings, numbers and zones by their
\* slot, the other fields of a record whole, and any range of lines.
TargetRef ==
  [kind : {"string"}, rec : Rec, slot : 1 .. 3]
    \cup [kind : {"number"}, rec : Rec, slot : 0 .. 8]
    \cup [kind : {"zone", "zonehex"}, rec : Rec, slot : ZoneIdx]
    \cup [kind : {"numbers", "hexline"}, rec : Rec, slot : {0}]
    \cup [kind : {"lines"}, start : Nat, end : Nat]
SourceRef ==
  TargetRef \cup [kind : {"index"}, rec : Rec, slot : {0}]
            \cup [kind : {"text"}, value : Content]

\* A numeric line has nine columns; a literal and a whole record are only read.
ASSUME ReferenceAssumption ==
  /\ ZeroNumeral \in Numerals /\ Numerals \subseteq Text
  /\ Value = [0 .. 8 -> Numerals]
  /\ Sources \subseteq SourceRef /\ Targets \subseteq TargetRef

VARIABLES
  undo,   \* what <document>.undo holds
  job     \* the reference command in progress, or the last one

refVars == << doc, last, commands, undo, job >>

IndexKinds == {"index", "string", "number", "numbers", "hexline", "zone", "zonehex"}

(***************************************************************************)
(* Values.                                                                 *)
(***************************************************************************)
\* parse_hex_ref and decode_hex_line_range on such a text.
RangeSpelled(v) == v[1].text[1]
SpellsRange(v) ==
  /\ Len(v) = 1 /\ v[1].kind = "text" /\ Len(v[1].text) = 1
  /\ RangeSpelled(v) \in ZonePair
  /\ RangeSpelled(v).start <= RangeSpelled(v).end

\* parse_decimal_value trims the value: a numeral on one line, the others empty.
IsNumeral(v, n) ==
  \E i \in 1 .. Len(v) :
    v[i] = TextLine(n) /\ \A j \in (1 .. Len(v)) \ {i} : v[j] = Blank
IsNumber(v) == \E n \in Numerals : IsNumeral(v, n)
Numeral(v)  == CHOOSE n \in Numerals : IsNumeral(v, n)

\* format!("{}{}", existing, incoming): no newline comes between the two.
CanFuse(u, v) ==
  \A line \in {u[Len(u)], v[1]} : line.kind \in {"text", "blank"}
Fused(u, v) ==
  LET x == u[Len(u)]
      y == v[1]
      seam == IF x = Blank THEN y ELSE IF y = Blank THEN x
              ELSE TextLine(x.text \o y.text)
  IN  SubSeq(u, 1, Len(u) - 1) \o << seam >> \o Tail(v)

(***************************************************************************)
(* Writing.                                                                *)
(***************************************************************************)
\* --append reads the target first, for the three kinds that heed it.
Incoming(c, ref, v, append) ==
  IF append /\ ref.kind \in {"string", "zone", "lines"}
  THEN Fused(ReadRef(c, ref), v) ELSE v

CanSet(c, ref, v, append) ==
  /\ append => CanRead(c, ref) /\ CanFuse(ReadRef(c, ref), v)
  /\ LET new == Lines(Incoming(c, ref, v, append))
     IN  \/ ref.kind = "string" /\ Scanned(c, ref.rec) /\ CanWriteRecord(c, ref.rec)
         \/ /\ ref.kind = "number" /\ IsNumber(v)
            /\ Scanned(c, ref.rec) /\ CanWriteRecord(c, ref.rec)
         \/ /\ ref.kind = "numbers" /\ Len(new) = 1 /\ new[1].kind = "num"
            /\ Scanned(c, ref.rec) /\ CanWriteRecord(c, ref.rec)
         \/ ref.kind = "hexline" /\ Scanned(c, ref.rec)
         \/ /\ ref.kind = "zone" /\ Scanned(c, ref.rec)
            /\ CanReplace(c, AsciiLine(c, ref.rec), ref.slot, new)
         \/ /\ ref.kind = "zonehex" /\ SpellsRange(v)
            /\ Scanned(c, ref.rec) /\ CanWriteRecord(c, ref.rec)
         \/ ref.kind = "lines" /\ CanHexReplace(c, ref.start, ref.end, new)

ZonesOf(c, r)   == ZonesIn(LineAt(c, AsciiLine(c, r)))
SetRef(c, ref, v, append) ==
  LET in == Incoming(c, ref, v, append)
      r  == ref.rec
      s  == ref.slot
  IN  CASE ref.kind = "string" ->
             RecordWritten(c, r, ZonesOf(c, r), NumbersOf(c, r),
                           [StringSlots(c, r) EXCEPT ![s] = in])
        [] ref.kind = "number" ->
             RecordWritten(c, r, ZonesOf(c, r),
                           NumLine([NumbersOf(c, r).value EXCEPT ![s] = Numeral(v)]),
                           StringSlots(c, r))
        [] ref.kind = "numbers" ->
             RecordWritten(c, r, ZonesOf(c, r), v[1], StringSlots(c, r))
        [] ref.kind = "hexline" -> Splice(c, AsciiLine(c, r), AsciiLine(c, r), v)
        [] ref.kind = "zone" -> Replaced(c, AsciiLine(c, r), s, Lines(in))
        [] ref.kind = "zonehex" ->
             RecordWritten(c, r, [ZonesOf(c, r) EXCEPT ![s] = RangeSpelled(v)],
                           NumbersOf(c, r), StringSlots(c, r))
        [] ref.kind = "lines" -> HexReplaced(c, ref.start, ref.end, Lines(in))

\* clear_ref_value: what an emptied source is set to.
Cleared(ref) ==
  IF ref.kind = "number" THEN << TextLine(ZeroNumeral) >>
  ELSE IF ref.kind = "zonehex" THEN << Spelled(NoZone) >> ELSE Empty

(***************************************************************************)
(* adjust_literal_target_after_source_clear.                               *)
(***************************************************************************)
SourceRange(c, from) ==
  IF from.kind \in {"zone", "zonehex", "lines"} THEN RangeNamed(c, from) ELSE NoZone

\* Mutant: a source of n lines counts as n - 1.
AdjustedOneShort(c, from, to) ==
  LET p == SourceRange(c, from)
      n == p.end - p.start
  IN  IF p = NoZone \/ to.kind # "lines" \/ to.start <= p.end
      THEN to ELSE Literal(to.start - n, to.end - n)

\* A literal range after the source moves up by the lines the source named,
\* also when clearing the source removes none (its coordinates are cleared).
Adjusted(c, from, to) ==
  LET p == SourceRange(c, from)
      n == p.end - p.start + 1
  IN  IF p = NoZone \/ to.kind # "lines" \/ to.start <= p.end
      THEN to ELSE Literal(to.start - n, to.end - n)

\* A literal target may not overlap the source; the length of an inverted
\* source underflows.
CanMove(c, from, to) ==
  LET p == SourceRange(c, from)
  IN  p # NoZone /\ to.kind = "lines" =>
        /\ to.start <= to.end /\ p.start <= p.end
        /\ ~ (to.start <= p.end /\ to.end >= p.start)

(***************************************************************************)
(* Commands.                                                               *)
(***************************************************************************)
NoJob == [phase |-> "none"]
Job(phase, from, to, aim, value, append) ==
  [phase |-> phase, from |-> from, to |-> to, aim |-> aim, value |-> value,
   append |-> append, before |-> doc]

\* What a write to ref replaces, for the properties.
Wrote(ref, v, append) ==
  LET p == RangeNamed(doc, ref)
      new == Lines(Incoming(doc, ref, v, append))
  IN  CASE ref.kind = "zone"  -> Ran("zone-replace", {<< ref.rec, ref.slot >>}, p.start, p.end, new)
        [] ref.kind = "lines" ->
             Ran("hex-replace", {k \in Key : HasRec(doc, k[1]) /\ ZoneAt(doc, k[1], k[2]) = p},
                 p.start, p.end, new)
        [] OTHER -> Ran("ref-set", {}, Len(doc), Len(doc) - 1, << >>)

\* Mutant: the file is rewritten first and then copied.
WriteThenCopy(new) == doc' = new /\ undo' = new

\* write_file_with_undo, and Store::save with its backup.
Write(new) == undo' = doc /\ doc' = new

\* ref-set --text or --from a reference, and ref-copy.
RefCopy(from, to, append) ==
  /\ SessionOpen /\ job.phase # "cleared"
  /\ CanRead(doc, from)
  /\ CanSet(doc, to, ReadRef(doc, from), append)
  /\ Wrote(to, ReadRef(doc, from), append)
  /\ Write(SetRef(doc, to, ReadRef(doc, from), append))
  /\ job' = Job("done", from, to, to, ReadRef(doc, from), append)

\* ref-copy --move up to the end of clear_ref_value.
MoveClears(from, to, append) ==
  /\ SessionOpen /\ job.phase # "cleared"
  /\ CanRead(doc, from)
  /\ CanMove(doc, from, to)
  /\ from.kind \notin {"text", "index"}
  /\ CanSet(doc, from, Cleared(from), FALSE)
  /\ Wrote(from, Cleared(from), FALSE)
  /\ Write(SetRef(doc, from, Cleared(from), FALSE))
  /\ job' = Job("cleared", from, Adjusted(doc, from, to), to, ReadRef(doc, from), append)

\* The second write; the target is resolved again in the file as it is now.
MoveSets ==
  /\ job.phase = "cleared"
  /\ CanSet(doc, job.to, job.value, job.append)
  /\ Write(SetRef(doc, job.to, job.value, job.append))
  /\ job' = [job EXCEPT !.phase = "done"]
  /\ UNCHANGED << last, commands >>

MoveFails ==
  /\ job.phase = "cleared"
  /\ ~ CanSet(doc, job.to, job.value, job.append)
  /\ job' = [job EXCEPT !.phase = "failed"]
  /\ UNCHANGED << doc, last, commands, undo >>

MoveDies ==
  /\ job.phase = "cleared"
  /\ job' = [job EXCEPT !.phase = "failed"]
  /\ UNCHANGED << doc, last, commands, undo >>

\* index-zone-replace, index-zone-copy: the commands by section name, behind
\* a scan of the whole file that finds the name.
IndexZoneEdit ==
  /\ job.phase # "cleared" /\ Scans(doc)
  /\ \E r, q \in Rec, z, y \in ZoneIdx :
       /\ Readable(doc, r)
       /\ \/ \E new \in Inputs : ZoneReplace(r, z, new)
          \/ Readable(doc, q) /\ ZoneCopy(r, z, q, y)
  /\ undo' = doc
  /\ job' = NoJob

\* index-zone-transfer: the text comes from another file, which stays as it is.
IndexZoneTransfer(other, r, z, q, y) ==
  /\ SessionOpen /\ job.phase # "cleared"
  /\ Scanned(other, r) /\ Scanned(doc, q)
  /\ CanExtract(other, AsciiLine(other, r), z)
  /\ ZoneEdit("zone-copy", q, y, Extracted(other, AsciiLine(other, r), z))
  /\ undo' = doc
  /\ job' = NoJob

\* zone-set-hex and zone-set-lines refuse a pair in the wrong order.
ZoneSet(r, z, p) ==
  /\ job.phase # "cleared" /\ p.start <= p.end
  /\ Scanned(doc, r)
  /\ SetZone(r, z, p)
  /\ undo' = doc
  /\ job' = NoJob

\* Once after a copy or a move, and not counted among the commands.
Undo ==
  /\ job.phase \in {"done", "failed"}
  /\ doc' = undo
  /\ last' = Report("undo", {}, Len(doc), Len(doc) - 1, << >>)
  /\ job' = NoJob
  /\ UNCHANGED << commands, undo >>

RefsInit == Init /\ undo = doc /\ job = NoJob

RefsNext ==
  \/ \E from \in Sources, to \in Targets, append \in BOOLEAN :
        RefCopy(from, to, append) \/ MoveClears(from, to, append)
  \/ MoveSets \/ MoveFails \/ MoveDies
  \/ IndexZoneEdit
  \/ \E other \in Layouts, r, q \in Rec, z, y \in ZoneIdx :
        IndexZoneTransfer(other, r, z, q, y)
  \/ \E r \in Rec, z \in ZoneIdx, p \in Ranges : ZoneSet(r, z, p)
  \/ Undo

RefsSpec == RefsInit /\ [][RefsNext]_refVars

(***************************************************************************)
(* Properties.                                                             *)
(***************************************************************************)
Phases == {"none", "cleared", "done", "failed"}

\* The document and its copy are texts, and a finished job says what it did.
RefsTypeOK ==
  /\ doc \in Content /\ undo \in Content
  /\ commands \in 0 .. MaxCommands
  /\ job.phase \in Phases
  /\ job.phase # "none" =>
       /\ job.value \in Seq(Line) \ {<< >>}
       /\ job.before \in Content
       /\ job.to.kind = job.aim.kind

\* Between the two writes of a move, and after a move that failed or died there,
\* the text it carried can be had back: the source reads it in the .undo copy.
ClearedTextIsInUndo ==
  job.phase \in {"cleared", "failed"} =>
    /\ CanRead(undo, job.from)
    /\ ReadRef(undo, job.from) = job.value

\* Coordinates aside, and without the empty lines every rewrite takes from the
\* end of the file.
Payload(c) ==
  LET bare == [i \in 1 .. Len(c) |-> IF c[i].kind = "hex" THEN Blank ELSE c[i]]
      used == {i \in 1 .. Len(c) : bare[i] # Blank}
  IN  SubSeq(bare, 1, CHOOSE n \in 0 .. Len(c) :
                        /\ \A i \in used : i <= n
                        /\ n = 0 \/ n \in used)

\* Lines s go and lines t become new, both counted in the same text.
MovedAtOnce(c, s, t, new) ==
  LET ls == Lines(c)
  IN  IF s.end < t.start
      THEN SubSeq(ls, 1, s.start) \o SubSeq(ls, s.end + 2, t.start)
             \o new \o SubSeq(ls, t.end + 2, Len(ls))
      ELSE SubSeq(ls, 1, t.start) \o new
             \o SubSeq(ls, t.end + 2, s.start) \o SubSeq(ls, s.end + 2, Len(ls))

\* A move of lines whose two ends share none, neither of them record lines, each
\* zone below its record, and the target not a later zone of the source's own
\* record (whose words the first write puts back to where they were), nor one that
\* has but empty lines above it to the end of the file (the first write takes them
\* away, and the value is then put above the line the zone names).
StraightMove(c, from, to) ==
  LET s == RangeNamed(c, from)
      t == RangeNamed(c, to)
  IN  /\ {from.kind, to.kind} \subseteq {"zone", "lines"}
      /\ \A p \in {s, t} : p.start <= p.end /\ p.end < Len(Lines(c)) /\ p # NoZone
                           /\ NoRecordIn(c, p.start, p.end)
      /\ ~ Meets(s.start, s.end, t.start, t.end)
      /\ \A ref \in {from, to} :
           ref.kind = "zone" =>
             HasRec(c, ref.rec) /\ AsciiLine(c, ref.rec) < RangeNamed(c, ref).start
      /\ to.kind = "zone" => Kept(c, t.start - 1, s.start, s.end)
      /\ from.kind = "zone" /\ to.kind = "zone" /\ from.rec = to.rec => t.start < s.start

MovedAsOne ==
  job.phase = "cleared" /\ job'.phase = "done" =>
    LET c == job.before
        v == IF job.append THEN Fused(ReadRef(c, job.aim), job.value) ELSE job.value
    IN  StraightMove(c, job.from, job.aim) =>
          Payload(doc') = Payload(MovedAtOnce(c, RangeNamed(c, job.from),
                                              RangeNamed(c, job.aim), Lines(v)))

\* A completed move leaves the text of one simultaneous edit: the source lines
\* are gone, the lines the target named before the move hold the value, and no
\* other payload line has changed, wherever the first write moved them to
\* (cmd_ref_copy with adjust_literal_target_after_source_clear).
MovesAreOneEdit == [][MovedAsOne]_refVars

WrittenBack ==
  job'.phase = "done" /\ job.phase # "cleared" /\ ~ job'.append =>
    LET ref == job'.to
        v   == job'.value
    IN  /\ Lines(v) = v
        /\ Marker \notin {v[i] : i \in 1 .. Len(v)}
        /\ StraightEdit(doc, last')
        /\ NoRecordIn(doc, last'.from, last'.to)
        /\ ref.kind = "lines" => ~ Resizes(last')
        /\ ref.kind \in {"string", "number", "hexline"} => Len(v) = 1
        /\ ref.kind = "zone" => last'.to < Len(Lines(doc))
        /\ ref.kind # "lines" => Propped(doc, last'.from, last'.to)
        /\ ref.kind \in IndexKinds \ {"zone"} => ~ Entangled(doc, ref.rec)
        => CanRead(doc', ref) /\ ReadRef(doc', ref) = v

\* What ref-set writes, ref-get then reads: a value of whole lines for a zone, a
\* literal range of unchanged size, one line for a string, a pair for
\* coordinates, a number for a number (nothing is cut, shifted or put into
\* another slot on the way), unless the value holds the marker of a record.  The
\* records are found again when none of them but for empty strings ends the file,
\* and a field is written into a record no other one begins in.
WrittenRefsReadBack == [][WrittenBack]_refVars

(***************************************************************************)
(* state and state-compare.                                                *)
(***************************************************************************)
\* What cmd_state_compare prints, as << what, registry index, slot >>.
RecordChanges(r, old, new) ==
  LET changed(what, z, o, n) == IF o = n THEN {} ELSE {<< what, r, z >>}
  IN  changed("strings", 0, old.strings, new.strings)
        \cup changed("db", 0, old.db, new.db)
        \cup changed("hexline", 0, old.hexline, new.hexline)
        \cup UNION {changed("content", z, old.zones[z], new.zones[z]) : z \in ZoneIdx}

Changes(old, new) ==
  {<< "removed", r, 0 >> : r \in DOMAIN old \ DOMAIN new}
    \cup {<< "added", r, 0 >> : r \in DOMAIN new \ DOMAIN old}
    \cup UNION {RecordChanges(r, old[r], new[r]) : r \in DOMAIN old \cap DOMAIN new}

\* The changes a single write may show: the field it names, the zones it meets,
\* the coordinates it moves, and what PeersKeepTheirLines excepts.  Empty hex-words
\* are spelled out by whatever rewrites them, the strings of a record that another
\* one begins in are its hex-words, and a zone of empty lines at the end of the file
\* runs past it when that end moves up.
MayChange(ref, change) ==
  LET r == change[2]
      z == change[3]
      own == ref.kind \in IndexKinds /\ ref.rec = r
      aimed == own \/ \E y \in ZoneIdx : << r, y >> \in last'.keys
  IN  CASE change[1] = "strings" -> (own /\ ref.kind = "string") \/ Entangled(doc, r)
        [] change[1] = "db"      -> own /\ ref.kind \in {"number", "numbers"}
        [] change[1] = "hexline" ->
             \/ own /\ ref.kind \in {"hexline", "zonehex"}
             \/ Resizes(last')
             \/ aimed /\ LineAt(doc, AsciiLine(doc, r)) = Blank
        [] change[1] = "content" ->
             \/ own /\ ref.kind \in {"hexline", "zonehex"}
             \/ << r, z >> \in last'.keys
             \/ ~ Apart(doc, r, z, last'.from, last'.to)
             \/ ~ Kept(doc, ZoneAt(doc, r, z).end, last'.from, last'.to)
             \/ LaterSibling(doc, last', << r, z >>)
        [] OTHER -> FALSE

\* The line a string is written to stops being one that keeps a record whole.
StillPropped(ref) ==
  IF ref.kind = "string"
  THEN LET at == AsciiLine(doc, ref.rec) + 1 + ref.slot IN Propped(doc, at, at)
  ELSE Propped(doc, last'.from, last'.to)

Compared ==
  LET ref == job'.to
      in  == Incoming(doc, ref, job'.value, job'.append)
  IN  /\ job'.phase = "done" /\ job.phase # "cleared"
      /\ CanState(doc) /\ CanState(doc')
      /\ StraightEdit(doc, last')
      /\ NoRecordIn(doc, last'.from, last'.to)
      /\ ref.kind = "zone" => last'.from <= last'.to
      /\ ref.kind \in {"string", "hexline"} => Len(in) = 1 /\ in[1] # Marker
      /\ ref.kind \in IndexKinds \ {"zone"} => ~ Entangled(doc, ref.rec)
      /\ StillPropped(ref)
      => \A change \in Changes(State(doc), State(doc')) : MayChange(ref, change)

\* A state taken before a ref-set or ref-copy and compared after it names the
\* target and nothing else: no other field, no other record, no zone apart from
\* the lines written, although most line numbers may have changed.
StateCompareNamesTheTarget == [][Compared]_refVars
=============================================================================
