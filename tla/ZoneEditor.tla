----------------------------- MODULE ZoneEditor -----------------------------
(***************************************************************************)
(* The commands that rewrite one document, one after the other: zone-copy, *)
(* zone-append, zone-replace and the library's swap (zone_editor.rs), the  *)
(* literal hex-replace (main.rs), and the Store writers behind set-zone,   *)
(* set-num, set-str, add and rm (store.rs, header.rs).                     *)
(*                                                                         *)
(* Each command is one whole invocation: it reads the file, scans it,      *)
(* edits the text and writes the file back.  A command that returns an     *)
(* error writes nothing, so its guard is the conjunction of its checks.    *)
(* Every hazard here is about coordinates: a record names its payload by   *)
(* absolute line numbers in the very text the command is reshaping.        *)
(***************************************************************************)
EXTENDS Reading

CONSTANTS
  Layouts,      \* the documents a session may start from
  Inputs,       \* texts given to zone-replace, zone-append and hex-replace
  SlotInputs,   \* texts given to set-str, cut at their newlines
  Ranges,       \* line pairs given to hex-replace and set-zone
  Zero,         \* the numeric line of a fresh index
  MaxCommands   \* bound on the length of a session

ASSUME EditorAssumption ==
  /\ \A c \in Layouts : c \in Content /\ Loadable(c)
  /\ Inputs \subseteq Seq(Prose)
  /\ \A s \in SlotInputs : s \in Seq(Prose) /\ s # << >>
  /\ Ranges \subseteq ZonePair
  /\ Zero \in Value
  /\ MaxCommands \in Nat

VARIABLES
  doc,       \* the file's content
  last,      \* what the last command did; read only by the properties
  commands   \* commands run so far

vars == << doc, last, commands >>

Key == Rec \X ZoneIdx

\* from..to: the lines the command replaced by new; keys: the zones it redefined.
Report(cmd, keys, from, to, new) ==
  [cmd |-> cmd, keys |-> keys, from |-> from, to |-> to, new |-> new]

(***************************************************************************)
(* zone_editor.rs, given the position a of a record's hex-word line.       *)
(***************************************************************************)
\* replace_zone_content.  Line a is written at the place it had before the
\* splice, with the words it had before the shift.
CanReplace(c, a, z, new) ==
  /\ a < Len(Lines(c))
  /\ IsHexWords(LineAt(c, a))
  /\ LET p == ZoneHere(c, a, z)
     IN  /\ p # NoZone
         /\ \/ Len(new) = p.end - p.start + 1
            \/ Loadable(Splice(c, p.start, p.end, new))
         /\ a < Len(Lines(SpliceAndShift(c, p.start, p.end, new)))

\* Mutant: the edited zone gets its new end first and is then shifted again.
ReplacedThenShifted(c, a, z, new) ==
  LET p  == ZoneHere(c, a, z)
      zs == [ZonesIn(LineAt(c, a)) EXCEPT ![z] = Extent(p.start, Len(new))]
  IN  ApplyDelta(UpdateLine(Splice(c, p.start, p.end, new), a, HexLine(zs)),
                 p.end + 1, Len(new) - (p.end - p.start + 1))

Replaced(c, a, z, new) ==
  LET p  == ZoneHere(c, a, z)
      zs == [ZonesIn(LineAt(c, a)) EXCEPT ![z] = Extent(p.start, Len(new))]
  IN  UpdateLine(SpliceAndShift(c, p.start, p.end, new), a, HexLine(zs))

(***************************************************************************)
(* main.rs replace_line_range_and_shift: splice, shift, rescan, and then   *)
(* give every zone that now reads exactly s..e the new extent.             *)
(***************************************************************************)
CanHexReplace(c, s, e, new) ==
  LET shifted == SpliceAndShift(c, s, e, new)
  IN  /\ s <= e
      /\ e < Len(Lines(c))
      /\ Len(new) = e - s + 1 \/ Loadable(Splice(c, s, e, new))
      /\ Loadable(shifted)
      /\ \A h \in Headers(shifted) :
            h + 2 < Len(Lines(shifted)) => IsHexWords(LineAt(shifted, h + 2))

HexReplaced(c, s, e, new) ==
  LET shifted == SpliceAndShift(c, s, e, new)
      here    == [start |-> s, end |-> e]
      exact   == {a \in 0 .. Len(Lines(shifted)) - 1 :
                    /\ a - 2 \in Headers(shifted)
                    /\ \E z \in ZoneIdx : ZoneHere(shifted, a, z) = here}
      resized(zs) ==
        [z \in ZoneIdx |-> IF zs[z] = here THEN Extent(s, Len(new)) ELSE zs[z]]
  IN  IF exact = {}
      THEN shifted
      ELSE UpdateLines(shifted, exact,
             [a \in exact |-> HexLine(resized(ZonesIn(LineAt(shifted, a))))])

(***************************************************************************)
(* Store::update_section_data: one field of the record has changed, and    *)
(* all six lines are written again.  No line delta is applied.             *)
(***************************************************************************)
\* Mutant: the last two strings come back in the wrong order.
RecordWrittenSwapped(c, r, zs, num, strings) ==
  LET h == HeaderLine(c, r)
  IN  Splice(c, h + 1, h + 6,
             << IndexLine(r), HexLine(zs), num >>
               \o strings[1] \o strings[3] \o strings[2])

RecordWritten(c, r, zs, num, strings) ==
  LET h == HeaderLine(c, r)
  IN  Splice(c, h + 1, h + 6,
             << IndexLine(r), HexLine(zs), num >>
               \o strings[1] \o strings[2] \o strings[3])

(***************************************************************************)
(* Commands.                                                               *)
(***************************************************************************)
SessionOpen == commands < MaxCommands

Ran(cmd, keys, from, to, new) ==
  /\ commands' = commands + 1
  /\ last' = Report(cmd, keys, from, to, new)

ZoneEdit(cmd, r, z, new) ==
  LET a == AsciiLine(doc, r)
      p == ZoneHere(doc, a, z)
  IN  /\ CanReplace(doc, a, z, new)
      /\ Ran(cmd, {<< r, z >>}, p.start, p.end, new)
      /\ doc' = Replaced(doc, a, z, new)

ZoneReplace(r, z, new) ==
  /\ SessionOpen /\ Loadable(doc) /\ HasRec(doc, r)
  /\ ZoneEdit("zone-replace", r, z, new)

ZoneAppend(r, z, new) ==
  /\ SessionOpen /\ Loadable(doc) /\ HasRec(doc, r)
  /\ CanExtract(doc, AsciiLine(doc, r), z)
  /\ ZoneEdit("zone-append", r, z, Extracted(doc, AsciiLine(doc, r), z) \o new)

ZoneCopy(r, z, q, y) ==
  /\ SessionOpen /\ Loadable(doc) /\ HasRec(doc, r) /\ HasRec(doc, q)
  /\ CanExtract(doc, AsciiLine(doc, r), z)
  /\ ZoneEdit("zone-copy", q, y, Extracted(doc, AsciiLine(doc, r), z))

\* Mutant: the first text is read after it has been replaced.
ZoneSwapLateRead(r, z, q, y) ==
  LET a    == AsciiLine(doc, r)
      b    == AsciiLine(doc, q)
      half == Replaced(doc, a, z, Extracted(doc, b, y))
  IN  /\ SessionOpen /\ Loadable(doc) /\ HasRec(doc, r) /\ HasRec(doc, q)
      /\ CanExtract(doc, a, z) /\ CanExtract(doc, b, y)
      /\ CanReplace(doc, a, z, Extracted(doc, b, y))
      /\ CanExtract(half, a, z)
      /\ CanReplace(half, b, y, Extracted(half, a, z))
      /\ Ran("swap", {<< r, z >>, << q, y >>}, 0, 0, << >>)
      /\ doc' = Replaced(half, b, y, Extracted(half, a, z))

\* swap_zone_content: the second replacement uses the position the second
\* record had before the first one.
ZoneSwap(r, z, q, y) ==
  LET a    == AsciiLine(doc, r)
      b    == AsciiLine(doc, q)
      half == Replaced(doc, a, z, Extracted(doc, b, y))
  IN  /\ SessionOpen /\ Loadable(doc) /\ HasRec(doc, r) /\ HasRec(doc, q)
      /\ CanExtract(doc, a, z) /\ CanExtract(doc, b, y)
      /\ CanReplace(doc, a, z, Extracted(doc, b, y))
      /\ CanReplace(half, b, y, Extracted(doc, a, z))
      /\ Ran("swap", {<< r, z >>, << q, y >>}, 0, 0, << >>)
      /\ doc' = Replaced(half, b, y, Extracted(doc, a, z))

HexReplace(s, e, new) ==
  /\ SessionOpen
  /\ CanHexReplace(doc, s, e, new)
  /\ Ran("hex-replace",
         {k \in Key : HasRec(doc, k[1])
                      /\ ZoneAt(doc, k[1], k[2]) = [start |-> s, end |-> e]},
         s, e, new)
  /\ doc' = HexReplaced(doc, s, e, new)

\* Store::update_zone takes any pair of line numbers, in any order.
SetZone(r, z, p) ==
  LET zs == [ZonesIn(LineAt(doc, AsciiLine(doc, r))) EXCEPT ![z] = p]
  IN  /\ SessionOpen /\ CanWriteRecord(doc, r)
      /\ Ran("set-zone", {<< r, z >>}, Len(doc), Len(doc) - 1, << >>)
      /\ doc' = RecordWritten(doc, r, zs, LineAt(doc, AsciiLine(doc, r) + 1),
                              StringSlots(doc, r))

SetNumber(r, v) ==
  /\ SessionOpen /\ CanWriteRecord(doc, r)
  /\ Ran("set-num", {}, Len(doc), Len(doc) - 1, << >>)
  /\ doc' = RecordWritten(doc, r, ZonesIn(LineAt(doc, AsciiLine(doc, r))),
                          NumLine(v), StringSlots(doc, r))

\* Store::update_string accepts a value with newlines in it.
SetString(r, slot, text) ==
  LET at == AsciiLine(doc, r) + 1 + slot
  IN  /\ SessionOpen /\ CanWriteRecord(doc, r)
      /\ Ran("set-str", {}, at, at, text)
      /\ doc' = RecordWritten(doc, r, ZonesIn(LineAt(doc, AsciiLine(doc, r))),
                              LineAt(doc, AsciiLine(doc, r) + 1),
                              [StringSlots(doc, r) EXCEPT ![slot] = text])

\* add_index starts with a newline of its own and ends with an empty piece.
AddIndex(r) ==
  /\ SessionOpen
  /\ Loadable(doc)
  /\ ~ HasRec(doc, r)
  /\ Ran("add", {}, Len(doc), Len(doc) - 1, << >>)
  /\ doc' = doc \o << Marker, IndexLine(r), HexLine([z \in ZoneIdx |-> NoZone]),
                      NumLine(Zero), Blank, Blank, Blank, Blank >>

\* remove_section drops the marker and its six lines, nothing else.
RemoveIndex(r) ==
  LET h == HeaderLine(doc, r)
  IN  /\ SessionOpen
      /\ Loadable(doc)
      /\ Readable(doc, r)
      /\ Loadable(Splice(doc, h, h + 6, << >>))
      /\ Ran("rm", {r} \X ZoneIdx, h, h + 6, << >>)
      /\ doc' = SpliceAndShift(doc, h, h + 6, << >>)

Init ==
  /\ doc \in Layouts
  /\ last = Report("open", {}, Len(doc), Len(doc) - 1, << >>)
  /\ commands = 0

Next ==
  \/ \E r \in Rec, z \in ZoneIdx, new \in Inputs :
        ZoneReplace(r, z, new) \/ ZoneAppend(r, z, new)
  \/ \E r, q \in Rec, z, y \in ZoneIdx :
        ZoneCopy(r, z, q, y) \/ ZoneSwap(r, z, q, y)
  \/ \E p \in Ranges, new \in Inputs : HexReplace(p.start, p.end, new)
  \/ \E r \in Rec, z \in ZoneIdx, p \in Ranges : SetZone(r, z, p)
  \/ \E r \in Rec, v \in Value : SetNumber(r, v)
  \/ \E r \in Rec, slot \in 1 .. 3, text \in SlotInputs : SetString(r, slot, text)
  \/ \E r \in Rec : AddIndex(r) \/ RemoveIndex(r)

Spec == Init /\ [][Next]_vars

(***************************************************************************)
(* Properties.                                                             *)
(***************************************************************************)
Commands == {"open", "zone-replace", "zone-append", "zone-copy", "swap",
             "hex-replace", "set-zone", "set-num", "set-str", "add", "rm"}
ZoneCommands == {"zone-replace", "zone-append", "zone-copy"}

\* Every command leaves a text made of lines, never an empty one.
TypeOK ==
  /\ doc \in Content
  /\ last \in [cmd : Commands, keys : SUBSET Key, from : Nat,
               to : Nat \cup {-1}, new : Seq(Line)]
  /\ commands \in 0 .. MaxCommands

\* Two line ranges have a line in common.
Meets(a, b, s, e) == a <= e /\ s <= b

\* What a zone reads, line by line.
Reads(c, r, z) ==
  IF HasRec(c, r) /\ ZoneAt(c, r, z) # NoZone
  THEN [i \in 0 .. ZoneAt(c, r, z).end - ZoneAt(c, r, z).start |->
          LineAt(c, ZoneAt(c, r, z).start + i)]
  ELSE << >>

Says(new) == [i \in 0 .. Len(new) - 1 |-> new[i + 1]]

\* Lines s..e hold no part of an index record.
NoRecordIn(c, s, e) ==
  \A q \in Rec : HasRec(c, q) => ~ Meets(HeaderLine(c, q), String3Line(c, q), s, e)

\* Zone z of r is a run of payload lines of the file and neither it nor its
\* record meets the lines s..e.
Apart(c, r, z, s, e) ==
  /\ HasRec(c, r)
  /\ ~ Meets(HeaderLine(c, r), String3Line(c, r), s, e)
  /\ LET p == ZoneAt(c, r, z)
     IN  /\ p # NoZone
         /\ p.start <= p.end /\ p.end < Len(Lines(c))
         /\ ~ Meets(p.start, p.end, s, e)
         /\ NoRecordIn(c, p.start, p.end)

Resizes(l) == Len(l.new) # l.to - l.from + 1

\* The edits whose coordinates the code gets right: the file can be scanned
\* (hex-replace does not ask), a zone command that changes the number of lines
\* finds its own record above the zone, no edit that does so takes the hex-words
\* away from under a marker, a literal range is not deleted outright, a string
\* slot receives one line, no line of a record is written into payload (copying
\* one makes a second record), and a zone does not end before it starts (set-zone
\* lets it; the lines between are then doubled).
StraightEdit(c, l) ==
  /\ Loadable(c)
  /\ l.new \in Seq(Prose)
  /\ l.from <= l.to + 1
  /\ l.cmd \in ZoneCommands /\ Resizes(l) =>
        \A k \in l.keys : AsciiLine(c, k[1]) < l.from
  /\ Resizes(l) => \A h \in Headers(c) : h < l.from => h + 2 < l.from
  /\ l.cmd = "hex-replace" => l.new # << >>
  /\ l.cmd = "set-str" => ~ Resizes(l)

\* The zones replace_zone_content forgets: those of the edited record itself
\* that lie after the lines it resizes.
LaterSibling(c, l, k) ==
  /\ l.cmd \in ZoneCommands
  /\ Resizes(l)
  /\ \E j \in l.keys : j[1] = k[1]
  /\ ZoneAt(c, k[1], k[2]).start > l.to

\* The one-line zone under lines deleted from the top of the file: it moves to
\* line 0, and 0 : 0 is how the code spells the empty zone.
LandsOnLineZero(c, l, k) ==
  /\ l.from = 0
  /\ l.new = << >>
  /\ ZoneAt(c, k[1], k[2]) = [start |-> l.to + 1, end |-> l.to + 1]

PeersKept ==
  last'.cmd # "swap" /\ StraightEdit(doc, last') =>
    \A k \in Key \ last'.keys :
      /\ Apart(doc, k[1], k[2], last'.from, last'.to)
      /\ ~ LaterSibling(doc, last', k)
      /\ ~ LandsOnLineZero(doc, last', k)
      => Reads(doc', k[1], k[2]) = Reads(doc, k[1], k[2])

\* Whatever a command does to its own lines, a zone that shares no line with
\* them reads the same text afterwards, wherever that text has moved to
\* (apply_line_deltas against the absolute pairs of every record).
PeersKeepTheirLines == [][PeersKept]_vars

EditRead ==
  /\ last'.cmd \in ZoneCommands \cup {"hex-replace"}
  /\ StraightEdit(doc, last')
  /\ last'.from <= last'.to /\ last'.to < Len(Lines(doc))
  /\ last'.from = 0 => Len(last'.new) # 1
  /\ NoRecordIn(doc, last'.from, last'.to)
  => \A k \in last'.keys : Reads(doc', k[1], k[2]) = Says(last'.new)

\* After an edit, every zone it was aimed at reads exactly the text the edit
\* put there: the new end is neither shifted twice nor left behind.  A zone
\* left with line 0 alone is the empty pair and reads nothing.
EditedZoneReadsTheEdit == [][EditRead]_vars

\* The numbers and strings of a record, as long as the file shows all of it.
Fields(c, r) ==
  IF Loadable(c) /\ Readable(c, r)
  THEN [i \in 1 .. 4 |-> LineAt(c, AsciiLine(c, r) + i)]
  ELSE << >>

\* Another record begins among the lines of this one: scan_content takes both,
\* and the hex-words of the one are a value of the other.
Entangled(c, r) ==
  \E h \in Headers(c) : h \in HeaderLine(c, r) + 1 .. String3Line(c, r)

\* A line with something on it, which the edit of s .. e leaves, stands at i or
\* below it: rewriting the file takes empty lines off its end no further than that.
Kept(c, i, s, e) == \E n \in i .. Len(c) - 1 : n \notin s .. e /\ LineAt(c, n) # Blank

\* The file keeps every record whole.
Propped(c, s, e) == \A h \in Headers(c) : Kept(c, h + 6, s, e)

ValuesKept ==
  /\ StraightEdit(doc, last')
  /\ last'.cmd \in ZoneCommands \cup {"hex-replace", "set-zone", "add"}
  /\ Propped(doc, last'.from, last'.to)
  /\ NoRecordIn(doc, last'.from, last'.to)
  => \A q \in Rec :
        HasRec(doc, q) /\ ~ Entangled(doc, q) => Fields(doc', q) = Fields(doc, q)

\* A command that meets no record line leaves the file loadable and every
\* record with its values, provided no record but for empty strings and empty
\* lines ends the file: each rewrite takes one empty line off its end.
RecordsKeepTheirValues == [][ValuesKept]_vars

Swapped ==
  last'.cmd = "swap" =>
    \A j, k \in last'.keys :
      LET from(i) == ZoneAt(doc, i[1], i[2]).start
          to(i)   == ZoneAt(doc, i[1], i[2]).end
      IN  /\ j[1] # k[1]
          /\ Apart(doc, j[1], j[2], from(k), to(k))
          /\ Apart(doc, k[1], k[2], from(j), to(j))
          /\ Kept(doc, to(j), from(k), to(k)) /\ Kept(doc, to(k), from(j), to(j))
          /\ \A i, h \in {j, k} : AsciiLine(doc, i[1]) < from(h)
          => Reads(doc', j[1], j[2]) = Reads(doc, k[1], k[2])

\* Swapping two zones of different records exchanges what they read, when both
\* records stand above both zones: the position of the second record, taken
\* before the first replacement, is then still right.  Empty lines at the end of
\* the file are no zone to swap: the first replacement takes some of them away,
\* and the second one then inserts above the line its zone names.
SwapExchanges == [][Swapped]_vars

\* docs/ARCHITECTURE.md on zone edits: "Every zone boundary stays consistent
\* with the new document structure".  Nothing there excepts the other zones of
\* the record being edited.
EveryZoneStaysConsistent ==
  [][last'.cmd = "zone-replace" =>
       \A k \in Key \ last'.keys :
         /\ Apart(doc, k[1], k[2], last'.from, last'.to)
         /\ \A j \in last'.keys : AsciiLine(doc, j[1]) < last'.from
         => Reads(doc', k[1], k[2]) = Reads(doc, k[1], k[2])]_vars
=============================================================================
