-------------------------- MODULE ZoneEditorProofs --------------------------
(***************************************************************************)
(* Theorems about ZoneEditor, for every set of starting documents, inputs  *)
(* and line pairs.                                                         *)
(***************************************************************************)
EXTENDS ZoneEditor, DocumentProofs

\* One zone of a hex-word line has natural ends.
LEMMA ZoneHereType ==
  ASSUME NEW c \in Content, NEW a \in Int, NEW z \in ZoneIdx,
         IsHexWords(LineAt(c, a))
  PROVE  /\ ZonesIn(LineAt(c, a)) \in Zones
         /\ ZoneHere(c, a, z) \in ZonePair
<1>1. ZonesIn(LineAt(c, a)) \in Zones
  BY ZonesThereType
<1> QED BY <1>1 DEF ZoneHere, Zones

\* extract_zone_content answers with lines of the document.
LEMMA ExtractedType ==
  ASSUME NEW c \in Content, NEW a \in Int, NEW z \in ZoneIdx, CanExtract(c, a, z)
  PROVE  Extracted(c, a, z) \in Seq(Line)
<1> DEFINE ls == Lines(c)
           p  == ZoneHere(c, a, z)
           n  == IF p.end < Len(ls) THEN p.end + 1 ELSE Len(ls)
<1>1. ls \in Seq(Line) /\ Len(ls) \in Nat
  BY LinesType
<1>2. CASE a >= Len(ls) \/ p = NoZone
  BY <1>2, EmptySeq DEF Extracted
<1>3. CASE ~ (a >= Len(ls) \/ p = NoZone)
  <2>1. IsHexWords(LineAt(c, a))
    BY <1>1, <1>3 DEF CanExtract
  <2>2. p.start \in Nat /\ p.end \in Nat
    BY <2>1, ZoneHereType DEF ZonePair
  <2>3. p.start + 1 \in Int /\ n \in Int /\ n <= Len(ls) /\ 1 <= p.start + 1
    BY <1>1, <2>2
  <2>4. \A i \in p.start + 1 .. n : ls[i] \in Line
    <3> TAKE i \in p.start + 1 .. n
    <3>1. i \in 1 .. Len(ls)
      BY <1>1, <2>3
    <3> QED BY <1>1, <3>1, ElementOfSeq
  <2>5. SubSeq(ls, p.start + 1, n) \in Seq(Line)
    BY <2>3, <2>4, SubSeqProperties
  <2> QED BY <1>3, <2>5 DEF Extracted
<1> QED BY <1>2, <1>3

\* replace_zone_content answers with a document.
LEMMA ReplacedType ==
  ASSUME NEW c \in Content, NEW a \in Int, NEW z \in ZoneIdx, NEW new \in Seq(Line),
         CanReplace(c, a, z, new)
  PROVE  /\ Replaced(c, a, z, new) \in Content
         /\ ZoneHere(c, a, z) \in ZonePair
<1> DEFINE p == ZoneHere(c, a, z)
           zs == [ZonesIn(LineAt(c, a)) EXCEPT ![z] = Extent(p.start, Len(new))]
<1>1. ZonesIn(LineAt(c, a)) \in Zones /\ p \in ZonePair
  BY ZoneHereType DEF CanReplace
<1>2. p.start \in Nat /\ p.end \in Nat
  BY <1>1 DEF ZonePair
<1>3. Extent(p.start, Len(new)) \in ZonePair
  BY <1>2, LenProperties, ExtentType
<1>4. zs \in Zones
  BY <1>1, <1>3 DEF Zones
<1>5. SpliceAndShift(c, p.start, p.end, new) \in Content
  BY <1>2, SpliceAndShiftType
<1>6. UpdateLine(SpliceAndShift(c, p.start, p.end, new), a, HexLine(zs)) \in Content
  BY <1>4, <1>5, HexLineType, UpdateLineType
<1> QED BY <1>1, <1>6 DEF Replaced

\* replace_line_range_and_shift answers with a document.
LEMMA HexReplacedType ==
  ASSUME NEW c \in Content, NEW s \in Nat, NEW e \in Nat, NEW new \in Seq(Line),
         CanHexReplace(c, s, e, new)
  PROVE  HexReplaced(c, s, e, new) \in Content
<1> DEFINE shifted == SpliceAndShift(c, s, e, new)
           here    == [start |-> s, end |-> e]
           exact   == {a \in 0 .. Len(Lines(shifted)) - 1 :
                         /\ a - 2 \in Headers(shifted)
                         /\ \E z \in ZoneIdx : ZoneHere(shifted, a, z) = here}
           resized(zs) ==
             [z \in ZoneIdx |-> IF zs[z] = here THEN Extent(s, Len(new)) ELSE zs[z]]
           lines   == [a \in exact |-> HexLine(resized(ZonesIn(LineAt(shifted, a))))]
<1>1. shifted \in Content
  BY SpliceAndShiftType
<1>2. Extent(s, Len(new)) \in ZonePair
  BY LenProperties, ExtentType
<1>3. ASSUME NEW zs \in Zones PROVE resized(zs) \in Zones
  BY <1>2 DEF Zones
<1>4. ASSUME NEW a \in exact PROVE lines[a] \in Line
  <2>1. a \in Int /\ a - 2 \in Headers(shifted) /\ (a - 2) + 2 = a
    BY <1>1, LinesType
  <2>2. a < Len(Lines(shifted))
    BY <1>1, LinesType
  <2>3. IsHexWords(LineAt(shifted, a))
    BY <2>1, <2>2 DEF CanHexReplace
  <2>4. ZonesIn(LineAt(shifted, a)) \in Zones
    BY <1>1, <2>1, <2>3, LineAtType, ZonesInType DEF Content
  <2>5. resized(ZonesIn(LineAt(shifted, a))) \in Zones
    BY <1>3, <2>4
  <2> QED BY <2>5, HexLineType
<1>5. UpdateLines(shifted, exact, lines) \in Content
  <2> HIDE DEF shifted, exact, lines
  <2> QED BY <1>1, <1>4, UpdateLinesType
<1> QED BY <1>1, <1>5 DEF HexReplaced

\* The six lines the Store writes back are lines, so the record stays a record.
LEMMA RecordWrittenType ==
  ASSUME NEW c \in Content, NEW r \in Rec, CanWriteRecord(c, r), NEW zs \in Zones,
         NEW num \in Line,
         NEW strings \in [1 .. 3 -> Seq(Line)]
  PROVE  RecordWritten(c, r, zs, num, strings) \in Content
<1> DEFINE h    == HeaderLine(c, r)
           head == << IndexLine(r), HexLine(zs), num >>
<1>1. h \in Nat
  BY HeaderLineType DEF CanWriteRecord, Readable
<1>2. IndexLine(r) \in Line
  BY DEF IndexLine, Line
<1>3. head \in Seq(Line)
  BY <1>2, HexLineType
<1>4. strings[1] \in Seq(Line) /\ strings[2] \in Seq(Line) /\ strings[3] \in Seq(Line)
  OBVIOUS
<1> HIDE DEF head
<1>5. head \o strings[1] \in Seq(Line)
  BY <1>3, <1>4, ConcatProperties
<1>6. (head \o strings[1]) \o strings[2] \in Seq(Line)
  BY <1>4, <1>5, ConcatProperties
<1>7. ((head \o strings[1]) \o strings[2]) \o strings[3] \in Seq(Line)
  BY <1>4, <1>6, ConcatProperties
<1>8. h + 1 \in Nat /\ h + 6 \in Int /\ h + 6 >= -1
  BY <1>1
<1>9. Splice(c, h + 1, h + 6, ((head \o strings[1]) \o strings[2]) \o strings[3]) \in Content
  BY <1>7, <1>8, SpliceType
<1> QED BY <1>9 DEF RecordWritten, head

\* The three string slots, read off the file, are lines of a document.
LEMMA StringSlotsType ==
  ASSUME NEW c \in Content, NEW r, HasRec(c, r)
  PROVE  StringSlots(c, r) \in [1 .. 3 -> Seq(Line)]
<1>1. AsciiLine(c, r) \in Nat
  BY HeaderLineType
<1>2. ASSUME NEW i \in 1 .. 3
      PROVE  << LineAt(c, AsciiLine(c, r) + 1 + i) >> \in Seq(Line)
  <2>1. LineAt(c, AsciiLine(c, r) + 1 + i) \in Line
    BY <1>1, LineAtType DEF Content
  <2> QED BY <2>1
<1> QED BY <1>2 DEF StringSlots

\* What a command is remembered by, given a document and lines it touched.
LEMMA RanType ==
  ASSUME TypeOK, SessionOpen, NEW cmd \in Commands, NEW keys \in SUBSET Key,
         NEW from \in Nat, NEW to \in Nat \cup {-1}, NEW new \in Seq(Line),
         Ran(cmd, keys, from, to, new), doc' \in Content
  PROVE  TypeOK'
<1>1. commands' \in 0 .. MaxCommands
  BY EditorAssumption DEF TypeOK, SessionOpen, Ran
<1>2. last' \in [cmd : Commands, keys : SUBSET Key, from : Nat,
                 to : Nat \cup {-1}, new : Seq(Line)]
  BY DEF Ran, Report
<1> QED BY <1>1, <1>2 DEF TypeOK

\* zone-replace, zone-append and zone-copy share their last step.
LEMMA ZoneEditType ==
  ASSUME TypeOK, SessionOpen, NEW cmd \in ZoneCommands, NEW r \in Rec,
         NEW z \in ZoneIdx, HasRec(doc, r), NEW new \in Seq(Line),
         ZoneEdit(cmd, r, z, new)
  PROVE  TypeOK'
<1> DEFINE a == AsciiLine(doc, r)
           p == ZoneHere(doc, a, z)
<1>1. doc \in Content /\ a \in Int
  BY HeaderLineType DEF TypeOK
<1>2. CanReplace(doc, a, z, new) /\ doc' = Replaced(doc, a, z, new)
  BY DEF ZoneEdit
<1>3. doc' \in Content /\ p.start \in Nat /\ p.end \in Nat
  BY <1>1, <1>2, ReplacedType DEF ZonePair
<1>4. {<< r, z >>} \in SUBSET Key /\ cmd \in Commands
  BY DEF Key, ZoneCommands, Commands
<1>5. Ran(cmd, {<< r, z >>}, p.start, p.end, new)
  BY DEF ZoneEdit
<1> QED BY <1>3, <1>4, <1>5, RanType

\* One step per command.
LEMMA StepKeepsTypes == TypeOK /\ [Next]_vars => TypeOK'
<1> SUFFICES ASSUME TypeOK, [Next]_vars PROVE TypeOK'
  OBVIOUS
<1>0. doc \in Content /\ doc \in Seq(Line) /\ Len(doc) \in Nat
  BY LenProperties DEF TypeOK, Content
<1>1. ASSUME NEW r \in Rec, NEW z \in ZoneIdx, NEW new \in Inputs, ZoneReplace(r, z, new)
      PROVE  TypeOK'
  <2>1. new \in Seq(Line)
    BY EditorAssumption, ProseSeq
  <2>2. "zone-replace" \in ZoneCommands
    BY DEF ZoneCommands
  <2> QED BY <1>1, <2>1, <2>2, ZoneEditType DEF ZoneReplace
<1>2. ASSUME NEW r \in Rec, NEW z \in ZoneIdx, NEW new \in Inputs, ZoneAppend(r, z, new)
      PROVE  TypeOK'
  <2>1. new \in Seq(Line)
    BY EditorAssumption, ProseSeq
  <2>2. Extracted(doc, AsciiLine(doc, r), z) \in Seq(Line)
    BY <1>0, <1>2, HeaderLineType, ExtractedType DEF ZoneAppend
  <2>3. Extracted(doc, AsciiLine(doc, r), z) \o new \in Seq(Line)
    BY <2>1, <2>2, ConcatProperties
  <2>4. "zone-append" \in ZoneCommands
    BY DEF ZoneCommands
  <2> QED BY <1>2, <2>3, <2>4, ZoneEditType DEF ZoneAppend
<1>3. ASSUME NEW r \in Rec, NEW q \in Rec, NEW z \in ZoneIdx, NEW y \in ZoneIdx,
             ZoneCopy(r, z, q, y)
      PROVE  TypeOK'
  <2>1. Extracted(doc, AsciiLine(doc, r), z) \in Seq(Line)
    BY <1>0, <1>3, HeaderLineType, ExtractedType DEF ZoneCopy
  <2>2. "zone-copy" \in ZoneCommands
    BY DEF ZoneCommands
  <2> QED BY <1>3, <2>1, <2>2, ZoneEditType DEF ZoneCopy
<1>4. ASSUME NEW r \in Rec, NEW q \in Rec, NEW z \in ZoneIdx, NEW y \in ZoneIdx,
             ZoneSwap(r, z, q, y)
      PROVE  TypeOK'
  <2> DEFINE a    == AsciiLine(doc, r)
             b    == AsciiLine(doc, q)
             half == Replaced(doc, a, z, Extracted(doc, b, y))
  <2>1. a \in Int /\ b \in Int
    BY <1>0, <1>4, HeaderLineType DEF ZoneSwap
  <2>2. Extracted(doc, a, z) \in Seq(Line) /\ Extracted(doc, b, y) \in Seq(Line)
    BY <1>0, <1>4, <2>1, ExtractedType DEF ZoneSwap
  <2>3. half \in Content
    BY <1>0, <1>4, <2>1, <2>2, ReplacedType DEF ZoneSwap
  <2>4. CanReplace(half, b, y, Extracted(doc, a, z))
        /\ doc' = Replaced(half, b, y, Extracted(doc, a, z))
    BY <1>4 DEF ZoneSwap
  <2>5. doc' \in Content
    <3> HIDE DEF half
    <3> QED BY <2>1, <2>2, <2>3, <2>4, ReplacedType
  <2>6. SessionOpen /\ Ran("swap", {<< r, z >>, << q, y >>}, 0, 0, << >>)
    BY <1>4 DEF ZoneSwap
  <2>7. {<< r, z >>, << q, y >>} \in SUBSET Key /\ "swap" \in Commands
    BY DEF Key, Commands
  <2> QED BY <2>5, <2>6, <2>7, EmptySeq, RanType
<1>5. ASSUME NEW p \in Ranges, NEW new \in Inputs, HexReplace(p.start, p.end, new)
      PROVE  TypeOK'
  <2> DEFINE keys == {k \in Key : HasRec(doc, k[1])
                        /\ ZoneAt(doc, k[1], k[2]) = [start |-> p.start, end |-> p.end]}
  <2>1. p.start \in Nat /\ p.end \in Nat /\ new \in Seq(Line)
    BY EditorAssumption, ProseSeq DEF ZonePair
  <2>2. doc' \in Content
    BY <1>0, <1>5, <2>1, HexReplacedType DEF HexReplace
  <2>3. SessionOpen /\ Ran("hex-replace", keys, p.start, p.end, new)
    BY <1>5 DEF HexReplace
  <2>4. keys \in SUBSET Key /\ "hex-replace" \in Commands
    BY DEF Commands
  <2> HIDE DEF keys
  <2> QED BY <2>1, <2>2, <2>3, <2>4, RanType
<1>6. ASSUME NEW r \in Rec, NEW z \in ZoneIdx, NEW p \in Ranges, SetZone(r, z, p)
      PROVE  TypeOK'
  <2> DEFINE old == ZonesIn(LineAt(doc, AsciiLine(doc, r)))
  <2>1. CanWriteRecord(doc, r) /\ HasRec(doc, r) /\ SessionOpen
    BY <1>6 DEF SetZone, CanWriteRecord, Readable
  <2>2. AsciiLine(doc, r) \in Int
    BY <1>0, <2>1, HeaderLineType
  <2>3. old \in Zones
    BY <1>0, <2>1, <2>2, ZonesThereType DEF CanWriteRecord
  <2>4. [old EXCEPT ![z] = p] \in Zones
    BY <2>3, EditorAssumption DEF Zones
  <2>5. LineAt(doc, AsciiLine(doc, r) + 1) \in Line
    BY <1>0, <2>2, LineAtType
  <2>6. StringSlots(doc, r) \in [1 .. 3 -> Seq(Line)]
    BY <1>0, <2>1, StringSlotsType
  <2> HIDE DEF old
  <2>7. RecordWritten(doc, r, [old EXCEPT ![z] = p], LineAt(doc, AsciiLine(doc, r) + 1),
                      StringSlots(doc, r)) \in Content
    BY <1>0, <2>1, <2>4, <2>5, <2>6, RecordWrittenType
  <2>8. doc' \in Content
    BY <1>6, <2>7 DEF SetZone, old
  <2>9. Ran("set-zone", {<< r, z >>}, Len(doc), Len(doc) - 1, << >>)
    BY <1>6 DEF SetZone
  <2>10. {<< r, z >>} \in SUBSET Key /\ "set-zone" \in Commands
         /\ Len(doc) - 1 \in Nat \cup {-1}
    BY <1>0 DEF Key, Commands
  <2> QED BY <1>0, <2>1, <2>8, <2>9, <2>10, EmptySeq, RanType
<1>7. ASSUME NEW r \in Rec, NEW v \in Value, SetNumber(r, v)
      PROVE  TypeOK'
  <2> DEFINE old == ZonesIn(LineAt(doc, AsciiLine(doc, r)))
  <2>1. CanWriteRecord(doc, r) /\ HasRec(doc, r) /\ SessionOpen
    BY <1>7 DEF SetNumber, CanWriteRecord, Readable
  <2>2. AsciiLine(doc, r) \in Int
    BY <1>0, <2>1, HeaderLineType
  <2>3. old \in Zones
    BY <1>0, <2>1, <2>2, ZonesThereType DEF CanWriteRecord
  <2>4. NumLine(v) \in Line
    BY DEF NumLine, Line
  <2>5. StringSlots(doc, r) \in [1 .. 3 -> Seq(Line)]
    BY <1>0, <2>1, StringSlotsType
  <2> HIDE DEF old
  <2>6. RecordWritten(doc, r, old, NumLine(v), StringSlots(doc, r)) \in Content
    BY <1>0, <2>1, <2>3, <2>4, <2>5, RecordWrittenType
  <2>7. doc' \in Content
    BY <1>7, <2>6 DEF SetNumber, old
  <2>8. Ran("set-num", {}, Len(doc), Len(doc) - 1, << >>)
    BY <1>7 DEF SetNumber
  <2>9. "set-num" \in Commands /\ {} \in SUBSET Key /\ Len(doc) - 1 \in Nat \cup {-1}
    BY <1>0 DEF Commands
  <2> QED BY <1>0, <2>1, <2>7, <2>8, <2>9, EmptySeq, RanType
<1>8. ASSUME NEW r \in Rec, NEW slot \in 1 .. 3, NEW text \in SlotInputs,
             SetString(r, slot, text)
      PROVE  TypeOK'
  <2> DEFINE old == ZonesIn(LineAt(doc, AsciiLine(doc, r)))
             at  == AsciiLine(doc, r) + 1 + slot
             strings == [StringSlots(doc, r) EXCEPT ![slot] = text]
  <2>1. CanWriteRecord(doc, r) /\ HasRec(doc, r) /\ SessionOpen
    BY <1>8 DEF SetString, CanWriteRecord, Readable
  <2>2. AsciiLine(doc, r) \in Nat /\ at \in Nat
    BY <1>0, <2>1, HeaderLineType
  <2>3. old \in Zones
    BY <1>0, <2>1, <2>2, ZonesThereType DEF CanWriteRecord
  <2>4. LineAt(doc, AsciiLine(doc, r) + 1) \in Line
    BY <1>0, <2>2, LineAtType
  <2>5. text \in Seq(Line)
    BY EditorAssumption, ProseSeq
  <2>6. strings \in [1 .. 3 -> Seq(Line)]
    BY <1>0, <2>1, <2>5, StringSlotsType
  <2> HIDE DEF old, strings
  <2>7. RecordWritten(doc, r, old, LineAt(doc, AsciiLine(doc, r) + 1), strings) \in Content
    BY <1>0, <2>1, <2>3, <2>4, <2>6, RecordWrittenType
  <2>8. doc' \in Content
    BY <1>8, <2>7 DEF SetString, old, strings
  <2>9. Ran("set-str", {}, at, at, text)
    BY <1>8 DEF SetString
  <2>10. "set-str" \in Commands /\ {} \in SUBSET Key
    BY DEF Commands
  <2> HIDE DEF at
  <2> QED BY <2>1, <2>2, <2>5, <2>8, <2>9, <2>10, RanType
<1>9. ASSUME NEW r \in Rec, AddIndex(r)
      PROVE  TypeOK'
  <2> DEFINE hex == HexLine([z \in ZoneIdx |-> NoZone])
             record == << Marker, IndexLine(r), hex, NumLine(Zero), Blank, Blank, Blank, Blank >>
  <2>1. [z \in ZoneIdx |-> NoZone] \in Zones
    BY DEF Zones, NoZone, ZonePair
  <2>2. hex \in Line
    BY <2>1, HexLineType
  <2>3. Marker \in Line /\ IndexLine(r) \in Line /\ Blank \in Line
    BY DEF IndexLine, Line
  <2>4. NumLine(Zero) \in Line
    BY EditorAssumption DEF NumLine, Line
  <2> HIDE DEF hex
  <2>5. record \in Seq(Line)
    BY <2>2, <2>3, <2>4
  <2>6. Len(record) = 8
    OBVIOUS
  <2>7. doc' = doc \o record
    BY <1>9 DEF AddIndex, hex
  <2> HIDE DEF record
  <2>8. doc \o record \in Seq(Line) /\ Len(doc \o record) = Len(doc) + 8
    <3>1. Len(doc \o record) = Len(doc) + Len(record)
      BY <1>0, <2>5, ConcatProperties
    <3>2. doc \o record \in Seq(Line)
      BY <1>0, <2>5, ConcatProperties
    <3> QED BY <2>6, <3>1, <3>2
  <2>9. doc' \in Content
    BY <1>0, <2>7, <2>8, EmptySeq DEF Content
  <2>10. SessionOpen /\ Ran("add", {}, Len(doc), Len(doc) - 1, << >>)
    BY <1>9 DEF AddIndex
  <2>11. "add" \in Commands /\ {} \in SUBSET Key /\ Len(doc) - 1 \in Nat \cup {-1}
    BY <1>0 DEF Commands
  <2> QED BY <1>0, <2>9, <2>10, <2>11, EmptySeq, RanType
<1>10. ASSUME NEW r \in Rec, RemoveIndex(r)
       PROVE  TypeOK'
  <2> DEFINE h == HeaderLine(doc, r)
  <2>1. h \in Nat /\ h + 6 \in Nat
    BY <1>0, <1>10, HeaderLineType DEF RemoveIndex, Readable
  <2>2. doc' \in Content
    BY <1>0, <1>10, <2>1, EmptySeq, SpliceAndShiftType DEF RemoveIndex
  <2>3. SessionOpen /\ Ran("rm", {r} \X ZoneIdx, h, h + 6, << >>)
    BY <1>10 DEF RemoveIndex
  <2>4. {r} \X ZoneIdx \in SUBSET Key /\ "rm" \in Commands
    BY DEF Key, Commands
  <2> HIDE DEF h
  <2> QED BY <2>1, <2>2, <2>3, <2>4, EmptySeq, RanType
<1>11. CASE UNCHANGED vars
  BY <1>11 DEF vars, TypeOK
<1> QED
  BY <1>1, <1>2, <1>3, <1>4, <1>5, <1>6, <1>7, <1>8, <1>9, <1>10, <1>11 DEF Next

\* Whatever commands run, in whatever order, the file is a sequence of well-formed
\* lines: no rewrite of zone_editor.rs, main.rs or store.rs produces a negative
\* line number, a hex-word line that is not one, or a text without a line.
THEOREM TypeCorrect == Spec => []TypeOK
<1>1. Init => TypeOK
  <2> SUFFICES ASSUME Init PROVE TypeOK
    OBVIOUS
  <2>1. doc \in Content
    BY EditorAssumption DEF Init
  <2>2. Len(doc) \in Nat /\ Len(doc) - 1 \in Nat \cup {-1}
    BY <2>1, LenProperties DEF Content
  <2>3. "open" \in Commands /\ {} \in SUBSET Key
    BY DEF Commands
  <2>4. last \in [cmd : Commands, keys : SUBSET Key, from : Nat,
                 to : Nat \cup {-1}, new : Seq(Line)]
    BY <2>2, <2>3, EmptySeq DEF Init, Report
  <2>5. commands \in 0 .. MaxCommands
    BY EditorAssumption DEF Init
  <2> QED BY <2>1, <2>4, <2>5 DEF TypeOK
<1>2. TypeOK /\ [Next]_vars => TypeOK'
  BY StepKeepsTypes
<1> QED BY <1>1, <1>2, PTL DEF Spec

(***************************************************************************)
(* A splice of prose between the records, and the zones around it.         *)
(***************************************************************************)
\* A shifted number is 0 only if the deletion above it reaches that far.
LEMMA ShiftedToZero ==
  ASSUME NEW n \in Nat, NEW from \in Int, NEW delta \in Int,
         from <= n, ShiftWord(n, from, delta) = 0
  PROVE  n + delta <= 0
BY DEF ShiftWord

\* A zone, and the record that names it, as an edit of other lines leaves them:
\* the record is found, its two words are the shifted ones, and the lines they
\* name are the ones they named before.
LEMMA PeerFollows ==
  ASSUME NEW c \in Content, Indexed(c),
         NEW s \in Nat, NEW e \in Int, NEW new, Tame(c, s, e, new),
         s <= e + 1, HexWordsStay(c, s, e, new),
         NEW r \in Rec, NEW z \in ZoneIdx, HasRec(c, r),
         HeaderLine(c, r) + 2 < s \/ HeaderLine(c, r) > e,
         ZoneAt(c, r, z) # NoZone,
         ZoneAt(c, r, z).start <= ZoneAt(c, r, z).end,
         ZoneAt(c, r, z).end < Len(Lines(c)) \/ e < Len(Lines(c)),
         ~ Meets(ZoneAt(c, r, z).start, ZoneAt(c, r, z).end, s, e),
         RecordsApart(c, ZoneAt(c, r, z).start, ZoneAt(c, r, z).end),
         ~ (s = 0 /\ new = << >> /\ ZoneAt(c, r, z) = [start |-> e + 1, end |-> e + 1])
  PROVE  LET d     == SpliceAndShift(c, s, e, new)
             delta == Len(new) - (e - s + 1)
             p     == ZoneAt(c, r, z)
         IN  /\ HeadersOf(d, r) = {ShiftWord(HeaderLine(c, r), e + 1, delta)}
             /\ LineAt(d, AsciiLine(d, r)).kind = "hex"
             /\ ZoneAt(d, r, z) = ShiftPair(p, e + 1, delta)
             /\ ZoneAt(d, r, z) # NoZone
             /\ ZoneAt(d, r, z).start \in Nat
             /\ ZoneAt(d, r, z).end = ZoneAt(d, r, z).start + (p.end - p.start)
             /\ \A i \in 0 .. p.end - p.start :
                   /\ p.start + i \in Nat /\ (p.start + i < s \/ p.start + i > e)
                   /\ ZoneAt(d, r, z).start + i = ShiftWord(p.start + i, e + 1, delta)
                   /\ LineAt(d, ZoneAt(d, r, z).start + i) = LineAt(c, p.start + i)
<1> DEFINE d     == SpliceAndShift(c, s, e, new)
           delta == Len(new) - (e - s + 1)
           Sh(m) == ShiftWord(m, e + 1, delta)
           p     == ZoneAt(c, r, z)
           line  == LineAt(c, AsciiLine(c, r))
<1>1. new \in Seq(Line) /\ Len(new) \in Nat /\ (new = << >> <=> Len(new) = 0)
  <2>1. new \in Seq(Line)
    BY DEF Tame, Unmarked
  <2> QED BY <2>1, LenProperties, EmptySeq
<1>0. Unmarked(new)
  BY DEF Tame
<1>2. /\ HeadersOf(d, r) = {Sh(HeaderLine(c, r))}
      /\ LineAt(d, AsciiLine(d, r)) = IF line.kind = "hex"
                                      THEN ShiftHexLine(line, e + 1, delta)
                                      ELSE line
  <2>1. AsciiLine(c, r) \in Nat
    BY HeaderLineType
  <2>2. line # Blank
    BY DEF ZoneAt, ZonesIn, Blank
  <2>3. AsciiLine(c, r) < Len(Lines(c))
    BY <2>1, <2>2, WrittenLineCounts
  <2> QED BY <2>3, IndexedFollows
<1>3. line.kind = "hex" /\ line \in Line /\ p \in ZonePair
  <2>1. AsciiLine(c, r) \in Int
    BY HeaderLineType
  <2>2. line \in Line
    BY <2>1, LineAtType DEF Content
  <2>3. line.kind = "hex"
    BY DEF ZoneAt, ZonesIn
  <2>4. ZonesIn(line) \in Zones
    BY <2>2, <2>3, ZonesInType DEF IsHexWords
  <2> QED BY <2>2, <2>3, <2>4 DEF ZoneAt, Zones
<1>4. ZoneAt(d, r, z) = ShiftPair(p, e + 1, delta)
  <2>1. p = line.zones[z]
    BY <1>3 DEF ZoneAt, ZonesIn
  <2> HIDE DEF p, line, d, delta
  <2>2. LineAt(d, AsciiLine(d, r)) =
          HexLine([y \in ZoneIdx |-> ShiftPair(line.zones[y], e + 1, delta)])
    BY <1>2, <1>3 DEF ShiftHexLine
  <2> QED BY <2>1, <2>2 DEF ZoneAt, ZonesIn, HexLine
<1> HIDE DEF d, line
<1>5. /\ p.start \in Nat /\ p.end \in Nat /\ p.start <= p.end
      /\ p.end < s \/ p.start > e
      /\ p = [start |-> p.start, end |-> p.end]
  <2>1. p \in [start : Nat, end : Nat]
    BY <1>3 DEF ZonePair
  <2> HIDE DEF p
  <2>2. p.start \in Nat /\ p.end \in Nat /\ p = [start |-> p.start, end |-> p.end]
    BY <2>1
  <2> USE DEF p
  <2> QED BY <2>2 DEF Meets
<1>6. delta \in Int /\ delta + (e - s + 1) = Len(new) /\ s + Len(new) - 1 = e + delta
  BY <1>1
<1>7. /\ Sh(p.start) \in Nat
      /\ Sh(p.end) - Sh(p.start) = p.end - p.start
      /\ \A i \in 0 .. p.end - p.start : Sh(p.start + i) = Sh(p.start) + i
  <2>1. ASSUME NEW a \in Nat, NEW b \in Nat, a <= b, b < s \/ a > e
        PROVE  /\ Sh(a) \in Nat
               /\ Sh(b) - Sh(a) = b - a
               /\ \A i \in 0 .. b - a : Sh(a + i) = Sh(a) + i
    <3> HIDE DEF p, delta
    <3>1. ASSUME NEW i \in 0 .. b - a
          PROVE  Sh(a + i) = Sh(a) + i /\ Sh(a) \in Nat
      BY <1>1, <1>6, <2>1 DEF ShiftWord
    <3>2. b - a \in 0 .. b - a /\ 0 \in 0 .. b - a /\ a + (b - a) = b
      BY <2>1
    <3> HIDE DEF Sh
    <3>3. Sh(b) = Sh(a) + (b - a) /\ Sh(a) \in Nat
      BY <3>1, <3>2
    <3> QED BY <2>1, <3>1, <3>3
  <2> HIDE DEF p, Sh
  <2> QED BY <1>5, <2>1
<1>9. ShiftPair(p, e + 1, delta) # NoZone
  <2>1. SUFFICES ASSUME Sh(p.start) = 0, Sh(p.end) = 0 PROVE FALSE
    BY DEF ShiftPair, NoZone
  <2>2. p.start = p.end
    <3> HIDE DEF p, delta, Sh
    <3> QED BY <1>5, <1>7, <2>1
  <2>3. CASE p.start < s
    <3>1. p.start = 0
      <4> HIDE DEF p, delta
      <4>1. p.start < e + 1
        BY <1>5, <2>3
      <4> QED BY <2>1, <4>1 DEF ShiftWord
    <3>2. p = NoZone
      BY <1>5, <2>2, <3>1 DEF NoZone
    <3> QED BY <3>2
  <2>4. CASE p.start > e
    <3>1. s = 0 /\ Len(new) = 0 /\ p.start = e + 1
      <4> HIDE DEF p, delta
      <4>1. p.start \in Nat /\ Len(new) \in Nat /\ e + 1 <= p.start /\ e + 1 \in Int
        BY <1>1, <1>5, <2>4
      <4>2. ShiftWord(p.start, e + 1, delta) = 0
        BY <2>1
      <4> HIDE DEF Sh
      <4>3. p.start + delta <= 0
        BY <1>6, <4>1, <4>2, ShiftedToZero
      <4>4. p.start + Len(new) + s <= e + 1
        BY <1>6, <4>1, <4>3
      <4> QED BY <4>1, <4>4
    <3> QED BY <1>1, <1>5, <2>2, <3>1
  <2> HIDE DEF p
  <2> QED BY <1>5, <2>3, <2>4
<1>10. ASSUME NEW i \in 0 .. p.end - p.start
       PROVE  LineAt(d, Sh(p.start) + i) = LineAt(c, p.start + i)
  <2>1. p.start + i \in Nat /\ (p.start + i < s \/ p.start + i > e)
    <3> HIDE DEF p
    <3> QED BY <1>5
  <2>2. (p.start + i) - 2 \notin Spared(c, s, e)
    <3>1. \A h \in Headers(c) : h \in Nat /\ (h + 6 < p.start \/ h > p.end)
      BY DEF Headers, RecordsApart
    <3> HIDE DEF p
    <3>2. p.start <= (p.start + i) /\ (p.start + i) - 2 <= p.end /\ p.start + i \in Nat
      BY <1>5
    <3>3. ASSUME (p.start + i) - 2 \in Spared(c, s, e) PROVE FALSE
      <4>1. ((p.start + i) - 2) + 6 < p.start \/ (p.start + i) - 2 > p.end
        BY <3>1, <3>3 DEF Spared
      <4> QED BY <1>5, <3>2, <4>1
    <3> QED BY <3>3
  <2>3. LineAt(d, Sh(p.start + i)) = LineAt(c, p.start + i)
    <3>1. p.start + i < Len(Lines(c)) \/ e < Len(Lines(c))
      <4>1. Len(Lines(c)) \in Nat
        BY LinesType
      <4> HIDE DEF p
      <4>2. p.end < Len(Lines(c)) \/ e < Len(Lines(c))
        BY DEF p
      <4> QED BY <1>5, <4>1, <4>2
    <3> QED BY <2>1, <2>2, <3>1, <1>0, LineFollows DEF d
  <2> HIDE DEF Sh, p
  <2> QED BY <1>7, <2>3
<1>11. /\ ZoneAt(d, r, z) # NoZone
       /\ ZoneAt(d, r, z).start = Sh(p.start)
       /\ ZoneAt(d, r, z).end - ZoneAt(d, r, z).start = p.end - p.start
  <2>1. ZoneAt(d, r, z) = [start |-> Sh(p.start), end |-> Sh(p.end)]
    BY <1>4 DEF ShiftPair
  <2> HIDE DEF Sh, p, delta
  <2> QED BY <1>4, <1>7, <1>9, <2>1
<1>12. LineAt(d, AsciiLine(d, r)).kind = "hex"
  BY <1>2, <1>3 DEF ShiftHexLine, HexLine
<1>13. ASSUME NEW i \in 0 .. p.end - p.start
       PROVE  p.start + i \in Nat /\ (p.start + i < s \/ p.start + i > e)
  <2> HIDE DEF p
  <2> QED BY <1>5
<1>14. ZoneAt(d, r, z).end = ZoneAt(d, r, z).start + (p.end - p.start)
       /\ ZoneAt(d, r, z).start \in Nat
  <2>1. Sh(p.end) \in Nat
    <3> HIDE DEF p, delta
    <3>1. p.end < s \/ p.end > e
      BY <1>5
    <3> QED BY <1>1, <1>5, <1>6, <3>1 DEF ShiftWord
  <2>2. ZoneAt(d, r, z).end = Sh(p.end) /\ ZoneAt(d, r, z).start = Sh(p.start)
    BY <1>4 DEF ShiftPair
  <2> HIDE DEF p, Sh
  <2> QED BY <1>5, <1>7, <2>1, <2>2
<1> HIDE DEF Sh, p
<1>15. \A i \in 0 .. p.end - p.start :
         /\ p.start + i \in Nat /\ (p.start + i < s \/ p.start + i > e)
         /\ ZoneAt(d, r, z).start + i = Sh(p.start + i)
         /\ LineAt(d, ZoneAt(d, r, z).start + i) = LineAt(c, p.start + i)
  BY <1>7, <1>10, <1>11, <1>13
<1> QED BY <1>2, <1>4, <1>11, <1>12, <1>14, <1>15 DEF d, p, Sh, delta

\* Two documents in which a zone names as many lines, and the same ones, read
\* alike through it.
LEMMA ReadsAlike ==
  ASSUME NEW c, NEW d, NEW r, NEW z,
         HasRec(c, r), HasRec(d, r),
         ZoneAt(c, r, z) # NoZone, ZoneAt(d, r, z) # NoZone,
         ZoneAt(c, r, z).start \in Nat, ZoneAt(c, r, z).end \in Nat,
         ZoneAt(d, r, z).start \in Nat,
         ZoneAt(d, r, z).end =
           ZoneAt(d, r, z).start + (ZoneAt(c, r, z).end - ZoneAt(c, r, z).start),
         \A i \in 0 .. ZoneAt(c, r, z).end - ZoneAt(c, r, z).start :
            LineAt(d, ZoneAt(d, r, z).start + i) = LineAt(c, ZoneAt(c, r, z).start + i)
  PROVE  Reads(d, r, z) = Reads(c, r, z)
<1> DEFINE p == ZoneAt(c, r, z)
           q == ZoneAt(d, r, z)
<1>1. q.end - q.start = p.end - p.start
  <2> HIDE DEF p, q
  <2>1. p.start \in Nat /\ p.end \in Nat /\ q.start \in Nat
        /\ q.end = q.start + (p.end - p.start)
    BY DEF p, q
  <2> QED BY <2>1
<1>2. Reads(d, r, z) = [i \in 0 .. q.end - q.start |-> LineAt(d, q.start + i)]
  BY DEF Reads
<1>3. Reads(c, r, z) = [i \in 0 .. p.end - p.start |-> LineAt(c, p.start + i)]
  BY DEF Reads
<1> QED BY <1>1, <1>2, <1>3

\* A zone that shares no line with the edit reads the same text afterwards: its
\* two words are shifted with the lines they name (apply_line_deltas against the
\* absolute pairs of every record).  The exception is the one-line zone that
\* moves to line 0, which the code then takes for the empty one.
THEOREM SpliceKeepsPeers ==
  ASSUME NEW c \in Content, Indexed(c),
         NEW s \in Nat, NEW e \in Int, NEW new, Tame(c, s, e, new),
         s <= e + 1, HexWordsStay(c, s, e, new),
         NEW r \in Rec, NEW z \in ZoneIdx, HasRec(c, r),
         HeaderLine(c, r) + 2 < s \/ HeaderLine(c, r) > e,
         ZoneAt(c, r, z) # NoZone,
         ZoneAt(c, r, z).start <= ZoneAt(c, r, z).end,
         ZoneAt(c, r, z).end < Len(Lines(c)) \/ e < Len(Lines(c)),
         ~ Meets(ZoneAt(c, r, z).start, ZoneAt(c, r, z).end, s, e),
         RecordsApart(c, ZoneAt(c, r, z).start, ZoneAt(c, r, z).end),
         ~ (s = 0 /\ new = << >> /\ ZoneAt(c, r, z) = [start |-> e + 1, end |-> e + 1])
  PROVE  Reads(SpliceAndShift(c, s, e, new), r, z) = Reads(c, r, z)
<1> DEFINE d == SpliceAndShift(c, s, e, new)
           p == ZoneAt(c, r, z)
           q == ZoneAt(d, r, z)
<1>1. /\ HasRec(d, r) /\ q # NoZone /\ q.start \in Nat /\ q.end = q.start + (p.end - p.start)
      /\ \A i \in 0 .. p.end - p.start : LineAt(d, q.start + i) = LineAt(c, p.start + i)
  <2>1. HeadersOf(d, r) = {ShiftWord(HeaderLine(c, r), e + 1, Len(new) - (e - s + 1))}
    BY PeerFollows
  <2>2. q # NoZone /\ q.start \in Nat /\ q.end = q.start + (p.end - p.start)
    BY PeerFollows
  <2>3. \A i \in 0 .. p.end - p.start : LineAt(d, q.start + i) = LineAt(c, p.start + i)
    BY PeerFollows
  <2> HIDE DEF d
  <2> QED BY <2>1, <2>2, <2>3 DEF HasRec
<1>2. p.start \in Nat /\ p.end \in Nat
  BY ZoneAtType
<1> QED BY <1>1, <1>2, ReadsAlike

(***************************************************************************)
(* The commands, and the zones that share no line with them.               *)
(***************************************************************************)
\* In a file that can be scanned, lines that hold no record hold no part of one.
LEMMA NoRecordIsApart ==
  ASSUME NEW c \in Content, Loadable(c), NEW a \in Int, NEW b \in Int, NoRecordIn(c, a, b)
  PROVE  RecordsApart(c, a, b)
<1> SUFFICES ASSUME NEW h \in Headers(c) PROVE h + 6 < a \/ h > b
  BY DEF RecordsApart
<1>1. PICK q \in Rec : HasRec(c, q) /\ HeaderLine(c, q) = h
  BY MarkersAreRecords
<1>2. ~ (h <= b /\ a <= h + 6)
  BY <1>1 DEF NoRecordIn, Meets, String3Line
<1>3. h \in Int
  BY HeaderInLines
<1> QED BY <1>2, <1>3

\* What Apart says of a zone, its record and the lines s..e.
LEMMA ApartFacts ==
  ASSUME NEW c \in Content, Loadable(c), NEW q \in Rec, NEW y \in ZoneIdx,
         NEW s \in Int, NEW e \in Int, Apart(c, q, y, s, e)
  PROVE  /\ HasRec(c, q) /\ HeaderLine(c, q) \in Nat
         /\ HeaderLine(c, q) + 6 < s \/ HeaderLine(c, q) > e
         /\ ZoneAt(c, q, y) # NoZone /\ ZoneAt(c, q, y) \in ZonePair
         /\ ZoneAt(c, q, y).start \in Nat /\ ZoneAt(c, q, y).end \in Nat
         /\ ZoneAt(c, q, y).start <= ZoneAt(c, q, y).end
         /\ ZoneAt(c, q, y).end < Len(Lines(c))
         /\ ~ Meets(ZoneAt(c, q, y).start, ZoneAt(c, q, y).end, s, e)
         /\ ZoneAt(c, q, y).end < s \/ ZoneAt(c, q, y).start > e
         /\ RecordsApart(c, ZoneAt(c, q, y).start, ZoneAt(c, q, y).end)
<1> DEFINE p == ZoneAt(c, q, y)
<1>1. /\ HasRec(c, q) /\ ~ Meets(HeaderLine(c, q), String3Line(c, q), s, e)
      /\ p # NoZone /\ p.start <= p.end /\ p.end < Len(Lines(c))
      /\ ~ Meets(p.start, p.end, s, e) /\ NoRecordIn(c, p.start, p.end)
  BY DEF Apart
<1>2. p \in ZonePair /\ p.start \in Nat /\ p.end \in Nat
  BY <1>1, ZoneAtType
<1>3. HeaderLine(c, q) \in Nat
  BY <1>1, HeaderLineType
<1>4. HeaderLine(c, q) + 6 < s \/ HeaderLine(c, q) > e
  BY <1>1, <1>3 DEF Meets, String3Line
<1>5. p.end < s \/ p.start > e
  <2> HIDE DEF p
  <2> QED BY <1>1, <1>2 DEF Meets
<1>6. RecordsApart(c, p.start, p.end)
  <2> HIDE DEF p
  <2>1. p.start \in Int /\ p.end \in Int
    BY <1>2
  <2> QED BY <1>1, <2>1, NoRecordIsApart
<1> QED BY <1>1, <1>2, <1>3, <1>4, <1>5, <1>6

\* A rewrite that changes neither the three first lines of a record nor the lines
\* of a zone, and writes no marker and no index line, leaves the zone as it was.
LEMMA OtherLinesWritten ==
  ASSUME NEW c \in Content, NEW d \in Content, NEW q \in Rec, NEW y \in ZoneIdx,
         NEW h \in Nat, HeadersOf(c, q) = {h},
         ZoneAt(c, q, y) # NoZone, ZoneAt(c, q, y).start \in Nat, ZoneAt(c, q, y).end \in Nat,
         \A n \in Int : \/ LineAt(d, n) = LineAt(c, n)
                        \/ LineAt(d, n).kind \notin {"marker", "index"},
         LineAt(d, h) = LineAt(c, h), LineAt(d, h + 1) = LineAt(c, h + 1),
         ZonesIn(LineAt(d, h + 2))[y] = ZonesIn(LineAt(c, h + 2))[y],
         \A n \in ZoneAt(c, q, y).start .. ZoneAt(c, q, y).end : LineAt(d, n) = LineAt(c, n)
  PROVE  Reads(d, q, y) = Reads(c, q, y)
<1> DEFINE p == ZoneAt(c, q, y)
<1>1. HasRec(d, q) /\ HeaderLine(d, q) = h
  BY RecordStays
<1>2. HasRec(c, q) /\ HeaderLine(c, q) = h
  BY DEF HasRec, HeaderLine
<1>3. ZoneAt(d, q, y) = p
  BY <1>1, <1>2 DEF ZoneAt, AsciiLine
<1>4. \A i \in 0 .. p.end - p.start : LineAt(d, p.start + i) = LineAt(c, p.start + i)
  <2> HIDE DEF p
  <2>1. \A n \in p.start .. p.end : LineAt(d, n) = LineAt(c, n)
    BY DEF p
  <2>2. p.start \in Nat /\ p.end \in Nat
    BY DEF p
  <2> QED BY <2>1, <2>2
<1>5. p.end = p.start + (p.end - p.start)
  <2> HIDE DEF p
  <2>1. p.start \in Nat /\ p.end \in Nat
    BY DEF p
  <2> QED BY <2>1
<1> QED BY <1>1, <1>2, <1>3, <1>4, <1>5, ReadsAlike

\* replace_zone_content writes its own hex-word line, at the place it had before
\* the splice, over what is neither a marker nor an index line.
LEMMA OwnLineFound ==
  ASSUME NEW c \in Content, NEW a \in Nat, a < Len(Lines(c)), IsHexWords(LineAt(c, a)),
         NEW s \in Nat, NEW e \in Int, NEW new, Tame(c, s, e, new), s <= e + 1,
         HexWordsStay(c, s, e, new), a - 2 \in Headers(c), Len(new) # e - s + 1 => a < s
  PROVE  LineAt(SpliceAndShift(c, s, e, new), a).kind \notin {"marker", "index"}
<1> DEFINE d     == SpliceAndShift(c, s, e, new)
           delta == Len(new) - (e - s + 1)
<1>1. new \in Seq(Line) /\ Len(new) \in Nat
  BY LenProperties DEF Tame, Unmarked
<1>2. LineAt(c, a).kind \in {"hex", "blank"}
  BY DEF IsHexWords
<1>3. CASE a < s \/ a > e
  <2>1. ShiftWord(a, e + 1, delta) = a
    <3>1. a < e + 1 \/ (a >= e + 1 /\ delta = 0)
      BY <1>1, <1>3
    <3> HIDE DEF delta
    <3> QED BY <3>1 DEF ShiftWord
  <2>2. LineAt(d, ShiftWord(a, e + 1, delta)) =
          IF a - 2 \in Spared(c, s, e) /\ LineAt(c, a).kind = "hex"
          THEN ShiftHexLine(LineAt(c, a), e + 1, delta) ELSE LineAt(c, a)
    BY <1>3, LineFollows DEF Tame
  <2>3. ShiftHexLine(LineAt(c, a), e + 1, delta).kind = "hex"
    BY DEF ShiftHexLine, HexLine
  <2> HIDE DEF d, delta
  <2>4. LineAt(d, a).kind \in {"hex", "blank"}
    BY <1>2, <2>1, <2>2, <2>3
  <2> QED BY <2>4 DEF d
<1>4. CASE ~ (a < s \/ a > e)
  <2>1. Len(new) = e - s + 1 /\ delta = 0
    BY <1>1, <1>4
  <2>2. d = Splice(c, s, e, new)
    BY <2>1 DEF SpliceAndShift
  <2>3. a - s \in 0 .. Len(new) - 1 /\ s + (a - s) = a /\ s <= Len(Lines(c))
        /\ (a - s) + 1 \in 1 .. Len(new)
    <3>1. Len(Lines(c)) \in Nat
      BY LinesType
    <3> QED BY <1>4, <2>1, <3>1
  <2>4. LineAt(Splice(c, s, e, new), s + (a - s)) = new[(a - s) + 1]
    BY <1>1, <2>3, NewLineReads
  <2>5. new[(a - s) + 1] \in Prose
    <3>1. ~ RecordsApart(c, s, e)
      BY <1>4 DEF RecordsApart
    <3> QED BY <2>3, <3>1, ElementOfSeq DEF Tame
  <2> HIDE DEF d
  <2>6. LineAt(d, a) \in Prose
    BY <2>2, <2>3, <2>4, <2>5
  <2> QED BY <2>6 DEF d, Prose, Blank
<1> QED BY <1>3, <1>4

\* A zone, and its record, that an edit of s .. e has nothing to do with.
Clear(c, q, y, s, e) ==
  /\ HasRec(c, q)
  /\ HeaderLine(c, q) + 6 < s \/ HeaderLine(c, q) > e
  /\ ZoneAt(c, q, y) # NoZone
  /\ ZoneAt(c, q, y).start <= ZoneAt(c, q, y).end
  /\ ZoneAt(c, q, y).end < Len(Lines(c)) \/ e < Len(Lines(c))
  /\ ~ Meets(ZoneAt(c, q, y).start, ZoneAt(c, q, y).end, s, e)
  /\ RecordsApart(c, ZoneAt(c, q, y).start, ZoneAt(c, q, y).end)

LEMMA ApartIsClear ==
  ASSUME NEW c \in Content, Loadable(c), NEW q \in Rec, NEW y \in ZoneIdx,
         NEW s \in Int, NEW e \in Int, Apart(c, q, y, s, e)
  PROVE  Clear(c, q, y, s, e)
BY ApartFacts DEF Clear

\* zone-replace, zone-append and zone-copy: a zone of another record, or of the
\* same one but not below lines that changed in number, reads what it read.
LEMMA ReplacedKeepsPeers ==
  ASSUME NEW c \in Content, Indexed(c), NEW r \in Rec, NEW z \in ZoneIdx, HasRec(c, r),
         NEW new \in Seq(Line), CanReplace(c, AsciiLine(c, r), z, new),
         NEW s \in Nat, NEW e \in Nat, ZoneHere(c, AsciiLine(c, r), z) = [start |-> s, end |-> e],
         Tame(c, s, e, new), s <= e + 1, HexWordsStay(c, s, e, new),
         Len(new) # e - s + 1 => AsciiLine(c, r) < s,
         NEW q \in Rec, NEW y \in ZoneIdx, << q, y >> # << r, z >>,
         Clear(c, q, y, s, e),
         ~ (q = r /\ Len(new) # e - s + 1 /\ ZoneAt(c, q, y).start > e),
         ~ (s = 0 /\ new = << >> /\ ZoneAt(c, q, y) = [start |-> e + 1, end |-> e + 1])
  PROVE  Reads(Replaced(c, AsciiLine(c, r), z, new), q, y) = Reads(c, q, y)
<1> DEFINE a     == AsciiLine(c, r)
           d     == SpliceAndShift(c, s, e, new)
           delta == Len(new) - (e - s + 1)
           Sh(n) == ShiftWord(n, e + 1, delta)
           p     == ZoneAt(c, q, y)
           h     == HeaderLine(c, q)
           zs    == [ZonesIn(LineAt(c, a)) EXCEPT ![z] = Extent(s, Len(new))]
           out   == UpdateLine(d, a, HexLine(zs))
<1>1. new \in Seq(Line) /\ Len(new) \in Nat /\ delta \in Int
  BY LenProperties DEF Tame, Unmarked
<1>2. a \in Nat /\ a < Len(Lines(c)) /\ IsHexWords(LineAt(c, a)) /\ a < Len(Lines(d))
      /\ a - 2 \in Headers(c)
  <2>1. a < Len(Lines(SpliceAndShift(c, ZoneHere(c, a, z).start, ZoneHere(c, a, z).end, new)))
    BY DEF CanReplace
  <2>2. a - 2 = HeaderLine(c, r) /\ HeaderLine(c, r) \in Headers(c)
    BY TheIndexed DEF AsciiLine
  <2> QED BY <2>1, <2>2, HeaderLineType DEF CanReplace
<1>3. /\ h \in Nat /\ (h + 6 < s \/ h > e)
      /\ p # NoZone /\ p \in ZonePair /\ p.start \in Nat /\ p.end \in Nat
      /\ p.start <= p.end /\ (p.end < s \/ p.start > e)
      /\ (p.end < Len(Lines(c)) \/ e < Len(Lines(c)))
      /\ RecordsApart(c, p.start, p.end) /\ HasRec(c, q)
      /\ ~ Meets(p.start, p.end, s, e)
  <2>1. p # NoZone /\ HasRec(c, q) /\ p.start <= p.end /\ ~ Meets(p.start, p.end, s, e)
    BY DEF Clear
  <2>2. p \in ZonePair /\ p.start \in Nat /\ p.end \in Nat /\ h \in Nat
    BY <2>1, ZoneAtType, HeaderLineType
  <2>3. p.end < s \/ p.start > e
    <3> HIDE DEF p
    <3> QED BY <2>1, <2>2 DEF Meets
  <2> QED BY <2>1, <2>2, <2>3 DEF Clear
<1>4. /\ HeadersOf(d, q) = {Sh(h)}
      /\ LineAt(d, AsciiLine(d, q)).kind = "hex"
      /\ ZoneAt(d, q, y) = ShiftPair(p, e + 1, delta)
      /\ ZoneAt(d, q, y) # NoZone
      /\ ZoneAt(d, q, y).start \in Nat
      /\ ZoneAt(d, q, y).end = ZoneAt(d, q, y).start + (p.end - p.start)
      /\ \A i \in 0 .. p.end - p.start :
            /\ p.start + i \in Nat /\ (p.start + i < s \/ p.start + i > e)
            /\ ZoneAt(d, q, y).start + i = Sh(p.start + i)
            /\ LineAt(d, ZoneAt(d, q, y).start + i) = LineAt(c, p.start + i)
  <2>1. h + 2 < s \/ h > e
    BY <1>3
  <2> QED BY <1>3, <2>1, PeerFollows
<1>5. d \in Content
  BY <1>1, SpliceAndShiftType
<1>6. zs \in Zones /\ HexLine(zs) \in Line
  <2>1. Extent(s, Len(new)) \in ZonePair
    BY <1>1, ExtentType
  <2>2. ZonesIn(LineAt(c, a)) \in Zones
    BY <1>2, ZonesThereType
  <2>3. zs \in Zones
    BY <2>1, <2>2 DEF Zones
  <2> QED BY <2>3, HexLineType
<1>7. Replaced(c, a, z, new) = out
  BY DEF Replaced
<1>8. LineAt(d, a).kind \notin {"marker", "index"}
  BY <1>2, OwnLineFound
<1>9. Sh(h) \in Nat /\ Sh(h) + 1 = Sh(h + 1) /\ Sh(h) + 2 = Sh(h + 2)
  <2> HIDE DEF h
  <2>1. h + 2 < s \/ h > e
    BY <1>3
  <2> QED BY <1>1, <1>3, <2>1 DEF ShiftWord
<1>10. HeaderLine(d, q) = Sh(h) /\ AsciiLine(d, q) = Sh(h) + 2 /\ HasRec(d, q)
  <2> HIDE DEF d, Sh
  <2> QED BY <1>4 DEF HasRec, HeaderLine, AsciiLine
<1>11. LineAt(d, Sh(h)) = Marker /\ LineAt(d, Sh(h) + 1) = IndexLine(q)
  <2> HIDE DEF d, Sh
  <2>1. Sh(h) \in Headers(d) /\ LineAt(d, Sh(h) + 1) = IndexLine(q)
    BY <1>4 DEF HeadersOf
  <2> QED BY <1>5, <2>1, HeaderInLines
<1>12. \A n \in Int : LineAt(out, n) = IF n = a THEN HexLine(zs) ELSE LineAt(d, n)
  <2> HIDE DEF d, zs, a
  <2> TAKE n \in Int
  <2>1. LineAt(out, n) = IF n \in {a} /\ n \in 0 .. Len(Lines(d)) - 1
                         THEN [i \in {a} |-> HexLine(zs)][n] ELSE LineAt(d, n)
    <3>1. \A i \in {a} : [j \in {a} |-> HexLine(zs)][i] \in Line
      BY <1>6
    <3> QED BY <1>5, <3>1, UpdateLinesReads DEF UpdateLine
  <2>2. Len(Lines(d)) \in Nat
    BY <1>5, LinesType
  <2>3. a \in 0 .. Len(Lines(d)) - 1
    BY <1>2, <2>2
  <2> QED BY <2>1, <2>3
<1>13. out \in Content
  <2> HIDE DEF d, zs
  <2> QED BY <1>5, <1>6, UpdateLineType
<1>14. a < s \/ Len(new) = e - s + 1
  OBVIOUS
<1>15. ASSUME NEW n \in Nat, n < s \/ n > e, n # a PROVE Sh(n) # a
  <2> DEFINE count == Len(new)
  <2>1. count \in Nat /\ (a < s \/ count = e - s + 1) /\ a \in Nat
    BY <1>1, <1>2, <1>14
  <2> HIDE DEF count, a
  <2>2. ShiftWord(n, e + 1, count - (e - s + 1)) # a
    BY <1>15, <2>1 DEF ShiftWord
  <2> QED BY <2>2 DEF count
<1>16. Sh(h) + 2 = a <=> q = r
  <2>1. h + 2 = a <=> q = r
    <3>1. HeaderLine(c, r) = h <=> q = r
      <4>1. HeaderLine(c, r) = h => q = r
        <5>1. LineAt(c, HeaderLine(c, r) + 1) = IndexLine(r)
          BY TheIndexed
        <5>2. LineAt(c, h + 1) = IndexLine(q)
          BY <1>3, TheIndexed
        <5> QED BY <5>1, <5>2 DEF IndexLine
      <4> QED BY <4>1
    <3>2. HeaderLine(c, r) \in Nat
      BY HeaderLineType
    <3> HIDE DEF h
    <3> QED BY <1>3, <3>1, <3>2 DEF AsciiLine
  <2>2. h + 2 \in Nat /\ (h + 2 < s \/ h + 2 > e)
    BY <1>3
  <2>3. h + 2 # a => Sh(h + 2) # a
    <3> HIDE DEF h, a
    <3> QED BY <1>15, <2>2
  <2>4. h + 2 = a => Sh(h + 2) = a
    <3> HIDE DEF h, a
    <3> QED BY <1>1, <1>2, <1>14, <2>2 DEF ShiftWord
  <2> QED BY <1>9, <2>1, <2>3, <2>4
<1>17. ASSUME q = r PROVE zs[y] = ZoneAt(d, q, y)
  <2>1. y # z
    BY <1>17
  <2>2. zs[y] = p
    <3>1. zs[y] = ZonesIn(LineAt(c, a))[y]
      <4>1. ZonesIn(LineAt(c, a)) \in Zones
        BY <1>2, ZonesThereType
      <4> QED BY <2>1, <4>1 DEF Zones
    <3> QED BY <1>17, <3>1 DEF ZoneAt
  <2>3. delta = 0 \/ (p.start < e + 1 /\ p.end < e + 1)
    <3> HIDE DEF p
    <3>1. Len(new) # e - s + 1 => p.start <= e
      BY <1>3, <1>17 DEF p
    <3>2. CASE Len(new) = e - s + 1
      BY <1>1, <3>2
    <3>3. CASE p.start <= e
      BY <1>3, <3>3
    <3> QED BY <3>1, <3>2, <3>3
  <2>4. ShiftPair(p, e + 1, delta) = p
    <3> HIDE DEF p, delta
    <3>1. ShiftWord(p.start, e + 1, delta) = p.start /\ ShiftWord(p.end, e + 1, delta) = p.end
      BY <1>3, <2>3 DEF ShiftWord
    <3> QED BY <1>3, <3>1 DEF ShiftPair, ZonePair
  <2> QED BY <1>4, <2>2, <2>4
<1>18. ASSUME NEW i \in 0 .. p.end - p.start PROVE ZoneAt(d, q, y).start + i # a
  <2>1. p.start + i # a
    <3>1. HeaderLine(c, r) \in Headers(c) /\ HeaderLine(c, r) \in Nat
      BY TheIndexed
    <3>2. HeaderLine(c, r) + 6 < p.start \/ HeaderLine(c, r) > p.end
      BY <1>3, <3>1 DEF RecordsApart
    <3> HIDE DEF p
    <3> QED BY <1>3, <3>1, <3>2, SMTT(30) DEF AsciiLine
  <2>2. p.start + i \in Nat /\ (p.start + i < s \/ p.start + i > e)
        /\ ZoneAt(d, q, y).start + i = Sh(p.start + i)
    BY <1>4
  <2> HIDE DEF p, a, d
  <2> QED BY <1>15, <2>1, <2>2
<1> HIDE DEF d, Sh, out, zs, delta
<1>19. Reads(out, q, y) = Reads(d, q, y)
  <2>1. \A n \in Int : \/ LineAt(out, n) = LineAt(d, n)
                       \/ LineAt(out, n).kind \notin {"marker", "index"}
    BY <1>12 DEF HexLine
  <2>2. LineAt(out, Sh(h)) = LineAt(d, Sh(h)) /\ LineAt(out, Sh(h) + 1) = LineAt(d, Sh(h) + 1)
    <3>1. Sh(h) # a /\ Sh(h) + 1 # a
      BY <1>8, <1>11 DEF Marker, IndexLine
    <3> HIDE DEF a
    <3> QED BY <1>9, <1>12, <3>1
  <2>3. ZonesIn(LineAt(out, Sh(h) + 2))[y] = ZonesIn(LineAt(d, Sh(h) + 2))[y]
    <3>1. CASE q = r
      <4>1. LineAt(out, Sh(h) + 2) = HexLine(zs)
        BY <1>9, <1>12, <1>16, <3>1
      <4>2. ZonesIn(HexLine(zs)) = zs
        BY DEF ZonesIn, HexLine
      <4>3. ZonesIn(LineAt(d, Sh(h) + 2))[y] = ZoneAt(d, q, y)
        BY <1>10 DEF ZoneAt
      <4> QED BY <1>17, <3>1, <4>1, <4>2, <4>3
    <3>2. CASE q # r
      <4>1. Sh(h) + 2 # a /\ Sh(h) + 2 \in Int
        BY <1>9, <1>16, <3>2
      <4> QED BY <1>12, <4>1
    <3> QED BY <3>1, <3>2
  <2>4. ASSUME NEW n \in ZoneAt(d, q, y).start .. ZoneAt(d, q, y).end
        PROVE  LineAt(out, n) = LineAt(d, n)
    <3> DEFINE b == ZoneAt(d, q, y).start
    <3>1. b \in Nat /\ n \in b .. b + (p.end - p.start)
      BY <1>4
    <3> HIDE DEF b, p
    <3>2. n - b \in 0 .. p.end - p.start /\ b + (n - b) = n /\ n \in Int
      BY <1>3, <3>1
    <3>3. n # a
      BY <1>18, <3>2 DEF b
    <3> QED BY <1>12, <3>2, <3>3
  <2>5. ZoneAt(d, q, y).end \in Nat
    <3> HIDE DEF p
    <3> QED BY <1>3, <1>4
  <2> HIDE DEF a, p, h
  <2> QED BY <1>4, <1>5, <1>9, <1>13, <2>1, <2>2, <2>3, <2>4, <2>5, OtherLinesWritten, SMTT(30)
<1>20. Reads(d, q, y) = Reads(c, q, y)
  <2>1. h + 2 < s \/ h > e
    BY <1>3
  <2> QED BY <1>3, <2>1, SpliceKeepsPeers DEF d
<1> QED BY <1>7, <1>19, <1>20

\* hex-replace: no zone but those it was aimed at takes the lines s..e for its own
\* once it is shifted, so none of the others is given the new extent.
LEMMA HexReplacedKeepsPeers ==
  ASSUME NEW c \in Content, Loadable(c),
         NEW s \in Nat, NEW e \in Nat, NEW new \in Seq(Prose), new # << >>,
         CanHexReplace(c, s, e, new), HexWordsStay(c, s, e, new),
         NEW q \in Rec, NEW y \in ZoneIdx, Apart(c, q, y, s, e)
  PROVE  Reads(HexReplaced(c, s, e, new), q, y) = Reads(c, q, y)
<1> DEFINE d     == SpliceAndShift(c, s, e, new)
           delta == Len(new) - (e - s + 1)
           Sh(n) == ShiftWord(n, e + 1, delta)
           p     == ZoneAt(c, q, y)
           h     == HeaderLine(c, q)
           here  == [start |-> s, end |-> e]
           exact == {a \in 0 .. Len(Lines(d)) - 1 :
                       /\ a - 2 \in Headers(d)
                       /\ \E z \in ZoneIdx : ZoneHere(d, a, z) = here}
           resized(zs) == [z \in ZoneIdx |-> IF zs[z] = here THEN Extent(s, Len(new)) ELSE zs[z]]
           lines == [a \in exact |-> HexLine(resized(ZonesIn(LineAt(d, a))))]
           out   == HexReplaced(c, s, e, new)
<1>1. new \in Seq(Line) /\ Len(new) \in Nat /\ Len(new) # 0 /\ s <= e
  BY ProseSeq, LenProperties, EmptySeq DEF CanHexReplace
<1>2. d \in Content /\ Len(Lines(d)) \in Nat
  <2>1. d \in Content
    BY <1>1, SpliceAndShiftType
  <2> HIDE DEF d
  <2> QED BY <2>1, LinesType
<1>3. /\ h \in Nat /\ (h + 6 < s \/ h > e)
      /\ p # NoZone /\ p \in ZonePair /\ p.start \in Nat /\ p.end \in Nat
      /\ p.start <= p.end /\ p.end < Len(Lines(c)) /\ (p.end < s \/ p.start > e)
      /\ RecordsApart(c, p.start, p.end) /\ HasRec(c, q)
      /\ ~ Meets(p.start, p.end, s, e)
  BY ApartFacts
<1>4. /\ HeadersOf(d, q) = {Sh(h)}
      /\ LineAt(d, AsciiLine(d, q)).kind = "hex"
      /\ ZoneAt(d, q, y) = ShiftPair(p, e + 1, delta)
      /\ ZoneAt(d, q, y) # NoZone
      /\ ZoneAt(d, q, y).start \in Nat
      /\ ZoneAt(d, q, y).end = ZoneAt(d, q, y).start + (p.end - p.start)
      /\ \A i \in 0 .. p.end - p.start :
            /\ p.start + i \in Nat /\ (p.start + i < s \/ p.start + i > e)
            /\ ZoneAt(d, q, y).start + i = Sh(p.start + i)
            /\ LineAt(d, ZoneAt(d, q, y).start + i) = LineAt(c, p.start + i)
  <2>1. h + 2 < s \/ h > e
    BY <1>3
  <2> QED BY <1>1, <1>3, <2>1, PeerFollows, ProseIsTame, LoadableIsIndexed
<1>5. Sh(h) \in Nat
  <2>1. h < s \/ h > e
    BY <1>3
  <2> HIDE DEF h
  <2> QED BY <1>1, <1>3, <2>1 DEF ShiftWord
<1>6. ASSUME NEW a \in exact
      PROVE  /\ a \in Nat /\ a - 2 \in Headers(d) /\ a < Len(Lines(d))
             /\ IsHexWords(LineAt(d, a)) /\ lines[a] \in Line /\ lines[a].kind = "hex"
  <2>1. a \in Nat /\ a - 2 \in Headers(d) /\ (a - 2) + 2 = a /\ a < Len(Lines(d))
    BY <1>2
  <2>2. IsHexWords(LineAt(d, a))
    BY <2>1 DEF CanHexReplace
  <2>3. ZonesIn(LineAt(d, a)) \in Zones
    BY <1>2, <2>1, <2>2, ZonesThereType
  <2>4. Extent(s, Len(new)) \in ZonePair
    BY <1>1, ExtentType
  <2>5. resized(ZonesIn(LineAt(d, a))) \in Zones
    BY <2>3, <2>4 DEF Zones
  <2>6. lines[a] = HexLine(resized(ZonesIn(LineAt(d, a))))
    OBVIOUS
  <2> HIDE DEF lines, resized, exact, d
  <2> QED BY <2>1, <2>2, <2>5, <2>6, HexLineType DEF HexLine
<1>7. out = IF exact = {} THEN d ELSE UpdateLines(d, exact, lines)
  BY DEF HexReplaced
<1>8. out \in Content /\ \A n \in Int : LineAt(out, n) = IF n \in exact THEN lines[n] ELSE LineAt(d, n)
  <2> HIDE DEF d, lines, exact
  <2>1. CASE exact = {}
    BY <1>2, <1>7, <2>1
  <2>2. CASE exact # {}
    <3>1. out = UpdateLines(d, exact, lines)
      BY <1>7, <2>2
    <3> HIDE DEF out
    <3>2. out \in Content
      BY <1>2, <1>6, <3>1, UpdateLinesType
    <3>3. ASSUME NEW n \in Int PROVE LineAt(out, n) = IF n \in exact THEN lines[n] ELSE LineAt(d, n)
      <4>1. LineAt(out, n) = IF n \in exact /\ n \in 0 .. Len(Lines(d)) - 1
                             THEN lines[n] ELSE LineAt(d, n)
        BY <1>2, <1>6, <3>1, UpdateLinesReads
      <4>2. n \in exact => n \in 0 .. Len(Lines(d)) - 1
        BY <1>2, <1>6
      <4> QED BY <4>1, <4>2
    <3> QED BY <3>2, <3>3
  <2> QED BY <2>1, <2>2
<1>9. HeaderLine(d, q) = Sh(h) /\ AsciiLine(d, q) = Sh(h) + 2 /\ HasRec(d, q)
      /\ LineAt(d, Sh(h)) = Marker /\ LineAt(d, Sh(h) + 1) = IndexLine(q)
  <2> HIDE DEF d, Sh
  <2>1. Sh(h) \in Headers(d) /\ LineAt(d, Sh(h) + 1) = IndexLine(q)
    BY <1>4 DEF HeadersOf
  <2> QED BY <1>2, <1>4, <2>1, HeaderInLines DEF HasRec, HeaderLine, AsciiLine
<1>10. ZoneAt(d, q, y) # here
  <2> HIDE DEF p, delta
  <2>1. ShiftWord(p.end, e + 1, delta) # e \/ ShiftWord(p.start, e + 1, delta) # s
    <3>1. CASE p.end < s
      BY <1>1, <1>3, <3>1 DEF ShiftWord
    <3>2. CASE p.start > e
      BY <1>1, <1>3, <3>2 DEF ShiftWord, delta
    <3> QED BY <1>3, <3>1, <3>2
  <2> QED BY <1>4, <2>1 DEF ShiftPair
<1>11. ASSUME NEW i \in 0 .. p.end - p.start PROVE ZoneAt(d, q, y).start + i \notin exact
  <2> DEFINE n == p.start + i
  <2>1. n \in Nat /\ (n < s \/ n > e) /\ ZoneAt(d, q, y).start + i = Sh(n)
    BY <1>4
  <2>2. SUFFICES ASSUME Sh(n) \in exact PROVE FALSE
    BY <2>1
  <2>3. Sh(n) - 2 \in Headers(d)
    BY <1>6, <2>2
  <2>4. Headers(d) = {Sh(g) : g \in Spared(c, s, e)}
    <3>1. Unmarked(new)
      BY ProseIsTame
    <3> QED BY <1>1, <3>1, EditKeepsHeaders, SpliceMarkers
  <2>5. PICK g \in Spared(c, s, e) : Sh(n) - 2 = Sh(g)
    <3> HIDE DEF d, Sh
    <3> QED BY <2>3, <2>4
  <2>6. g \in Headers(c) /\ g \in Nat /\ (g < s \/ g > e) /\ (Len(new) = e - s + 1 \/ (g < s => g + 2 < s))
    BY HeaderInLines DEF Spared, HexWordsStay
  <2>7. n - 2 = g
    <3> DEFINE count == Len(new)
    <3>1. count \in Nat /\ (count = e - s + 1 \/ (g < s => g + 2 < s))
          /\ ShiftWord(n, e + 1, count - (e - s + 1)) - 2 = ShiftWord(g, e + 1, count - (e - s + 1))
      BY <1>1, <2>5, <2>6
    <3> HIDE DEF count, n
    <3> QED BY <1>1, <2>1, <2>6, <3>1 DEF ShiftWord
  <2>8. g + 6 < p.start \/ g > p.end
    BY <1>3, <2>6 DEF RecordsApart
  <2> HIDE DEF p
  <2> QED BY <1>3, <2>6, <2>7, <2>8
<1>12. ZonesIn(LineAt(out, Sh(h) + 2))[y] = ZonesIn(LineAt(d, Sh(h) + 2))[y]
  <2>1. ZonesIn(LineAt(d, Sh(h) + 2))[y] = ZoneAt(d, q, y)
    BY <1>9 DEF ZoneAt
  <2>2. CASE Sh(h) + 2 \in exact
    <3>1. LineAt(out, Sh(h) + 2) = HexLine(resized(ZonesIn(LineAt(d, Sh(h) + 2))))
      <4>1. lines[Sh(h) + 2] = HexLine(resized(ZonesIn(LineAt(d, Sh(h) + 2))))
        BY <2>2
      <4> HIDE DEF exact, lines, d, Sh
      <4> QED BY <1>5, <1>8, <2>2, <4>1
    <3>2. ZonesIn(HexLine(resized(ZonesIn(LineAt(d, Sh(h) + 2))))) = resized(ZonesIn(LineAt(d, Sh(h) + 2)))
      BY DEF ZonesIn, HexLine
    <3>3. resized(ZonesIn(LineAt(d, Sh(h) + 2)))[y] = ZonesIn(LineAt(d, Sh(h) + 2))[y]
      BY <1>10, <2>1
    <3> HIDE DEF resized, out, d, Sh
    <3> QED BY <3>1, <3>2, <3>3
  <2>3. CASE Sh(h) + 2 \notin exact
    <3> HIDE DEF exact, lines, d, Sh, out
    <3> QED BY <1>5, <1>8, <2>3
  <2> QED BY <2>2, <2>3
<1>13. Reads(out, q, y) = Reads(d, q, y)
  <2> HIDE DEF d, Sh, out, lines, exact, p, h
  <2>1. \A n \in Int : \/ LineAt(out, n) = LineAt(d, n)
                       \/ LineAt(out, n).kind \notin {"marker", "index"}
    <3> TAKE n \in Int
    <3>1. n \in exact => lines[n].kind \notin {"marker", "index"}
      BY <1>6
    <3> QED BY <1>8, <3>1
  <2>2. LineAt(out, Sh(h)) = LineAt(d, Sh(h)) /\ LineAt(out, Sh(h) + 1) = LineAt(d, Sh(h) + 1)
    <3>1. Sh(h) \notin exact /\ Sh(h) + 1 \notin exact
      BY <1>6, <1>9 DEF Marker, IndexLine, IsHexWords
    <3> QED BY <1>5, <1>8, <3>1
  <2>3. ASSUME NEW n \in ZoneAt(d, q, y).start .. ZoneAt(d, q, y).end
        PROVE  LineAt(out, n) = LineAt(d, n)
    <3> DEFINE b == ZoneAt(d, q, y).start
    <3>1. b \in Nat /\ n \in b .. b + (p.end - p.start)
      BY <1>4
    <3> HIDE DEF b
    <3>2. n - b \in 0 .. p.end - p.start /\ b + (n - b) = n /\ n \in Int
      BY <1>3, <3>1
    <3>3. n \notin exact
      BY <1>11, <3>2 DEF b
    <3> QED BY <1>8, <3>2, <3>3
  <2>4. ZoneAt(d, q, y).end \in Nat
    BY <1>3, <1>4, SMTT(30)
  <2> QED BY <1>2, <1>4, <1>5, <1>8, <1>12, <2>1, <2>2, <2>3, <2>4, OtherLinesWritten
<1>14. Reads(d, q, y) = Reads(c, q, y)
  <2>1. h + 2 < s \/ h > e
    BY <1>3
  <2> QED BY <1>1, <1>3, <2>1, SpliceKeepsPeers, ProseIsTame, LoadableIsIndexed DEF d
<1> QED BY <1>13, <1>14

\* The Store writes the six lines of a record that it has parsed: its index line
\* and whatever has not been changed are as they were.
LEMMA RecordWrittenReads ==
  ASSUME NEW c \in Content, NEW r \in Rec, CanWriteRecord(c, r), NEW zs \in Zones,
         NEW num \in Line, NEW strings \in [1 .. 3 -> Seq(Line)],
         \A i \in 1 .. 3 : Len(strings[i]) = 1, NEW n \in Int
  PROVE  LET h == HeaderLine(c, r)
         IN  LineAt(RecordWritten(c, r, zs, num, strings), n) =
               IF n = h + 2 THEN HexLine(zs)
               ELSE IF n = h + 3 THEN num
               ELSE IF n \in h + 4 .. h + 6 THEN strings[n - (h + 3)][1]
               ELSE LineAt(c, n)
<1> DEFINE h   == HeaderLine(c, r)
           new == << IndexLine(r), HexLine(zs), num >>
                    \o strings[1] \o strings[2] \o strings[3]
<1>1. h \in Nat /\ h + 6 < Len(Lines(c)) /\ LineAt(c, h + 1) = IndexLine(r)
  BY TheRecord DEF CanWriteRecord, Readable, String3Line
<1>2. /\ new \in Seq(Line) /\ Len(new) = 6
      /\ new[1] = IndexLine(r) /\ new[2] = HexLine(zs) /\ new[3] = num
      /\ \A i \in 1 .. 3 : new[3 + i] = strings[i][1]
  <2>1. IndexLine(r) \in Line /\ HexLine(zs) \in Line
    BY HexLineType DEF IndexLine, Line
  <2> QED BY <2>1, SixLines
<1>3. RecordWritten(c, r, zs, num, strings) = Splice(c, h + 1, h + 6, new)
  BY DEF RecordWritten
<1> HIDE DEF new, h
<1>4. LineAt(Splice(c, h + 1, h + 6, new), n) =
        IF n \in h + 1 .. h + 6 THEN new[n - h] ELSE LineAt(c, n)
  BY <1>1, <1>2, RecordLinesReplaced
<1>5. CASE n \in h + 4 .. h + 6
  <2>1. n - (h + 3) \in 1 .. 3 /\ 3 + (n - (h + 3)) = n - h /\ n \in h + 1 .. h + 6
        /\ n # h + 2 /\ n # h + 3
    BY <1>1, <1>5
  <2>2. new[n - h] = strings[n - (h + 3)][1]
    BY <1>2, <2>1
  <2> QED BY <1>3, <1>4, <1>5, <2>1, <2>2 DEF h
<1>6. CASE n \notin h + 4 .. h + 6
  <2>1. n \in h + 1 .. h + 6 <=> n = h + 1 \/ n = h + 2 \/ n = h + 3
    BY <1>1, <1>6
  <2>2. (h + 1) - h = 1 /\ (h + 2) - h = 2 /\ (h + 3) - h = 3 /\ h + 1 # h + 2 /\ h + 1 # h + 3
        /\ h + 2 # h + 3
    BY <1>1
  <2> QED BY <1>1, <1>2, <1>3, <1>4, <1>6, <2>1, <2>2 DEF h
<1> QED BY <1>5, <1>6

\* set-zone, set-num and set-str: no line delta is applied and none is needed.
LEMMA RecordWrittenKeepsPeers ==
  ASSUME NEW c \in Content, NEW r \in Rec, CanWriteRecord(c, r), NEW zs \in Zones,
         NEW num \in Line, num.kind = "num", NEW strings \in [1 .. 3 -> Seq(Line)],
         \A i \in 1 .. 3 : Len(strings[i]) = 1,
         NEW s \in Int, NEW e \in Int,
         \A i \in 1 .. 3 :
           \/ strings[i][1] = LineAt(c, HeaderLine(c, r) + 3 + i)
           \/ strings[i][1] \in Prose /\ HeaderLine(c, r) + 3 + i \in s .. e,
         NEW q \in Rec, NEW y \in ZoneIdx, Apart(c, q, y, s, e),
         q = r => zs[y] = ZoneAt(c, q, y)
  PROVE  Reads(RecordWritten(c, r, zs, num, strings), q, y) = Reads(c, q, y)
<1> DEFINE d == RecordWritten(c, r, zs, num, strings)
           p == ZoneAt(c, q, y)
           h == HeaderLine(c, r)
           g == HeaderLine(c, q)
<1>1. /\ Loadable(c) /\ HasRec(c, r)
      /\ IsHexWords(LineAt(c, h + 2)) /\ LineAt(c, h + 3).kind = "num"
  <2>1. (h + 2) + 1 = h + 3
    BY HeaderLineType DEF CanWriteRecord, Readable
  <2> QED BY <2>1 DEF CanWriteRecord, Readable, AsciiLine
<1>2. /\ g \in Nat /\ (g + 6 < s \/ g > e)
      /\ p # NoZone /\ p.start \in Nat /\ p.end \in Nat
      /\ RecordsApart(c, p.start, p.end) /\ HasRec(c, q)
  BY <1>1, ApartFacts
<1>3. h \in Nat /\ h \in Headers(c) /\ (h = g => q = r)
  <2>1. h \in Nat /\ h \in Headers(c) /\ LineAt(c, h + 1) = IndexLine(r) /\ LineAt(c, g + 1) = IndexLine(q)
    BY <1>1, <1>2, TheRecord
  <2> QED BY <2>1 DEF IndexLine
<1>4. HeadersOf(c, q) = {g} /\ LineAt(c, g) = Marker /\ LineAt(c, g + 1) = IndexLine(q)
      /\ LineAt(c, g + 2).kind = "hex"
  <2>1. /\ g \in Headers(c)
        /\ \A m \in Headers(c) : LineAt(c, m + 1) = IndexLine(q) <=> m = g
    BY <1>1, <1>2, TheRecord
  <2>2. LineAt(c, g + 2).kind = "hex"
    BY <1>2, ZoneAtType DEF AsciiLine
  <2> QED BY <2>1, <2>2, HeaderInLines DEF HeadersOf
<1>5. d \in Content
  BY RecordWrittenType
<1>6. \A n \in Int : LineAt(d, n) = IF n = h + 2 THEN HexLine(zs)
                                    ELSE IF n = h + 3 THEN num
                                    ELSE IF n \in h + 4 .. h + 6 THEN strings[n - (h + 3)][1]
                                    ELSE LineAt(c, n)
  BY RecordWrittenReads
<1> HIDE DEF d, h, g
<1>7. ASSUME NEW n \in Int
      PROVE  \/ n = h + 2 /\ LineAt(d, n) = HexLine(zs)
             \/ n = h + 3 /\ LineAt(d, n) = num
             \/ n \in h + 4 .. h + 6 /\ n \in s .. e /\ LineAt(d, n) \in Prose
             \/ LineAt(d, n) = LineAt(c, n)
  <2>1. CASE n \in h + 4 .. h + 6
    <3>1. n # h + 2 /\ n # h + 3 /\ n - (h + 3) \in 1 .. 3 /\ (h + 3) + (n - (h + 3)) = n
      BY <1>3, <2>1
    <3>2. LineAt(d, n) = strings[n - (h + 3)][1]
      BY <1>6, <2>1, <3>1
    <3>3. \/ strings[n - (h + 3)][1] = LineAt(c, (h + 3) + (n - (h + 3)))
          \/ strings[n - (h + 3)][1] \in Prose /\ (h + 3) + (n - (h + 3)) \in s .. e
      BY <3>1 DEF h
    <3> QED BY <2>1, <3>1, <3>2, <3>3
  <2>2. CASE n \notin h + 4 .. h + 6
    BY <1>6, <2>2
  <2> QED BY <2>1, <2>2
<1>8. \A n \in Int : \/ LineAt(d, n) = LineAt(c, n)
                     \/ LineAt(d, n).kind \notin {"marker", "index"}
  <2> TAKE n \in Int
  <2>1. HexLine(zs).kind = "hex" /\ \A l \in Prose : l.kind \notin {"marker", "index"}
    BY DEF HexLine, Prose, Blank
  <2> QED BY <1>7, <2>1
<1>9. g \notin s .. e /\ g + 1 \notin s .. e /\ g + 2 \notin s .. e
  BY <1>2
<1>10. LineAt(d, g) = LineAt(c, g) /\ LineAt(d, g + 1) = LineAt(c, g + 1)
  <2>1. /\ g # h + 2 /\ g # h + 3 /\ g + 1 # h + 2 /\ g + 1 # h + 3
    BY <1>1, <1>4 DEF IsHexWords, Marker, IndexLine
  <2>2. g \in Int /\ g + 1 \in Int
    BY <1>2
  <2> QED BY <1>7, <1>9, <2>1, <2>2
<1>11. ZonesIn(LineAt(d, g + 2))[y] = ZonesIn(LineAt(c, g + 2))[y]
  <2>0. ZonesIn(LineAt(c, g + 2))[y] = p /\ g + 2 \in Int
    BY <1>2 DEF ZoneAt, AsciiLine, g
  <2>1. CASE g + 2 = h + 2
    <3>1. q = r
      BY <1>2, <1>3, <2>1
    <3>2. LineAt(d, g + 2) = HexLine(zs)
      BY <1>6, <2>0, <2>1
    <3>3. ZonesIn(HexLine(zs)) = zs
      BY DEF ZonesIn, HexLine
    <3> HIDE DEF p
    <3> QED BY <2>0, <3>1, <3>2, <3>3 DEF p
  <2>2. CASE g + 2 # h + 2
    <3>1. g + 2 # h + 3
      BY <1>1, <1>4
    <3>2. LineAt(d, g + 2) = LineAt(c, g + 2)
      BY <1>7, <1>9, <2>0, <2>2, <3>1
    <3> QED BY <3>2
  <2> QED BY <2>1, <2>2
<1>12. ASSUME NEW n \in p.start .. p.end PROVE LineAt(d, n) = LineAt(c, n)
  <2> HIDE DEF p
  <2>1. h + 6 < p.start \/ h > p.end
    BY <1>2, <1>3 DEF RecordsApart
  <2>2. n \in Int /\ n # h + 2 /\ n # h + 3 /\ n \notin h + 4 .. h + 6
    BY <1>2, <1>3, <2>1
  <2> QED BY <1>6, <2>2
<1>13. Reads(d, q, y) = Reads(c, q, y)
  BY <1>2, <1>4, <1>5, <1>8, <1>10, <1>11, <1>12, OtherLinesWritten
<1> QED BY <1>13 DEF d

\* add: the new record stands below everything, and its registry index is new.
LEMMA AddedKeepsPeers ==
  ASSUME NEW c \in Content, Loadable(c), NEW r \in Rec, ~ HasRec(c, r),
         NEW rec \in Seq(Line), Len(rec) = 8, rec[1] = Marker, rec[2] = IndexLine(r),
         \A i \in 2 .. 8 : rec[i] # Marker,
         NEW s \in Int, NEW e \in Int,
         NEW q \in Rec, NEW y \in ZoneIdx, Apart(c, q, y, s, e)
  PROVE  Reads(c \o rec, q, y) = Reads(c, q, y)
<1> DEFINE d == c \o rec
           p == ZoneAt(c, q, y)
           g == HeaderLine(c, q)
<1>1. c \in Seq(Line) /\ Len(c) \in Nat
  BY LenProperties DEF Content
<1>2. /\ d \in Seq(Line) /\ Len(d) = Len(c) + 8
      /\ \A i \in 1 .. Len(c) + 8 : d[i] = IF i <= Len(c) THEN c[i] ELSE rec[i - Len(c)]
  <2>1. /\ d \in Seq(Line) /\ Len(d) = Len(c) + Len(rec)
        /\ \A i \in 1 .. Len(c) + Len(rec) : d[i] = IF i <= Len(c) THEN c[i] ELSE rec[i - Len(c)]
    BY <1>1, ConcatProperties
  <2> HIDE DEF d
  <2> QED BY <2>1
<1>3. \A n \in 0 .. Len(c) - 1 : LineAt(d, n) = LineAt(c, n)
  <2> TAKE n \in 0 .. Len(c) - 1
  <2>1. n + 1 \in 1 .. Len(c) + 8 /\ n + 1 <= Len(c) /\ n \in 0 .. Len(d) - 1
    BY <1>1, <1>2
  <2> HIDE DEF d
  <2> QED BY <1>2, <2>1 DEF LineAt
<1>4. \A i \in 1 .. 8 : LineAt(d, Len(c) + (i - 1)) = rec[i]
  <2> TAKE i \in 1 .. 8
  <2>1. /\ Len(c) + (i - 1) \in 0 .. Len(d) - 1 /\ (Len(c) + (i - 1)) + 1 = Len(c) + i
        /\ Len(c) + i \in 1 .. Len(c) + 8 /\ ~ (Len(c) + i <= Len(c)) /\ (Len(c) + i) - Len(c) = i
    BY <1>1, <1>2
  <2> HIDE DEF d
  <2> QED BY <1>2, <2>1 DEF LineAt
<1>5. d \in Content
  <2>1. Len(d) # 0
    BY <1>1, <1>2
  <2> QED BY <1>2, <2>1, EmptySeq DEF Content
<1>6. /\ HasRec(c, q) /\ p # NoZone /\ p.start \in Nat /\ p.end \in Nat
      /\ p.end < Len(Lines(c))
  BY ApartFacts
<1>7. /\ g \in Headers(c) /\ g \in Nat
      /\ \A h \in Headers(c) : /\ h \in Nat /\ h + 6 < Len(c)
                               /\ LineAt(c, h + 1) = IndexLine(q) <=> h = g
  BY <1>6, TheRecord
<1> HIDE DEF d, p, g
<1>8. HasRec(d, q) /\ HeaderLine(d, q) = g
  <2>1. g \in Headers(d) /\ LineAt(d, g + 1) = IndexLine(q)
    <3>1. LineAt(c, g) = Marker /\ g \in 0 .. Len(c) - 1 /\ g + 1 \in 0 .. Len(c) - 1
      BY <1>1, <1>7, HeaderInLines
    <3>2. LineAt(d, g) = Marker /\ g \in Int
      BY <1>3, <3>1
    <3> QED BY <1>3, <1>5, <1>7, <3>1, <3>2, HeadersByReading
  <2>2. ASSUME NEW h \in Headers(d), LineAt(d, h + 1) = IndexLine(q) PROVE h = g
    <3>1. h \in Nat /\ LineAt(d, h) = Marker /\ h <= Len(d) - 1
      BY <1>5, HeaderInLines DEF Headers
    <3>2. CASE h < Len(c)
      <4>1. h \in 0 .. Len(c) - 1
        BY <1>1, <3>1, <3>2
      <4>2. h \in Headers(c)
        BY <1>3, <3>1, <4>1, HeadersByReading
      <4>3. h + 1 \in 0 .. Len(c) - 1
        BY <1>1, <1>7, <4>2
      <4> QED BY <1>3, <1>7, <2>2, <4>2, <4>3
    <3>3. CASE ~ (h < Len(c))
      <4> DEFINE i == h - Len(c) + 1
      <4>1. i \in 1 .. 8 /\ h = Len(c) + (i - 1)
        <5>1. Len(d) = Len(c) + 8
          BY <1>2
        <5>2. h \in Nat /\ h <= (Len(c) + 8) - 1
          BY <3>1, <5>1
        <5> DEFINE len == Len(c)
        <5>3. len \in Nat /\ ~ (h < len) /\ h <= (len + 8) - 1
          BY <1>1, <3>3, <5>2
        <5> HIDE DEF len
        <5>4. h - len + 1 \in 1 .. 8 /\ h = len + ((h - len + 1) - 1)
          BY <5>2, <5>3
        <5> QED BY <5>4 DEF len
      <4> HIDE DEF i
      <4>2. rec[i] = Marker
        BY <1>4, <3>1, <4>1
      <4>3. i = 1
        BY <4>1, <4>2
      <4>4. LineAt(d, Len(c) + (2 - 1)) = IndexLine(r)
        BY <1>4
      <4>5. Len(c) + (2 - 1) = h + 1
        BY <1>1, <4>1, <4>3
      <4>6. r = q
        BY <2>2, <4>4, <4>5 DEF IndexLine
      <4> QED BY <1>6, <4>6
    <3> QED BY <3>2, <3>3
  <2> QED BY <2>1, <2>2, OnlyRecord
<1>9. ZoneAt(d, q, y) = p
  <2>1. g + 2 \in 0 .. Len(c) - 1
    BY <1>1, <1>7
  <2> QED BY <1>3, <1>8, <2>1 DEF ZoneAt, AsciiLine, p, g
<1>10. \A i \in 0 .. p.end - p.start : LineAt(d, p.start + i) = LineAt(c, p.start + i)
  <2> TAKE i \in 0 .. p.end - p.start
  <2>1. p.start + i \in 0 .. Len(c) - 1
    <3>1. Len(Lines(c)) \in Nat /\ Len(Lines(c)) <= Len(c)
      BY <1>1, LinesType
    <3>2. p.end < Len(c)
      BY <1>1, <1>6, <3>1
    <3> DEFINE a == p.start
               b == p.end
    <3>3. a \in Nat /\ b \in Nat /\ b < Len(c) /\ Len(c) \in Nat /\ i \in 0 .. b - a
      BY <1>1, <1>6, <3>2
    <3> HIDE DEF a, b
    <3>4. a + i \in 0 .. Len(c) - 1
      BY ONLY <3>3
    <3> QED BY <3>4 DEF a
  <2> QED BY <1>3, <2>1
<1>11. p.end = p.start + (p.end - p.start)
  BY <1>6
<1> QED BY <1>6, <1>8, <1>9, <1>10, <1>11, ReadsAlike, SMTT(30) DEF d, p

\* One step per command.
LEMMA StepKeepsPeers == TypeOK /\ [Next]_vars => [PeersKept]_vars
<1> SUFFICES ASSUME TypeOK, Next, last'.cmd # "swap", StraightEdit(doc, last'),
                    NEW q \in Rec, NEW y \in ZoneIdx, << q, y >> \notin last'.keys,
                    Apart(doc, q, y, last'.from, last'.to),
                    ~ LaterSibling(doc, last', << q, y >>),
                    ~ LandsOnLineZero(doc, last', << q, y >>)
             PROVE  Reads(doc', q, y) = Reads(doc, q, y)
  BY DEF PeersKept, Key
<1>0. doc \in Content /\ Loadable(doc) /\ Len(doc) \in Nat
  BY LenProperties DEF TypeOK, Content, StraightEdit
<1>1. ASSUME NEW cmd \in ZoneCommands, NEW r \in Rec, NEW z \in ZoneIdx, HasRec(doc, r),
             NEW new, ZoneEdit(cmd, r, z, new)
      PROVE  Reads(doc', q, y) = Reads(doc, q, y)
  <2> DEFINE a == AsciiLine(doc, r)
             p == ZoneHere(doc, a, z)
             s == p.start
             e == p.end
  <2>1. /\ last' = Report(cmd, {<< r, z >>}, s, e, new)
        /\ CanReplace(doc, a, z, new) /\ doc' = Replaced(doc, a, z, new)
    BY <1>1 DEF ZoneEdit, Ran
  <2>2. /\ last'.cmd = cmd /\ last'.keys = {<< r, z >>} /\ last'.from = s /\ last'.to = e
        /\ last'.new = new
    BY <2>1 DEF Report
  <2>3. s \in Nat /\ e \in Nat /\ p = [start |-> s, end |-> e]
    <3>1. a \in Int
      BY <1>0, <1>1, HeaderLineType
    <3>2. p \in [start : Nat, end : Nat]
      BY <1>0, <2>1, <3>1, ZoneHereType DEF CanReplace, ZonePair
    <3> HIDE DEF p
    <3> QED BY <3>2
  <2> HIDE DEF s, e
  <2>4. /\ new \in Seq(Prose) /\ s <= e + 1
        /\ Len(new) # e - s + 1 => AsciiLine(doc, r) < s
        /\ Len(new) # e - s + 1 => \A h \in Headers(doc) : h < s => h + 2 < s
    BY <2>2 DEF StraightEdit, Resizes
  <2>5. HexWordsStay(doc, s, e, new)
    BY <2>4 DEF HexWordsStay
  <2>6. << q, y >> # << r, z >> /\ Apart(doc, q, y, s, e)
    BY <2>2
  <2>7. ~ (q = r /\ Len(new) # e - s + 1 /\ ZoneAt(doc, q, y).start > e)
    BY <2>2 DEF LaterSibling, Resizes
  <2>8. ~ (s = 0 /\ new = << >> /\ ZoneAt(doc, q, y) = [start |-> e + 1, end |-> e + 1])
    BY <2>2 DEF LandsOnLineZero
  <2> HIDE DEF p
  <2>9. Reads(Replaced(doc, AsciiLine(doc, r), z, new), q, y) = Reads(doc, q, y)
    <3>1. new \in Seq(Line) /\ Tame(doc, s, e, new)
      BY <2>4, ProseSeq, ProseIsTame
    <3>2. Clear(doc, q, y, s, e)
      BY <1>0, <2>3, <2>6, ApartIsClear
    <3> QED BY <1>0, <1>1, <2>1, <2>3, <2>4, <2>5, <2>6, <2>7, <2>8, <3>1, <3>2,
               ReplacedKeepsPeers, LoadableIsIndexed DEF p
  <2> QED BY <2>1, <2>9
<1>2. ASSUME NEW r \in Rec, NEW z \in ZoneIdx, NEW new \in Inputs,
             ZoneReplace(r, z, new) \/ ZoneAppend(r, z, new)
      PROVE  Reads(doc', q, y) = Reads(doc, q, y)
  <2>1. "zone-replace" \in ZoneCommands /\ "zone-append" \in ZoneCommands
    BY DEF ZoneCommands
  <2> QED BY <1>1, <1>2, <2>1 DEF ZoneReplace, ZoneAppend
<1>3. ASSUME NEW r \in Rec, NEW p \in Rec, NEW z \in ZoneIdx, NEW x \in ZoneIdx, ZoneCopy(r, z, p, x)
      PROVE  Reads(doc', q, y) = Reads(doc, q, y)
  <2>1. "zone-copy" \in ZoneCommands
    BY DEF ZoneCommands
  <2> QED BY <1>1, <1>3, <2>1 DEF ZoneCopy
<1>4. ASSUME NEW r \in Rec, NEW p \in Rec, NEW z \in ZoneIdx, NEW x \in ZoneIdx, ZoneSwap(r, z, p, x)
      PROVE  Reads(doc', q, y) = Reads(doc, q, y)
  <2>1. last'.cmd = "swap"
    BY <1>4 DEF ZoneSwap, Ran, Report
  <2> QED BY <2>1
<1>5. ASSUME NEW p \in Ranges, NEW new \in Inputs, HexReplace(p.start, p.end, new)
      PROVE  Reads(doc', q, y) = Reads(doc, q, y)
  <2> DEFINE s == p.start
             e == p.end
             keys == {k \in Key : HasRec(doc, k[1]) /\ ZoneAt(doc, k[1], k[2]) = [start |-> s, end |-> e]}
  <2>1. s \in Nat /\ e \in Nat
    BY EditorAssumption DEF ZonePair
  <2>2. /\ last' = Report("hex-replace", keys, s, e, new)
        /\ CanHexReplace(doc, s, e, new) /\ doc' = HexReplaced(doc, s, e, new)
    BY <1>5 DEF HexReplace, Ran
  <2> HIDE DEF s, e, keys
  <2>3. last'.cmd = "hex-replace" /\ last'.from = s /\ last'.to = e /\ last'.new = new
    BY <2>2 DEF Report
  <2>4. new \in Seq(Prose) /\ new # << >>
        /\ (Len(new) # e - s + 1 => \A h \in Headers(doc) : h < s => h + 2 < s)
    BY <2>3 DEF StraightEdit, Resizes
  <2>5. HexWordsStay(doc, s, e, new)
    BY <2>4 DEF HexWordsStay
  <2>6. Apart(doc, q, y, s, e)
    BY <2>3
  <2> QED BY <1>0, <2>1, <2>2, <2>4, <2>5, <2>6, HexReplacedKeepsPeers
<1>6. ASSUME NEW r \in Rec, CanWriteRecord(doc, r)
      PROVE  /\ ZonesIn(LineAt(doc, AsciiLine(doc, r))) \in Zones
             /\ LineAt(doc, AsciiLine(doc, r) + 1) \in Line
             /\ LineAt(doc, AsciiLine(doc, r) + 1).kind = "num"
             /\ StringSlots(doc, r) \in [1 .. 3 -> Seq(Line)]
             /\ \A i \in 1 .. 3 : /\ Len(StringSlots(doc, r)[i]) = 1
                                  /\ StringSlots(doc, r)[i][1] = LineAt(doc, HeaderLine(doc, r) + 3 + i)
  <2>1. HasRec(doc, r) /\ AsciiLine(doc, r) \in Nat /\ HeaderLine(doc, r) \in Nat
    BY <1>0, <1>6, HeaderLineType DEF CanWriteRecord, Readable
  <2>2. \A i \in 1 .. 3 : AsciiLine(doc, r) + 1 + i = HeaderLine(doc, r) + 3 + i
    BY <2>1 DEF AsciiLine
  <2>3. \A i \in 1 .. 3 : StringSlots(doc, r)[i] = << LineAt(doc, HeaderLine(doc, r) + 3 + i) >>
    BY <2>2 DEF StringSlots
  <2>4. \A i \in 1 .. 3 : /\ Len(StringSlots(doc, r)[i]) = 1
                         /\ StringSlots(doc, r)[i][1] = LineAt(doc, HeaderLine(doc, r) + 3 + i)
    BY <2>3, SMTT(30)
  <2>5. ZonesIn(LineAt(doc, AsciiLine(doc, r))) \in Zones
    BY <1>0, <1>6, <2>1, ZonesThereType DEF CanWriteRecord
  <2>6. LineAt(doc, AsciiLine(doc, r) + 1) \in Line /\ LineAt(doc, AsciiLine(doc, r) + 1).kind = "num"
    BY <1>0, <1>6, <2>1, LineAtType DEF CanWriteRecord, Content
  <2> QED BY <1>0, <2>1, <2>4, <2>5, <2>6, StringSlotsType
<1>7. ASSUME NEW r \in Rec, NEW z \in ZoneIdx, NEW p \in Ranges, SetZone(r, z, p)
      PROVE  Reads(doc', q, y) = Reads(doc, q, y)
  <2> DEFINE old == ZonesIn(LineAt(doc, AsciiLine(doc, r)))
             zs  == [old EXCEPT ![z] = p]
             num == LineAt(doc, AsciiLine(doc, r) + 1)
             strings == StringSlots(doc, r)
  <2>1. CanWriteRecord(doc, r) /\ doc' = RecordWritten(doc, r, zs, num, strings)
        /\ last' = Report("set-zone", {<< r, z >>}, Len(doc), Len(doc) - 1, << >>)
    BY <1>7 DEF SetZone, Ran
  <2>2. << q, y >> # << r, z >> /\ Apart(doc, q, y, Len(doc), Len(doc) - 1)
    BY <2>1 DEF Report
  <2>3. zs \in Zones
    BY <1>6, <2>1, EditorAssumption DEF Zones
  <2>4. q = r => zs[y] = ZoneAt(doc, q, y)
    <3>1. old \in Zones
      BY <1>6, <2>1
    <3> QED BY <2>2, <3>1 DEF Zones, ZoneAt
  <2>5. num \in Line /\ num.kind = "num" /\ strings \in [1 .. 3 -> Seq(Line)]
        /\ \A i \in 1 .. 3 : /\ Len(strings[i]) = 1
                             /\ strings[i][1] = LineAt(doc, HeaderLine(doc, r) + 3 + i)
    BY <1>6, <2>1
  <2> HIDE DEF zs, num, strings
  <2>6. Len(doc) \in Int /\ Len(doc) - 1 \in Int
    BY <1>0
  <2> QED BY <1>0, <2>1, <2>2, <2>3, <2>4, <2>5, <2>6, RecordWrittenKeepsPeers
<1>8. ASSUME NEW r \in Rec, NEW v \in Value, SetNumber(r, v)
      PROVE  Reads(doc', q, y) = Reads(doc, q, y)
  <2> DEFINE zs  == ZonesIn(LineAt(doc, AsciiLine(doc, r)))
             strings == StringSlots(doc, r)
  <2>1. CanWriteRecord(doc, r) /\ doc' = RecordWritten(doc, r, zs, NumLine(v), strings)
        /\ last' = Report("set-num", {}, Len(doc), Len(doc) - 1, << >>)
    BY <1>8 DEF SetNumber, Ran
  <2>2. Apart(doc, q, y, Len(doc), Len(doc) - 1)
    BY <2>1 DEF Report
  <2>3. NumLine(v) \in Line /\ NumLine(v).kind = "num"
    BY DEF NumLine, Line
  <2>4. q = r => zs[y] = ZoneAt(doc, q, y)
    BY DEF ZoneAt
  <2>5. zs \in Zones /\ strings \in [1 .. 3 -> Seq(Line)]
        /\ \A i \in 1 .. 3 : /\ Len(strings[i]) = 1
                             /\ strings[i][1] = LineAt(doc, HeaderLine(doc, r) + 3 + i)
    BY <1>6, <2>1
  <2> HIDE DEF zs, strings
  <2>6. Len(doc) \in Int /\ Len(doc) - 1 \in Int
    BY <1>0
  <2> QED BY <1>0, <2>1, <2>2, <2>3, <2>4, <2>5, <2>6, RecordWrittenKeepsPeers
<1>9. ASSUME NEW r \in Rec, NEW slot \in 1 .. 3, NEW text \in SlotInputs, SetString(r, slot, text)
      PROVE  Reads(doc', q, y) = Reads(doc, q, y)
  <2> DEFINE zs  == ZonesIn(LineAt(doc, AsciiLine(doc, r)))
             num == LineAt(doc, AsciiLine(doc, r) + 1)
             at  == AsciiLine(doc, r) + 1 + slot
             old == StringSlots(doc, r)
             strings == [old EXCEPT ![slot] = text]
  <2>1. CanWriteRecord(doc, r) /\ doc' = RecordWritten(doc, r, zs, num, strings)
        /\ last' = Report("set-str", {}, at, at, text)
    BY <1>9 DEF SetString, Ran
  <2>2. Apart(doc, q, y, at, at) /\ text \in Seq(Prose) /\ Len(text) = at - at + 1
    BY <2>1 DEF Report, StraightEdit, Resizes
  <2>3. at \in Nat /\ HeaderLine(doc, r) + 3 + slot = at /\ HeaderLine(doc, r) \in Nat
    BY <1>0, <2>1, HeaderLineType DEF CanWriteRecord, Readable, AsciiLine
  <2>4. q = r => zs[y] = ZoneAt(doc, q, y)
    BY DEF ZoneAt
  <2>5. zs \in Zones /\ num \in Line /\ num.kind = "num" /\ old \in [1 .. 3 -> Seq(Line)]
        /\ \A i \in 1 .. 3 : /\ Len(old[i]) = 1
                             /\ old[i][1] = LineAt(doc, HeaderLine(doc, r) + 3 + i)
    BY <1>6, <2>1
  <2> HIDE DEF zs, num, old, at
  <2>6. Len(text) = 1 /\ text \in Seq(Line) /\ text[1] \in Prose
    <3>1. Len(text) = 1
      BY <2>2, <2>3
    <3>2. 1 \in 1 .. Len(text)
      BY <3>1
    <3> QED BY <2>2, <3>1, <3>2, ProseSeq, ElementOfSeq
  <2>7. strings \in [1 .. 3 -> Seq(Line)] /\ \A i \in 1 .. 3 : Len(strings[i]) = 1
    BY <2>5, <2>6
  <2>8. \A i \in 1 .. 3 : \/ strings[i][1] = LineAt(doc, HeaderLine(doc, r) + 3 + i)
                         \/ (strings[i][1] \in Prose /\ HeaderLine(doc, r) + 3 + i \in at .. at)
    <3> TAKE i \in 1 .. 3
    <3>1. CASE i = slot
      BY <2>3, <2>5, <2>6, <3>1
    <3>2. CASE i # slot
      <4>1. strings[i] = old[i]
        BY <2>5, <3>2
      <4> QED BY <2>5, <4>1
    <3> QED BY <3>1, <3>2
  <2> HIDE DEF strings
  <2>9. at \in Int
    BY <2>3
  <2> QED BY <1>0, <2>1, <2>2, <2>4, <2>5, <2>7, <2>8, <2>9, RecordWrittenKeepsPeers
<1>10. ASSUME NEW r \in Rec, AddIndex(r)
       PROVE  Reads(doc', q, y) = Reads(doc, q, y)
  <2> DEFINE hex == HexLine([z \in ZoneIdx |-> NoZone])
             rec == << Marker, IndexLine(r), hex, NumLine(Zero), Blank, Blank, Blank, Blank >>
  <2>1. ~ HasRec(doc, r) /\ doc' = doc \o rec
        /\ last' = Report("add", {}, Len(doc), Len(doc) - 1, << >>)
    BY <1>10 DEF AddIndex, Ran
  <2>2. Apart(doc, q, y, Len(doc), Len(doc) - 1)
    BY <2>1 DEF Report
  <2>3. hex \in Line
    <3>1. [z \in ZoneIdx |-> NoZone] \in Zones
      BY DEF Zones, NoZone, ZonePair
    <3> QED BY <3>1, HexLineType
  <2>4. Marker \in Line /\ IndexLine(r) \in Line /\ Blank \in Line /\ NumLine(Zero) \in Line
    BY EditorAssumption DEF IndexLine, NumLine, Line
  <2>5. hex # Marker /\ IndexLine(r) # Marker /\ Blank # Marker /\ NumLine(Zero) # Marker
    BY DEF HexLine, IndexLine, Blank, NumLine, Marker
  <2> HIDE DEF hex
  <2>6. rec \in Seq(Line) /\ Len(rec) = 8 /\ rec[1] = Marker /\ rec[2] = IndexLine(r)
    BY <2>3, <2>4
  <2>7. \A i \in 2 .. 8 : rec[i] # Marker
    BY <2>5
  <2> HIDE DEF rec
  <2> DEFINE s == Len(doc)
             e == Len(doc) - 1
  <2>8. s \in Int /\ e \in Int /\ Apart(doc, q, y, s, e)
    BY <1>0, <2>2
  <2> HIDE DEF s, e
  <2>9. Reads(doc \o rec, q, y) = Reads(doc, q, y)
    <3>1. doc \in Content /\ Loadable(doc) /\ ~ HasRec(doc, r)
      BY <1>0, <2>1
    <3> QED BY <2>6, <2>7, <2>8, <3>1, AddedKeepsPeers
  <2> QED BY <2>1, <2>9
<1>11. ASSUME NEW r \in Rec, RemoveIndex(r)
       PROVE  Reads(doc', q, y) = Reads(doc, q, y)
  <2> DEFINE h == HeaderLine(doc, r)
             p == ZoneAt(doc, q, y)
  <2>1. Readable(doc, r) /\ doc' = SpliceAndShift(doc, h, h + 6, << >>)
        /\ last' = Report("rm", {r} \X ZoneIdx, h, h + 6, << >>)
    BY <1>11 DEF RemoveIndex, Ran
  <2>2. h \in Nat /\ h + 6 < Len(Lines(doc))
    BY <1>0, <2>1, HeaderLineType DEF Readable, String3Line
  <2> HIDE DEF h
  <2>3. last'.from = h /\ last'.to = h + 6 /\ last'.new = << >>
    BY <2>1 DEF Report
  <2> DEFINE e   == h + 6
             new == << >>
  <2>4. new \in Seq(Prose) /\ Len(new) = 0 /\ h \in Nat /\ e \in Int /\ e = h + 6
        /\ h <= e + 1 /\ e < Len(Lines(doc))
    BY <2>2
  <2>5. HexWordsStay(doc, h, e, new)
    <3>1. Len(new) # e - h + 1
      BY <2>4
    <3>2. \A g \in Headers(doc) : g < h => g + 2 < h
      BY <2>3, <3>1 DEF StraightEdit, Resizes
    <3> QED BY <3>2 DEF HexWordsStay
  <2>6. Apart(doc, q, y, h, e)
    BY <2>3
  <2>7. ~ (h = 0 /\ new = << >> /\ p = [start |-> e + 1, end |-> e + 1])
    BY <2>3 DEF LandsOnLineZero
  <2> HIDE DEF e, new
  <2>8. /\ HasRec(doc, q) /\ (HeaderLine(doc, q) + 6 < h \/ HeaderLine(doc, q) > e)
        /\ HeaderLine(doc, q) \in Nat
        /\ p # NoZone /\ p.start <= p.end /\ ~ Meets(p.start, p.end, h, e)
        /\ RecordsApart(doc, p.start, p.end)
    BY <1>0, <2>4, <2>6, ApartFacts
  <2> HIDE DEF p
  <2>9. HeaderLine(doc, q) + 2 < h \/ HeaderLine(doc, q) > e
    BY <2>4, <2>8
  <2>10. Reads(SpliceAndShift(doc, h, e, new), q, y) = Reads(doc, q, y)
    <3>1. /\ new \in Seq(Prose) /\ h \in Nat /\ e \in Int /\ h <= e + 1
          /\ ZoneAt(doc, q, y).end < Len(Lines(doc)) \/ e < Len(Lines(doc))
      BY <2>4
    <3> QED BY <1>0, <2>5, <2>7, <2>8, <2>9, <3>1, SpliceKeepsPeers, ProseIsTame, LoadableIsIndexed
            DEF p
  <2> QED BY <2>1, <2>10 DEF e, new
<1> QED BY <1>2, <1>3, <1>4, <1>5, <1>7, <1>8, <1>9, <1>10, <1>11 DEF Next

\* Whatever a command does to its own lines, a zone that shares no line with them
\* reads the same text afterwards, wherever that text has moved to: the shift
\* apply_line_deltas makes, and the lines replace_zone_content, hex-replace and
\* the Store write after it, are right for every document and every edit whose
\* coordinates are (StraightEdit).
THEOREM PeersKeep == Spec => PeersKeepTheirLines
<1>1. TypeOK /\ [Next]_vars => [PeersKept]_vars
  BY StepKeepsPeers
<1> QED BY <1>1, TypeCorrect, PTL DEF Spec, PeersKeepTheirLines

(***************************************************************************)
(* The zones an edit was aimed at.                                         *)
(***************************************************************************)
\* A zone with the extent replace_zone_content and hex-replace give it reads the
\* lines that stand there.  Line 0 alone is spelled like the empty zone.
LEMMA ExtentReads ==
  ASSUME NEW d, NEW q, NEW y, HasRec(d, q),
         NEW s \in Nat, NEW new \in Seq(Line), s = 0 => Len(new) # 1,
         ZoneAt(d, q, y) = Extent(s, Len(new)),
         \A i \in 0 .. Len(new) - 1 : LineAt(d, s + i) = new[i + 1]
  PROVE  Reads(d, q, y) = Says(new)
<1> DEFINE p == ZoneAt(d, q, y)
<1>1. Len(new) \in Nat
  BY LenProperties
<1>2. CASE Len(new) = 0
  <2>1. Reads(d, q, y) = << >>
    BY <1>2 DEF Extent, Reads
  <2>2. Says(new) = [i \in {} |-> new[i + 1]]
    <3>1. 0 .. Len(new) - 1 = {}
      BY <1>2
    <3> QED BY <3>1 DEF Says
  <2>3. [i \in {} |-> new[i + 1]] = << >>
    OBVIOUS
  <2> QED BY <2>1, <2>2, <2>3
<1>3. CASE Len(new) # 0
  <2>1. p = [start |-> s, end |-> s + Len(new) - 1]
    BY <1>3 DEF Extent
  <2>2. p.start = s /\ p.end - p.start = Len(new) - 1
    <3> HIDE DEF p
    <3>1. p.start = s /\ p.end = s + Len(new) - 1
      BY <2>1
    <3> QED BY <1>1, <3>1
  <2>3. p # NoZone
    <3> HIDE DEF p
    <3> DEFINE count == Len(new)
    <3>1. p.start = s /\ p.end = s + count - 1 /\ count \in Nat \ {0} /\ (s = 0 => count # 1)
      BY <1>1, <1>3, <2>1
    <3> HIDE DEF count
    <3>2. p.start # 0 \/ p.end # 0
      BY <3>1
    <3> QED BY <3>2 DEF NoZone
  <2>4. Reads(d, q, y) = [i \in 0 .. p.end - p.start |-> LineAt(d, p.start + i)]
    BY <2>3 DEF Reads
  <2> HIDE DEF p
  <2>5. Reads(d, q, y) = [i \in 0 .. Len(new) - 1 |-> LineAt(d, s + i)]
    BY <2>2, <2>4
  <2> QED BY <2>5 DEF Says
<1> QED BY <1>2, <1>3

\* The lines an edit put into the file are not hex-words, so the shift of the
\* line numbers leaves them as they were typed.
LEMMA NewLinesStand ==
  ASSUME NEW c \in Content, NEW s \in Nat, NEW e \in Int, NEW new, Tame(c, s, e, new),
         s <= e + 1, s <= Len(Lines(c)), NEW i \in 0 .. Len(new) - 1
  PROVE  LineAt(SpliceAndShift(c, s, e, new), s + i) = new[i + 1]
<1> DEFINE cut == Splice(c, s, e, new)
<1>1. new \in Seq(Line) /\ Len(new) \in Nat
  BY LenProperties DEF Tame, Unmarked
<1>2. LineAt(cut, s + i) = new[i + 1]
  BY <1>1, NewLineReads
<1>3. i + 1 \in 1 .. Len(new) /\ s + i \in Int
  BY <1>1
<1>6. LineAt(SpliceAndShift(c, s, e, new), s + i) =
        IF (s + i) - 2 \in Headers(cut) /\ LineAt(cut, s + i).kind = "hex"
        THEN ShiftHexLine(LineAt(cut, s + i), e + 1, Len(new) - (e - s + 1))
        ELSE LineAt(cut, s + i)
  BY <1>1, <1>3, SpliceAndShiftReads
<1> HIDE DEF cut
<1>7. CASE new \in Seq(Prose)
  <2>1. new[i + 1] \in Prose
    BY <1>3, <1>7, ElementOfSeq
  <2>2. new[i + 1].kind # "hex"
    BY <2>1 DEF Prose, Blank
  <2> QED BY <1>2, <1>6, <2>2
<1>8. CASE RecordsApart(c, s, e)
  <2>1. (s + i) - 2 \notin Headers(cut)
    <3> DEFINE count == Len(new)
    <3>1. Headers(cut) = {ShiftWord(h, e + 1, count - (e - s + 1)) : h \in Spared(c, s, e)}
      BY SpliceMarkers DEF cut, Tame
    <3>2. ASSUME NEW h \in Spared(c, s, e)
          PROVE  (s + i) - 2 # ShiftWord(h, e + 1, count - (e - s + 1))
      <4>1. h \in Nat /\ (h + 6 < s \/ h > e) /\ count \in Nat /\ i \in 0 .. count - 1
        BY <1>1, <1>8, HeaderInLines DEF Spared, RecordsApart
      <4> HIDE DEF count
      <4> QED BY <4>1 DEF ShiftWord
    <3> QED BY <3>1, <3>2
  <2> QED BY <1>2, <1>6, <2>1
<1> QED BY <1>7, <1>8 DEF Tame

\* Lines s to e of c are a zone within the file that meets no record, and new may
\* stand in for them.
EditsZone(c, r, z, s, e, new) ==
  /\ Indexed(c) /\ HasRec(c, r) /\ CanReplace(c, AsciiLine(c, r), z, new)
  /\ ZoneHere(c, AsciiLine(c, r), z) = [start |-> s, end |-> e]
  /\ s <= e + 1 /\ e < Len(Lines(c)) /\ RecordsApart(c, s, e)
  /\ Tame(c, s, e, new) /\ HexWordsStay(c, s, e, new)
  /\ Len(new) # e - s + 1 => AsciiLine(c, r) < s
  /\ s = 0 => Len(new) # 1

\* zone-replace, zone-append and zone-copy leave their zone with exactly the
\* lines they wrote: the new end is neither shifted twice nor left behind.
LEMMA ReplacedReadsTheEdit ==
  ASSUME NEW c \in Content, NEW r \in Rec, NEW z \in ZoneIdx, NEW new \in Seq(Line),
         NEW s \in Nat, NEW e \in Nat, EditsZone(c, r, z, s, e, new)
  PROVE  /\ Reads(Replaced(c, AsciiLine(c, r), z, new), r, z) = Says(new)
         /\ ZoneAt(Replaced(c, AsciiLine(c, r), z, new), r, z) = Extent(s, Len(new))
         /\ \A i \in 0 .. Len(new) - 1 :
               LineAt(Replaced(c, AsciiLine(c, r), z, new), s + i) = new[i + 1]
<1> USE DEF EditsZone
<1> DEFINE a     == AsciiLine(c, r)
           d     == SpliceAndShift(c, s, e, new)
           delta == Len(new) - (e - s + 1)
           h     == HeaderLine(c, r)
           zs    == [ZonesIn(LineAt(c, a)) EXCEPT ![z] = Extent(s, Len(new))]
           out   == UpdateLine(d, a, HexLine(zs))
<1>1. new \in Seq(Line) /\ Len(new) \in Nat /\ delta \in Int
  BY LenProperties DEF Tame, Unmarked
<1>2. /\ h \in Nat /\ a = h + 2 /\ (h + 6 < s \/ h > e) /\ h \in Headers(c)
      /\ LineAt(c, h) = Marker /\ LineAt(c, h + 1) = IndexLine(r)
  <2>1. h \in Headers(c) /\ h \in Nat /\ LineAt(c, h + 1) = IndexLine(r)
    BY TheIndexed
  <2> QED BY <2>1, HeaderInLines DEF AsciiLine, RecordsApart
<1>3. a \in Nat /\ a < Len(Lines(c)) /\ IsHexWords(LineAt(c, a)) /\ a < Len(Lines(d))
  <2>1. a < Len(Lines(SpliceAndShift(c, ZoneHere(c, a, z).start, ZoneHere(c, a, z).end, new)))
    BY DEF CanReplace
  <2> QED BY <1>2, <2>1 DEF CanReplace
<1>4. d \in Content
  BY <1>1, SpliceAndShiftType
<1>5. ShiftWord(h, e + 1, delta) = h
  <2>0. Len(new) = e - s + 1 \/ a < s
    OBVIOUS
  <2> HIDE DEF h, a
  <2>1. Len(new) = e - s + 1 \/ h < s
    BY <1>2, <2>0
  <2>2. delta = 0 \/ h < e + 1
    BY <1>1, <1>2, <2>1
  <2> HIDE DEF delta
  <2> QED BY <1>1, <1>2, <2>2 DEF ShiftWord
<1>6. HeadersOf(d, r) = {h}
  <2>1. h + 2 < s \/ h > e
    BY <1>2
  <2>2. HeadersOf(d, r) = {ShiftWord(h, e + 1, delta)}
    BY <1>3, <2>1, IndexedFollows
  <2> HIDE DEF d, h, delta
  <2> QED BY <1>5, <2>2
<1>7. zs \in Zones /\ HexLine(zs) \in Line /\ zs[z] = Extent(s, Len(new))
  <2>1. Extent(s, Len(new)) \in ZonePair
    BY <1>1, ExtentType
  <2>2. ZonesIn(LineAt(c, a)) \in Zones
    BY <1>3, ZonesThereType
  <2>3. zs \in Zones /\ zs[z] = Extent(s, Len(new))
    BY <2>1, <2>2 DEF Zones
  <2> QED BY <2>3, HexLineType
<1>8. Replaced(c, a, z, new) = out
  BY DEF Replaced
<1>9. out \in Content
  <2> HIDE DEF d, zs
  <2> QED BY <1>4, <1>7, UpdateLineType
<1>10. \A n \in Int : LineAt(out, n) = IF n = a THEN HexLine(zs) ELSE LineAt(d, n)
  <2> HIDE DEF d, zs, a
  <2> TAKE n \in Int
  <2>1. LineAt(out, n) = IF n \in {a} /\ n \in 0 .. Len(Lines(d)) - 1
                         THEN [i \in {a} |-> HexLine(zs)][n] ELSE LineAt(d, n)
    <3>1. \A i \in {a} : [j \in {a} |-> HexLine(zs)][i] \in Line
      BY <1>7
    <3> QED BY <1>4, <3>1, UpdateLinesReads DEF UpdateLine
  <2>2. Len(Lines(d)) \in Nat
    BY <1>4, LinesType
  <2>3. a \in 0 .. Len(Lines(d)) - 1
    BY <1>3, <2>2
  <2> QED BY <2>1, <2>3
<1>11. \A i \in 0 .. Len(new) - 1 : LineAt(out, s + i) = new[i + 1]
  <2> TAKE i \in 0 .. Len(new) - 1
  <2>1. LineAt(d, s + i) = new[i + 1]
    <3>1. s <= e + 1 /\ s <= Len(Lines(c)) /\ e \in Int
      <4>1. Len(Lines(c)) \in Nat
        BY LinesType
      <4> QED BY <4>1
    <3> QED BY <3>1, NewLinesStand
  <2>2. s + i # a /\ s + i \in Int
    <3> HIDE DEF h, a
    <3>1. Len(new) = e - s + 1 \/ a < s
      BY DEF a
    <3> QED BY <1>1, <1>2, <3>1
  <2> HIDE DEF a, d, out
  <2> QED BY <1>10, <2>1, <2>2
<1> HIDE DEF d, zs, out, h, a, delta
<1>12. HasRec(out, r) /\ HeaderLine(out, r) = h
  <2>1. \A n \in Int : \/ LineAt(out, n) = LineAt(d, n)
                       \/ LineAt(out, n).kind \notin {"marker", "index"}
    BY <1>10 DEF HexLine
  <2>2. LineAt(out, h) = LineAt(d, h) /\ LineAt(out, h + 1) = LineAt(d, h + 1)
    <3>1. h # a /\ h + 1 # a /\ h \in Int /\ h + 1 \in Int
      BY <1>2
    <3> QED BY <1>10, <3>1
  <2>3. h \in Int
    BY <1>2
  <2> QED BY <1>4, <1>6, <1>9, <2>1, <2>2, <2>3, RecordStays
<1>13. ZoneAt(out, r, z) = Extent(s, Len(new))
  <2>1. LineAt(out, AsciiLine(out, r)) = HexLine(zs)
    BY <1>2, <1>10, <1>12 DEF AsciiLine
  <2> QED BY <1>7, <2>1 DEF ZoneAt, ZonesIn, HexLine
<1>14. Reads(out, r, z) = Says(new)
  BY <1>1, <1>11, <1>12, <1>13, ExtentReads
<1> QED BY <1>8, <1>11, <1>13, <1>14 DEF a

\* hex-replace gives every zone that named the lines s..e the new extent: after
\* the shift that zone still reads s..e, its record is still found, and no other
\* hex-word line stands among the new lines.
LEMMA HexReplacedReadsTheEdit ==
  ASSUME NEW c \in Content, Loadable(c),
         NEW s \in Nat, NEW e \in Nat, NEW new \in Seq(Prose), new # << >>,
         CanHexReplace(c, s, e, new), HexWordsStay(c, s, e, new),
         RecordsApart(c, s, e), s = 0 => Len(new) # 1,
         NEW q \in Rec, NEW y \in ZoneIdx, HasRec(c, q),
         ZoneAt(c, q, y) = [start |-> s, end |-> e]
  PROVE  Reads(HexReplaced(c, s, e, new), q, y) = Says(new)
<1> DEFINE d     == SpliceAndShift(c, s, e, new)
           delta == Len(new) - (e - s + 1)
           Sh(n) == ShiftWord(n, e + 1, delta)
           h     == HeaderLine(c, q)
           here  == [start |-> s, end |-> e]
           exact == {a \in 0 .. Len(Lines(d)) - 1 :
                       /\ a - 2 \in Headers(d)
                       /\ \E z \in ZoneIdx : ZoneHere(d, a, z) = here}
           resized(zs) == [z \in ZoneIdx |-> IF zs[z] = here THEN Extent(s, Len(new)) ELSE zs[z]]
           lines == [a \in exact |-> HexLine(resized(ZonesIn(LineAt(d, a))))]
           out   == HexReplaced(c, s, e, new)
           own   == Sh(h) + 2
<1>1. /\ new \in Seq(Line) /\ Len(new) \in Nat /\ Len(new) # 0 /\ s <= e /\ e < Len(Lines(c))
      /\ delta \in Int /\ Loadable(d)
  BY ProseSeq, LenProperties, EmptySeq DEF CanHexReplace
<1>2. d \in Content /\ Len(Lines(d)) \in Nat
  <2>1. d \in Content
    BY <1>1, SpliceAndShiftType
  <2> HIDE DEF d
  <2> QED BY <2>1, LinesType
<1>3. h \in Nat /\ (h + 6 < s \/ h > e) /\ h \in Headers(c)
  BY TheRecord DEF RecordsApart
<1>4. /\ HeadersOf(d, q) = {Sh(h)}
      /\ HasRec(d, q) /\ HeaderLine(d, q) = Sh(h)
      /\ LineAt(d, AsciiLine(d, q)) =
           IF LineAt(c, AsciiLine(c, q)).kind = "hex"
           THEN ShiftHexLine(LineAt(c, AsciiLine(c, q)), e + 1, delta)
           ELSE LineAt(c, AsciiLine(c, q))
  <2>1. h + 2 < s \/ h > e
    BY <1>3
  <2> QED BY <1>1, <2>1, RecordFollows, ProseIsTame
<1>5. Sh(h) \in Nat
  <2>1. h < s \/ h > e
    BY <1>3
  <2> HIDE DEF h
  <2> QED BY <1>1, <1>3, <2>1 DEF ShiftWord
<1>6. ASSUME NEW a \in exact
      PROVE  /\ a \in Nat /\ a - 2 \in Headers(d) /\ a < Len(Lines(d))
             /\ IsHexWords(LineAt(d, a)) /\ lines[a] \in Line /\ lines[a].kind = "hex"
  <2>1. a \in Nat /\ a - 2 \in Headers(d) /\ (a - 2) + 2 = a /\ a < Len(Lines(d))
    BY <1>2
  <2>2. IsHexWords(LineAt(d, a))
    BY <2>1 DEF CanHexReplace
  <2>3. ZonesIn(LineAt(d, a)) \in Zones
    BY <1>2, <2>1, <2>2, ZonesThereType
  <2>4. Extent(s, Len(new)) \in ZonePair
    BY <1>1, ExtentType
  <2>5. resized(ZonesIn(LineAt(d, a))) \in Zones
    BY <2>3, <2>4 DEF Zones
  <2>6. lines[a] = HexLine(resized(ZonesIn(LineAt(d, a))))
    OBVIOUS
  <2> HIDE DEF lines, resized, exact, d
  <2> QED BY <2>1, <2>2, <2>5, <2>6, HexLineType DEF HexLine
<1>7. out = IF exact = {} THEN d ELSE UpdateLines(d, exact, lines)
  BY DEF HexReplaced
<1>8. out \in Content /\ \A n \in Int : LineAt(out, n) = IF n \in exact THEN lines[n] ELSE LineAt(d, n)
  <2> HIDE DEF d, lines, exact
  <2>1. CASE exact = {}
    BY <1>2, <1>7, <2>1
  <2>2. CASE exact # {}
    <3>1. out = UpdateLines(d, exact, lines)
      BY <1>7, <2>2
    <3> HIDE DEF out
    <3>2. out \in Content
      BY <1>2, <1>6, <3>1, UpdateLinesType
    <3>3. ASSUME NEW n \in Int PROVE LineAt(out, n) = IF n \in exact THEN lines[n] ELSE LineAt(d, n)
      <4>1. LineAt(out, n) = IF n \in exact /\ n \in 0 .. Len(Lines(d)) - 1
                             THEN lines[n] ELSE LineAt(d, n)
        BY <1>2, <1>6, <3>1, UpdateLinesReads
      <4>2. n \in exact => n \in 0 .. Len(Lines(d)) - 1
        BY <1>2, <1>6
      <4> QED BY <4>1, <4>2
    <3> QED BY <3>2, <3>3
  <2> QED BY <2>1, <2>2
<1>9. AsciiLine(d, q) = own /\ Sh(h) \in Headers(d)
      /\ LineAt(d, Sh(h)) = Marker /\ LineAt(d, Sh(h) + 1) = IndexLine(q)
  <2> HIDE DEF d, Sh
  <2>1. Sh(h) \in Headers(d) /\ LineAt(d, Sh(h) + 1) = IndexLine(q)
    BY <1>4 DEF HeadersOf
  <2> QED BY <1>2, <1>4, <2>1, HeaderInLines DEF AsciiLine
<1>10. ZoneHere(d, own, y) = here
  <2>1. CASE LineAt(c, AsciiLine(c, q)).kind = "hex"
    <3> DEFINE line == LineAt(c, AsciiLine(c, q))
    <3>1. LineAt(d, own) = ShiftHexLine(line, e + 1, delta) /\ line.zones[y] = here
      <4>1. line.zones[y] = here
        BY <2>1 DEF ZoneAt, ZonesIn
      <4> HIDE DEF d, own, line, delta
      <4> QED BY <1>4, <1>9, <2>1, <4>1 DEF line
    <3>2. ZoneHere(d, own, y) = ShiftPair(line.zones[y], e + 1, delta)
      <4> HIDE DEF own, d, line, delta
      <4> QED BY <3>1 DEF ZoneHere, ZonesIn, ShiftHexLine, HexLine
    <3>3. ShiftPair(here, e + 1, delta) = here
      <4> HIDE DEF delta
      <4> QED BY <1>1 DEF ShiftPair, ShiftWord
    <3> QED BY <3>1, <3>2, <3>3
  <2>2. CASE LineAt(c, AsciiLine(c, q)).kind # "hex"
    <3> HIDE DEF own, d
    <3>1. LineAt(d, own) = LineAt(c, AsciiLine(c, q))
      BY <1>4, <1>9, <2>2
    <3> QED BY <3>1 DEF ZoneHere, ZoneAt
  <2> QED BY <2>1, <2>2
<1>11. own \in exact
  <2> HIDE DEF d, Sh
  <2>1. Sh(h) + 6 < Len(d)
    BY <1>2, <1>1, <1>4, <1>9, TheRecord
  <2>2. Len(Lines(d)) \in {Len(d) - 1, Len(d)} /\ Len(d) \in Nat
    BY <1>2, LinesType, LenProperties DEF Content
  <2>3. own \in 0 .. Len(Lines(d)) - 1 /\ own - 2 = Sh(h)
    BY <1>5, <2>1, <2>2
  <2> HIDE DEF own
  <2> QED BY <1>9, <1>10, <2>3
<1>12. ZonesIn(LineAt(out, own))[y] = Extent(s, Len(new))
  <2>1. LineAt(out, own) = lines[own]
    <3> HIDE DEF out, exact, lines, own
    <3>1. own \in Int
      BY <1>6, <1>11
    <3> QED BY <1>8, <1>11, <3>1
  <2>2. lines[own] = HexLine(resized(ZonesIn(LineAt(d, own))))
    BY <1>11
  <2>3. resized(ZonesIn(LineAt(d, own)))[y] = Extent(s, Len(new))
    BY <1>10 DEF ZoneHere
  <2> HIDE DEF out, lines, own, resized, d
  <2> QED BY <2>1, <2>2, <2>3 DEF ZonesIn, HexLine
<1>13. ASSUME NEW i \in 0 .. Len(new) - 1 PROVE s + i \notin exact
  <2>1. SUFFICES ASSUME s + i \in exact PROVE FALSE
    OBVIOUS
  <2>2. (s + i) - 2 \in Headers(d)
    BY <1>6, <2>1
  <2>3. Headers(d) = {Sh(g) : g \in Spared(c, s, e)}
    <3>1. Unmarked(new)
      BY ProseIsTame
    <3> QED BY <1>1, <3>1, EditKeepsHeaders, SpliceMarkers
  <2>4. PICK g \in Spared(c, s, e) : (s + i) - 2 = Sh(g)
    <3> HIDE DEF d, Sh
    <3> QED BY <2>2, <2>3
  <2>5. g \in Nat /\ (g + 6 < s \/ g > e)
    BY HeaderInLines DEF Spared, RecordsApart
  <2> DEFINE count == Len(new)
  <2>6. count \in Nat /\ i \in 0 .. count - 1
        /\ (s + i) - 2 = ShiftWord(g, e + 1, count - (e - s + 1))
    BY <1>1, <2>4
  <2> HIDE DEF count
  <2> QED BY <1>1, <2>5, <2>6 DEF ShiftWord
<1>14. \A i \in 0 .. Len(new) - 1 : LineAt(out, s + i) = new[i + 1]
  <2> TAKE i \in 0 .. Len(new) - 1
  <2>1. LineAt(d, s + i) = new[i + 1]
    <3>1. s <= e + 1 /\ s <= Len(Lines(c)) /\ e \in Int
      <4>1. Len(Lines(c)) \in Nat
        BY LinesType
      <4> QED BY <1>1, <4>1
    <3> QED BY <3>1, NewLinesStand, ProseIsTame
  <2> HIDE DEF d, out, exact, lines
  <2>2. s + i \in Int
    BY <1>1
  <2> QED BY <1>8, <1>13, <2>1, <2>2
<1> HIDE DEF d, out, exact, lines, Sh, h
<1>15. HasRec(out, q) /\ HeaderLine(out, q) = Sh(h)
  <2>1. \A n \in Int : \/ LineAt(out, n) = LineAt(d, n)
                       \/ LineAt(out, n).kind \notin {"marker", "index"}
    <3> TAKE n \in Int
    <3>1. n \in exact => lines[n].kind \notin {"marker", "index"}
      BY <1>6
    <3> QED BY <1>8, <3>1
  <2>2. LineAt(out, Sh(h)) = LineAt(d, Sh(h)) /\ LineAt(out, Sh(h) + 1) = LineAt(d, Sh(h) + 1)
    <3>1. Sh(h) \notin exact /\ Sh(h) + 1 \notin exact
      BY <1>6, <1>9 DEF Marker, IndexLine, IsHexWords
    <3> QED BY <1>5, <1>8, <3>1
  <2> DEFINE m == Sh(h)
  <2>3. /\ m \in Int /\ HeadersOf(d, q) = {m}
        /\ LineAt(out, m) = LineAt(d, m) /\ LineAt(out, m + 1) = LineAt(d, m + 1)
    BY <1>4, <1>5, <2>2
  <2> HIDE DEF m
  <2>4. HasRec(out, q) /\ HeaderLine(out, q) = m
    BY <1>2, <1>8, <2>1, <2>3, RecordStays, SMTT(30)
  <2> QED BY <2>4 DEF m
<1>16. ZoneAt(out, q, y) = Extent(s, Len(new))
  BY <1>12, <1>15 DEF ZoneAt, AsciiLine
<1>17. Reads(out, q, y) = Says(new)
  BY <1>1, <1>14, <1>15, <1>16, ExtentReads
<1> QED BY <1>17 DEF out

\* Only the three zone commands and hex-replace are aimed at zones they rewrite.
LEMMA StepReadsTheEdit == TypeOK /\ [Next]_vars => [EditRead]_vars
<1> SUFFICES ASSUME TypeOK, Next,
                    last'.cmd \in ZoneCommands \cup {"hex-replace"},
                    StraightEdit(doc, last'),
                    last'.from <= last'.to, last'.to < Len(Lines(doc)),
                    last'.from = 0 => Len(last'.new) # 1,
                    NoRecordIn(doc, last'.from, last'.to),
                    NEW k \in last'.keys
             PROVE  Reads(doc', k[1], k[2]) = Says(last'.new)
  BY DEF EditRead
<1>0. doc \in Content /\ Loadable(doc) /\ Len(doc) \in Nat
  BY LenProperties DEF TypeOK, Content, StraightEdit
<1>1. ASSUME NEW cmd \in ZoneCommands, NEW r \in Rec, NEW z \in ZoneIdx, HasRec(doc, r),
             NEW new, ZoneEdit(cmd, r, z, new)
      PROVE  Reads(doc', k[1], k[2]) = Says(last'.new)
  <2> DEFINE a == AsciiLine(doc, r)
             p == ZoneHere(doc, a, z)
             s == p.start
             e == p.end
  <2>1. /\ last' = Report(cmd, {<< r, z >>}, s, e, new)
        /\ CanReplace(doc, a, z, new) /\ doc' = Replaced(doc, a, z, new)
    BY <1>1 DEF ZoneEdit, Ran
  <2>2. /\ last'.cmd = cmd /\ last'.keys = {<< r, z >>} /\ last'.from = s /\ last'.to = e
        /\ last'.new = new
    BY <2>1 DEF Report
  <2>3. s \in Nat /\ e \in Nat /\ p = [start |-> s, end |-> e]
    <3>1. a \in Int
      BY <1>0, <1>1, HeaderLineType
    <3>2. p \in [start : Nat, end : Nat]
      BY <1>0, <2>1, <3>1, ZoneHereType DEF CanReplace, ZonePair
    <3> HIDE DEF p
    <3> QED BY <3>2
  <2> HIDE DEF s, e
  <2>4. /\ new \in Seq(Prose) /\ s <= e /\ e < Len(Lines(doc)) /\ (s = 0 => Len(new) # 1)
        /\ Len(new) # e - s + 1 => AsciiLine(doc, r) < s
        /\ Len(new) # e - s + 1 => \A h \in Headers(doc) : h < s => h + 2 < s
        /\ NoRecordIn(doc, s, e)
    BY <2>2 DEF StraightEdit, Resizes
  <2>5. HexWordsStay(doc, s, e, new)
    BY <2>4 DEF HexWordsStay
  <2>6. RecordsApart(doc, s, e)
    BY <1>0, <2>3, <2>4, NoRecordIsApart
  <2> HIDE DEF p
  <2>7. Reads(Replaced(doc, AsciiLine(doc, r), z, new), r, z) = Says(new)
    <3>1. new \in Seq(Line) /\ Tame(doc, s, e, new)
      BY <2>4, ProseSeq, ProseIsTame
    <3>2. EditsZone(doc, r, z, s, e, new)
      BY <1>0, <1>1, <2>1, <2>3, <2>4, <2>5, <2>6, <3>1, LoadableIsIndexed DEF p, EditsZone
    <3> QED BY <1>0, <1>1, <2>1, <2>3, <3>1, <3>2, ReplacedReadsTheEdit
  <2>8. k[1] = r /\ k[2] = z
    BY <2>2
  <2> QED BY <2>1, <2>2, <2>7, <2>8
<1>2. ASSUME NEW r \in Rec, NEW z \in ZoneIdx, NEW new \in Inputs,
             ZoneReplace(r, z, new) \/ ZoneAppend(r, z, new)
      PROVE  Reads(doc', k[1], k[2]) = Says(last'.new)
  <2>1. "zone-replace" \in ZoneCommands /\ "zone-append" \in ZoneCommands
    BY DEF ZoneCommands
  <2> QED BY <1>1, <1>2, <2>1 DEF ZoneReplace, ZoneAppend
<1>3. ASSUME NEW r \in Rec, NEW p \in Rec, NEW z \in ZoneIdx, NEW x \in ZoneIdx, ZoneCopy(r, z, p, x)
      PROVE  Reads(doc', k[1], k[2]) = Says(last'.new)
  <2>1. "zone-copy" \in ZoneCommands
    BY DEF ZoneCommands
  <2> QED BY <1>1, <1>3, <2>1 DEF ZoneCopy
<1>4. ASSUME NEW p \in Ranges, NEW new \in Inputs, HexReplace(p.start, p.end, new)
      PROVE  Reads(doc', k[1], k[2]) = Says(last'.new)
  <2> DEFINE s == p.start
             e == p.end
             keys == {j \in Key : HasRec(doc, j[1]) /\ ZoneAt(doc, j[1], j[2]) = [start |-> s, end |-> e]}
  <2>1. s \in Nat /\ e \in Nat
    BY EditorAssumption DEF ZonePair
  <2>2. /\ last' = Report("hex-replace", keys, s, e, new)
        /\ CanHexReplace(doc, s, e, new) /\ doc' = HexReplaced(doc, s, e, new)
    BY <1>4 DEF HexReplace, Ran
  <2> HIDE DEF s, e
  <2>3. /\ last'.cmd = "hex-replace" /\ last'.from = s /\ last'.to = e /\ last'.new = new
        /\ last'.keys = keys
    BY <2>2 DEF Report
  <2>4. /\ new \in Seq(Prose) /\ new # << >> /\ (s = 0 => Len(new) # 1)
        /\ (Len(new) # e - s + 1 => \A h \in Headers(doc) : h < s => h + 2 < s)
        /\ NoRecordIn(doc, s, e)
    BY <2>3 DEF StraightEdit, Resizes
  <2>5. HexWordsStay(doc, s, e, new)
    BY <2>4 DEF HexWordsStay
  <2>6. RecordsApart(doc, s, e)
    BY <1>0, <2>1, <2>4, NoRecordIsApart
  <2>7. /\ k[1] \in Rec /\ k[2] \in ZoneIdx /\ HasRec(doc, k[1])
        /\ ZoneAt(doc, k[1], k[2]) = [start |-> s, end |-> e]
    BY <2>3 DEF Key
  <2> HIDE DEF keys
  <2> DEFINE q == k[1]
             y == k[2]
  <2>8. q \in Rec /\ y \in ZoneIdx /\ HasRec(doc, q) /\ ZoneAt(doc, q, y) = [start |-> s, end |-> e]
    BY <2>7
  <2> HIDE DEF q, y
  <2>9. Reads(HexReplaced(doc, s, e, new), q, y) = Says(new)
    BY <1>0, <2>1, <2>2, <2>4, <2>5, <2>6, <2>8, HexReplacedReadsTheEdit
  <2> QED BY <2>2, <2>3, <2>9 DEF q, y
<1>5. /\ \A r, q \in Rec, z, y \in ZoneIdx : ~ ZoneSwap(r, z, q, y)
      /\ \A r \in Rec, z \in ZoneIdx, p \in Ranges : ~ SetZone(r, z, p)
      /\ \A r \in Rec, v \in Value : ~ SetNumber(r, v)
      /\ \A r \in Rec, slot \in 1 .. 3, text \in SlotInputs : ~ SetString(r, slot, text)
      /\ \A r \in Rec : ~ AddIndex(r) /\ ~ RemoveIndex(r)
  BY DEF ZoneSwap, SetZone, SetNumber, SetString, AddIndex, RemoveIndex, Ran, Report,
         ZoneCommands
<1> QED BY <1>2, <1>3, <1>4, <1>5 DEF Next

\* After zone-replace, zone-append, zone-copy and hex-replace every zone they were
\* aimed at reads exactly the text they put there, wherever its record stands
\* (replace_zone_content writes the new extent at the place the hex-words had
\* before the splice; hex-replace finds the zones by their words after the shift).
THEOREM EditedZonesReadTheEdit == Spec => EditedZoneReadsTheEdit
<1>1. TypeOK /\ [Next]_vars => [EditRead]_vars
  BY StepReadsTheEdit
<1> QED BY <1>1, TypeCorrect, PTL DEF Spec, EditedZoneReadsTheEdit

(***************************************************************************)
(* The swap: two replacements, the second with a position from before the  *)
(* first.                                                                  *)
(***************************************************************************)
\* extract_zone_content of a zone of payload lines answers with just those lines,
\* and none of them starts a record.
LEMMA ExtractedReads ==
  ASSUME NEW c \in Content, NEW r \in Rec, NEW z \in ZoneIdx, HasRec(c, r),
         NEW s \in Nat, NEW e \in Nat, ZoneAt(c, r, z) = [start |-> s, end |-> e],
         ZoneAt(c, r, z) # NoZone, s <= e, e < Len(Lines(c)), RecordsApart(c, s, e)
  PROVE  /\ Unmarked(Extracted(c, AsciiLine(c, r), z))
         /\ Len(Extracted(c, AsciiLine(c, r), z)) = e - s + 1
         /\ Says(Extracted(c, AsciiLine(c, r), z)) = Reads(c, r, z)
<1> DEFINE a   == AsciiLine(c, r)
           ls  == Lines(c)
           new == SubSeq(ls, s + 1, e + 1)
<1>1. ls \in Seq(Line) /\ Len(ls) \in Nat
  BY LinesType
<1>2. a < Len(ls)
  <2>1. LineAt(c, a) # Blank
    BY DEF ZoneAt, ZonesIn, Blank
  <2>2. a \in Nat
    BY HeaderLineType
  <2> QED BY <2>1, <2>2, WrittenLineCounts
<1>3. Extracted(c, a, z) = new
  <2>1. ZoneHere(c, a, z) = [start |-> s, end |-> e] /\ ZoneHere(c, a, z) # NoZone
    BY DEF ZoneHere, ZoneAt
  <2>2. a \in Nat
    BY HeaderLineType
  <2> HIDE DEF a
  <2> QED BY <1>1, <1>2, <2>1, <2>2 DEF Extracted
<1>4. ASSUME NEW n \in s .. e
      PROVE  n + 1 \in 1 .. Len(ls) /\ ls[n + 1] = LineAt(c, n) /\ ls[n + 1] \in Line
             /\ LineAt(c, n) # Marker
  <2>1. n \in 0 .. Len(ls) - 1 /\ n \in Nat
    BY <1>1
  <2>2. LineAt(ls, n) = ls[n + 1]
    BY <2>1 DEF LineAt
  <2>3. LineAt(ls, n) = LineAt(c, n)
    BY <2>1, LinesReadsAlike
  <2>4. LineAt(c, n) # Marker
    <3>1. SUFFICES ASSUME n \in Headers(c) PROVE FALSE
      BY <2>1, HeadersByReading
    <3> QED BY <2>1, <3>1 DEF RecordsApart
  <2>5. n + 1 \in 1 .. Len(ls)
    BY <1>1, <2>1
  <2> HIDE DEF ls
  <2>6. ls[n + 1] \in Line
    BY <1>1, <2>5, ElementOfSeq
  <2> QED BY <2>2, <2>3, <2>4, <2>5, <2>6
<1>5. /\ new \in Seq(Line) /\ Len(new) = e - s + 1
      /\ \A i \in 1 .. Len(new) : new[i] = ls[(s + 1) + i - 1]
  <2> HIDE DEF ls
  <2>1. \A i \in s + 1 .. e + 1 : ls[i] \in Line
    <3> TAKE i \in s + 1 .. e + 1
    <3>1. i - 1 \in s .. e /\ (i - 1) + 1 = i
      OBVIOUS
    <3>2. ls[(i - 1) + 1] \in Line
      BY <1>4, <3>1
    <3> QED BY <3>1, <3>2
  <2>2. SubSeq(ls, s + 1, e + 1) \in Seq(Line)
    BY <1>1, <2>1, SubSeqProperties
  <2>3. /\ Len(SubSeq(ls, s + 1, e + 1)) = e - s + 1
        /\ \A i \in 1 .. e - s + 1 : SubSeq(ls, s + 1, e + 1)[i] = ls[(s + 1) + i - 1]
    BY <1>1, SubSeqProperties
  <2> QED BY <2>2, <2>3
<1>6. ASSUME NEW i \in 0 .. e - s
      PROVE  new[i + 1] = LineAt(c, s + i) /\ new[i + 1] # Marker
  <2>1. s + i \in s .. e /\ i + 1 \in 1 .. Len(new) /\ (s + 1) + (i + 1) - 1 = (s + i) + 1
    <3> HIDE DEF new
    <3> QED BY <1>5
  <2>2. new[i + 1] = ls[(s + 1) + (i + 1) - 1]
    BY <1>5, <2>1
  <2> HIDE DEF new, ls
  <2> QED BY <1>4, <2>1, <2>2
<1> HIDE DEF new
<1>7. Unmarked(new)
  <2>1. ASSUME NEW i \in 1 .. Len(new) PROVE new[i] # Marker
    <3>1. i - 1 \in 0 .. e - s /\ (i - 1) + 1 = i
      BY <1>5
    <3>2. new[(i - 1) + 1] # Marker
      BY <1>6, <3>1
    <3> QED BY <3>1, <3>2
  <2> QED BY <1>5, <2>1 DEF Unmarked
<1>8. Says(new) = Reads(c, r, z)
  <2>1. Reads(c, r, z) = [i \in 0 .. e - s |-> LineAt(c, s + i)]
    BY DEF Reads
  <2>2. Len(new) - 1 = e - s
    BY <1>5
  <2>3. Says(new) = [i \in 0 .. e - s |-> new[i + 1]]
    BY <2>2 DEF Says
  <2> QED BY <1>6, <2>1, <2>3
<1> QED BY <1>3, <1>5, <1>7, <1>8 DEF a

\* replace_zone_content of a zone of payload lines: every record keeps its index
\* line and moves with it, so does a line with something on it, and the edited
\* zone names the new lines.
LEMMA ReplacedMoves ==
  ASSUME NEW c \in Content, Indexed(c), NEW r \in Rec, NEW z \in ZoneIdx, HasRec(c, r),
         NEW new \in Seq(Line), CanReplace(c, AsciiLine(c, r), z, new),
         NEW s \in Nat, NEW e \in Nat, ZoneHere(c, AsciiLine(c, r), z) = [start |-> s, end |-> e],
         Unmarked(new), s <= e, e < Len(Lines(c)), RecordsApart(c, s, e),
         Len(new) # e - s + 1 => AsciiLine(c, r) < s
  PROVE  /\ Replaced(c, AsciiLine(c, r), z, new) \in Content
         /\ Indexed(Replaced(c, AsciiLine(c, r), z, new))
         /\ Headers(Replaced(c, AsciiLine(c, r), z, new))
              = {ShiftWord(h, e + 1, Len(new) - (e - s + 1)) : h \in Headers(c)}
         /\ \A q \in Rec : HasRec(c, q) =>
              /\ HasRec(Replaced(c, AsciiLine(c, r), z, new), q)
              /\ HeaderLine(Replaced(c, AsciiLine(c, r), z, new), q)
                   = ShiftWord(HeaderLine(c, q), e + 1, Len(new) - (e - s + 1))
         /\ \A n \in Nat : (n < s \/ n > e) /\ LineAt(c, n) # Blank =>
              LineAt(Replaced(c, AsciiLine(c, r), z, new),
                     ShiftWord(n, e + 1, Len(new) - (e - s + 1))) # Blank
         /\ HeaderLine(Replaced(c, AsciiLine(c, r), z, new), r) = HeaderLine(c, r)
         /\ ZoneAt(Replaced(c, AsciiLine(c, r), z, new), r, z) = Extent(s, Len(new))
         /\ \A n \in Int : n # AsciiLine(c, r) =>
              LineAt(Replaced(c, AsciiLine(c, r), z, new), n)
                = LineAt(SpliceAndShift(c, s, e, new), n)
<1> DEFINE a     == AsciiLine(c, r)
           d     == SpliceAndShift(c, s, e, new)
           delta == Len(new) - (e - s + 1)
           Sh(n) == ShiftWord(n, e + 1, delta)
           zs    == [ZonesIn(LineAt(c, a)) EXCEPT ![z] = Extent(s, Len(new))]
           out   == UpdateLine(d, a, HexLine(zs))
<1>1. new \in Seq(Line) /\ Len(new) \in Nat /\ delta \in Int /\ Tame(c, s, e, new)
  BY LenProperties DEF Tame
<1>2. a \in Nat /\ a < Len(Lines(c)) /\ IsHexWords(LineAt(c, a)) /\ a < Len(Lines(d))
      /\ a - 2 \in Headers(c) /\ a - 2 = HeaderLine(c, r) /\ HeaderLine(c, r) \in Nat
  <2>1. a < Len(Lines(SpliceAndShift(c, ZoneHere(c, a, z).start, ZoneHere(c, a, z).end, new)))
    BY DEF CanReplace
  <2>2. a - 2 = HeaderLine(c, r) /\ HeaderLine(c, r) \in Headers(c)
    BY TheIndexed DEF AsciiLine
  <2> QED BY <2>1, <2>2, HeaderLineType DEF CanReplace
<1>3. HexWordsStay(c, s, e, new)
  BY HeaderInLines DEF HexWordsStay, RecordsApart
<1>4. d \in Content
  BY <1>1, SpliceAndShiftType
<1>5. zs \in Zones /\ HexLine(zs) \in Line /\ zs[z] = Extent(s, Len(new))
  <2>1. Extent(s, Len(new)) \in ZonePair
    BY <1>1, ExtentType
  <2>2. ZonesIn(LineAt(c, a)) \in Zones
    BY <1>2, ZonesThereType
  <2>3. zs \in Zones /\ zs[z] = Extent(s, Len(new))
    BY <2>1, <2>2 DEF Zones
  <2> QED BY <2>3, HexLineType
<1>6. Replaced(c, a, z, new) = out
  BY DEF Replaced
<1>7. LineAt(d, a).kind \notin {"marker", "index"}
  BY <1>1, <1>2, <1>3, OwnLineFound
<1>8. \A n \in Int : LineAt(out, n) = IF n = a THEN HexLine(zs) ELSE LineAt(d, n)
  <2> HIDE DEF d, zs, a
  <2> TAKE n \in Int
  <2>1. LineAt(out, n) = IF n \in {a} /\ n \in 0 .. Len(Lines(d)) - 1
                         THEN [i \in {a} |-> HexLine(zs)][n] ELSE LineAt(d, n)
    <3>1. \A i \in {a} : [j \in {a} |-> HexLine(zs)][i] \in Line
      BY <1>5
    <3> QED BY <1>4, <3>1, UpdateLinesReads DEF UpdateLine
  <2>2. Len(Lines(d)) \in Nat
    BY <1>4, LinesType
  <2>3. a \in 0 .. Len(Lines(d)) - 1
    BY <1>2, <2>2
  <2> QED BY <2>1, <2>3
<1>9. out \in Content
  <2> HIDE DEF d, zs
  <2> QED BY <1>4, <1>5, UpdateLineType
<1>10. ASSUME NEW h \in Headers(c)
       PROVE  /\ h \in Nat /\ h + 1 < Len(Lines(c)) /\ (h + 6 < s \/ h > e)
              /\ LineAt(c, h + 1).kind = "index" /\ Sh(h) \in Nat /\ Sh(h) + 1 = Sh(h + 1)
  <2>1. h \in Nat /\ h + 1 < Len(Lines(c)) /\ LineAt(c, h + 1).kind = "index"
    BY TheIndexed
  <2>2. h + 6 < s \/ h > e
    BY DEF RecordsApart
  <2> QED BY <1>1, <2>1, <2>2 DEF ShiftWord
<1>11. Headers(d) = {Sh(h) : h \in Headers(c)}
  <2>1. Spared(c, s, e) = Headers(c)
    BY <1>10 DEF Spared
  <2>2. e >= -1 /\ e \in Int
    OBVIOUS
  <2> QED BY <1>1, <2>1, <2>2, EditKeepsHeaders, SpliceMarkers
<1>12. ASSUME NEW n \in Nat, n < s \/ n > e
       PROVE  LineAt(d, Sh(n)) = LineAt(c, n)
              \/ (LineAt(c, n).kind = "hex" /\ LineAt(d, Sh(n)).kind = "hex")
  <2>1. LineAt(d, Sh(n)) = IF n - 2 \in Spared(c, s, e) /\ LineAt(c, n).kind = "hex"
                           THEN ShiftHexLine(LineAt(c, n), e + 1, delta)
                           ELSE LineAt(c, n)
    BY <1>3, <1>12, LineFollows
  <2>2. ShiftHexLine(LineAt(c, n), e + 1, delta).kind = "hex"
    BY DEF ShiftHexLine, HexLine
  <2> HIDE DEF d, Sh
  <2> QED BY <2>1, <2>2
<1>13. Sh(HeaderLine(c, r)) = HeaderLine(c, r)
  <2> DEFINE h == HeaderLine(c, r)
  <2>1. h \in Nat /\ (delta = 0 \/ h < e + 1)
    <3>1. Len(new) = e - s + 1 \/ a < s
      OBVIOUS
    <3> HIDE DEF a, h
    <3>2. a - 2 = h /\ h \in Nat
      BY <1>2 DEF h
    <3> QED BY <1>1, <1>2, <3>1, <3>2
  <2> HIDE DEF h, delta
  <2> QED BY <1>1, <2>1 DEF ShiftWord, h
<1> HIDE DEF d, Sh, out, zs, delta, a
<1>14. Headers(out) = Headers(d)
  <2>1. \A n \in Int : LineAt(out, n) = Marker <=> LineAt(d, n) = Marker
    BY <1>7, <1>8 DEF Marker, HexLine
  <2>2. (\A h \in Headers(out) : h \in Int) /\ (\A h \in Headers(d) : h \in Int)
    BY DEF Headers
  <2>3. \A h \in Int : h \in Headers(out) <=> h \in Headers(d)
    BY <1>4, <1>9, <2>1, HeadersByReading
  <2> QED BY <2>2, <2>3
<1>15. ASSUME NEW h \in Headers(c)
       PROVE  Sh(h) \in Headers(out) /\ LineAt(out, Sh(h) + 1) = LineAt(c, h + 1)
  <2>1. h + 1 \in Nat /\ (h + 1 < s \/ h + 1 > e)
    BY <1>10
  <2>2. LineAt(d, Sh(h) + 1) = LineAt(c, h + 1)
    <3>1. LineAt(c, h + 1).kind = "index"
      BY <1>10
    <3> QED BY <1>10, <1>12, <2>1, <3>1
  <2>3. Sh(h) + 1 # a /\ Sh(h) + 1 \in Int
    BY <1>7, <1>10, <2>2
  <2> QED BY <1>8, <1>11, <1>14, <2>2, <2>3
<1>16. Headers(out) = {Sh(h) : h \in Headers(c)}
  BY <1>11, <1>14
<1>17. Indexed(out)
  <2>1. ASSUME NEW g \in Headers(out)
        PROVE  /\ LineAt(out, g + 1).kind = "index"
               /\ \A h \in Headers(out) : LineAt(out, h + 1) = LineAt(out, g + 1) => h = g
    <3>1. PICK g0 \in Headers(c) : g = Sh(g0)
      BY <1>16
    <3>2. LineAt(out, g + 1).kind = "index"
      BY <1>10, <1>15, <3>1
    <3>3. ASSUME NEW h \in Headers(out), LineAt(out, h + 1) = LineAt(out, g + 1) PROVE h = g
      <4>1. PICK h0 \in Headers(c) : h = Sh(h0)
        BY <1>16
      <4>2. LineAt(c, h0 + 1) = LineAt(c, g0 + 1)
        BY <1>15, <3>1, <3>3, <4>1
      <4>3. h0 = g0
        BY <4>2 DEF Indexed
      <4> QED BY <3>1, <4>1, <4>3
    <3> QED BY <3>2, <3>3
  <2> QED BY <2>1 DEF Indexed
<1>18. ASSUME NEW q \in Rec, HasRec(c, q)
       PROVE  HasRec(out, q) /\ HeaderLine(out, q) = Sh(HeaderLine(c, q))
  <2> DEFINE h == HeaderLine(c, q)
  <2>1. h \in Headers(c) /\ LineAt(c, h + 1) = IndexLine(q)
    BY <1>18, TheIndexed
  <2> HIDE DEF h
  <2>2. Sh(h) \in Headers(out) /\ LineAt(out, Sh(h) + 1) = IndexLine(q)
    BY <1>15, <2>1
  <2>3. ASSUME NEW g \in Headers(out), LineAt(out, g + 1) = IndexLine(q) PROVE g = Sh(h)
    BY <1>17, <2>2, <2>3 DEF Indexed
  <2> QED BY <2>2, <2>3, OnlyRecord DEF h
<1>19. ASSUME NEW n \in Nat, n < s \/ n > e, LineAt(c, n) # Blank
       PROVE  LineAt(out, Sh(n)) # Blank
  <2>1. LineAt(d, Sh(n)) # Blank
    BY <1>12, <1>19 DEF Blank
  <2>2. Sh(n) \in Int
    BY <1>1 DEF Sh, ShiftWord
  <2>3. HexLine(zs) # Blank
    BY DEF HexLine, Blank
  <2> QED BY <1>8, <2>1, <2>2, <2>3
<1>20. HeaderLine(out, r) = HeaderLine(c, r)
  BY <1>13, <1>18
<1>21. ZoneAt(out, r, z) = Extent(s, Len(new))
  <2>1. AsciiLine(out, r) = a
    BY <1>20 DEF AsciiLine, a
  <2>2. LineAt(out, AsciiLine(out, r)) = HexLine(zs)
    BY <1>2, <1>8, <2>1
  <2> QED BY <1>5, <2>2 DEF ZoneAt, ZonesIn, HexLine
<1> QED BY <1>6, <1>8, <1>9, <1>16, <1>17, <1>18, <1>19, <1>20, <1>21 DEF Sh, delta, a, d

\* ... and a zone of another record has its two words shifted by what the edit
\* added or took.
LEMMA PeerZoneMoves ==
  ASSUME NEW c \in Content, Indexed(c), NEW r \in Rec, NEW z \in ZoneIdx, HasRec(c, r),
         NEW new \in Seq(Line), CanReplace(c, AsciiLine(c, r), z, new),
         NEW s \in Nat, NEW e \in Nat, ZoneHere(c, AsciiLine(c, r), z) = [start |-> s, end |-> e],
         Unmarked(new), new # << >>, s <= e, e < Len(Lines(c)), RecordsApart(c, s, e),
         Len(new) # e - s + 1 => AsciiLine(c, r) < s,
         NEW q \in Rec, NEW y \in ZoneIdx, q # r, Clear(c, q, y, s, e)
  PROVE  ZoneAt(Replaced(c, AsciiLine(c, r), z, new), q, y)
           = ShiftPair(ZoneAt(c, q, y), e + 1, Len(new) - (e - s + 1))
<1> DEFINE a     == AsciiLine(c, r)
           d     == SpliceAndShift(c, s, e, new)
           delta == Len(new) - (e - s + 1)
           Sh(n) == ShiftWord(n, e + 1, delta)
           out   == Replaced(c, a, z, new)
           p     == ZoneAt(c, q, y)
           h     == HeaderLine(c, q)
<1>1. new \in Seq(Line) /\ Len(new) \in Nat /\ delta \in Int /\ Tame(c, s, e, new)
  BY LenProperties DEF Tame
<1>2. HexWordsStay(c, s, e, new)
  BY HeaderInLines DEF HexWordsStay, RecordsApart
<1>3. /\ h \in Nat /\ (h + 6 < s \/ h > e) /\ HasRec(c, q)
      /\ p # NoZone /\ p.start <= p.end
      /\ (p.end < Len(Lines(c)) \/ e < Len(Lines(c)))
      /\ ~ Meets(p.start, p.end, s, e) /\ RecordsApart(c, p.start, p.end)
  BY HeaderLineType DEF Clear
<1>4. HeadersOf(d, q) = {Sh(h)} /\ ZoneAt(d, q, y) = ShiftPair(p, e + 1, delta)
  <2>1. h + 2 < s \/ h > e
    BY <1>3
  <2>2. s <= e + 1
    OBVIOUS
  <2> QED BY <1>1, <1>2, <1>3, <2>1, <2>2, PeerFollows
<1>5. /\ HeaderLine(out, q) = Sh(h) /\ HeaderLine(out, r) = Sh(HeaderLine(c, r))
      /\ HeaderLine(out, r) = HeaderLine(c, r)
      /\ \A n \in Int : n # a => LineAt(out, n) = LineAt(d, n)
  BY <1>3, ReplacedMoves
<1>6. Sh(h) \in Nat /\ a = HeaderLine(c, r) + 2 /\ HeaderLine(c, r) \in Nat
  BY <1>1, <1>3, HeaderLineType DEF ShiftWord, AsciiLine
<1>7. Sh(h) + 2 # a
  <2> DEFINE g == HeaderLine(c, r)
  <2>1. g # h
    <3>1. LineAt(c, g + 1) = IndexLine(r) /\ LineAt(c, h + 1) = IndexLine(q)
      BY <1>3, TheIndexed
    <3> QED BY <3>1 DEF IndexLine
  <2>2. g \in Nat /\ (g + 6 < s \/ g > e)
    BY <1>6, TheIndexed DEF RecordsApart
  <2>3. Sh(g) # Sh(h)
    <3> DEFINE count == Len(new)
    <3>1. count \in Nat
      BY <1>1
    <3> HIDE DEF count, g, h
    <3>2. ShiftWord(g, e + 1, count - (e - s + 1)) # ShiftWord(h, e + 1, count - (e - s + 1))
      BY <1>3, <2>1, <2>2, <3>1 DEF ShiftWord
    <3> QED BY <3>2 DEF count
  <2> HIDE DEF g, h, Sh, a, out
  <2> QED BY <1>5, <1>6, <2>3 DEF g
<1> HIDE DEF d, out, Sh, a, p
<1>8. HeaderLine(d, q) = Sh(h)
  BY <1>4 DEF HeaderLine
<1>9. LineAt(out, Sh(h) + 2) = LineAt(d, Sh(h) + 2)
  BY <1>5, <1>6, <1>7
<1> QED BY <1>4, <1>5, <1>8, <1>9 DEF ZoneAt, AsciiLine, out, a, p

\* Lines apart from every record, and from the edit, stay so when they move.
LEMMA ApartMoves ==
  ASSUME NEW c \in Content, NEW d, NEW s \in Nat, NEW e \in Nat, NEW count \in Nat, s <= e,
         Headers(d) = {ShiftWord(h, e + 1, count - (e - s + 1)) : h \in Headers(c)},
         RecordsApart(c, s, e)
  PROVE  /\ count # 0 => RecordsApart(d, s, s + count - 1)
         /\ \A t, u \in Nat : t <= u /\ (u < s \/ t > e) /\ RecordsApart(c, t, u) =>
              RecordsApart(d, ShiftWord(t, e + 1, count - (e - s + 1)),
                              ShiftWord(u, e + 1, count - (e - s + 1)))
<1>1. ASSUME NEW h \in Headers(c), NEW t \in Nat, NEW u \in Nat
      PROVE  h \in Nat /\ (h + 6 < s \/ h > e)
             /\ (RecordsApart(c, t, u) => h + 6 < t \/ h > u)
  BY HeaderInLines DEF RecordsApart
<1>2. ASSUME count # 0 PROVE RecordsApart(d, s, s + count - 1)
  <2> SUFFICES ASSUME NEW g \in Headers(d) PROVE g + 6 < s \/ g > s + count - 1
    BY DEF RecordsApart
  <2>1. PICK h \in Headers(c) : g = ShiftWord(h, e + 1, count - (e - s + 1))
    OBVIOUS
  <2>2. h \in Nat /\ (h + 6 < s \/ h > e)
    BY <1>1
  <2> QED BY <1>2, <2>1, <2>2 DEF ShiftWord
<1>3. ASSUME NEW t \in Nat, NEW u \in Nat, t <= u, u < s \/ t > e, RecordsApart(c, t, u)
      PROVE  RecordsApart(d, ShiftWord(t, e + 1, count - (e - s + 1)),
                             ShiftWord(u, e + 1, count - (e - s + 1)))
  <2> DEFINE Sh(n) == ShiftWord(n, e + 1, count - (e - s + 1))
  <2> SUFFICES ASSUME NEW g \in Headers(d) PROVE g + 6 < Sh(t) \/ g > Sh(u)
    BY DEF RecordsApart
  <2>1. PICK h \in Headers(c) : g = Sh(h)
    OBVIOUS
  <2>2. h \in Nat /\ (h + 6 < s \/ h > e) /\ (h + 6 < t \/ h > u)
    BY <1>1, <1>3
  <2> QED BY <1>3, <2>1, <2>2 DEF ShiftWord
<1> QED BY <1>2, <1>3

\* The two replacements of swap_zone_content, first of zone z of r and then of
\* zone y of q, exchange what the zones read.
LEMMA SwapReads ==
  ASSUME NEW c \in Content, Indexed(c), NEW r \in Rec, NEW q \in Rec, r # q,
         NEW z \in ZoneIdx, NEW y \in ZoneIdx, HasRec(c, r), HasRec(c, q),
         NEW s \in Nat, NEW e \in Nat, ZoneAt(c, r, z) = [start |-> s, end |-> e],
         NEW t \in Nat, NEW u \in Nat, ZoneAt(c, q, y) = [start |-> t, end |-> u],
         s <= e, e < Len(Lines(c)), RecordsApart(c, s, e),
         t <= u, u < Len(Lines(c)), RecordsApart(c, t, u),
         u < s \/ t > e, Kept(c, u, s, e),
         AsciiLine(c, r) < s, AsciiLine(c, r) < t, AsciiLine(c, q) < s, AsciiLine(c, q) < t,
         CanReplace(c, AsciiLine(c, r), z, Extracted(c, AsciiLine(c, q), y)),
         NEW half, half = Replaced(c, AsciiLine(c, r), z, Extracted(c, AsciiLine(c, q), y)),
         CanReplace(half, AsciiLine(c, q), y, Extracted(c, AsciiLine(c, r), z)),
         NEW d, d = Replaced(half, AsciiLine(c, q), y, Extracted(c, AsciiLine(c, r), z))
  PROVE  Reads(d, r, z) = Reads(c, q, y) /\ Reads(d, q, y) = Reads(c, r, z)
<1> DEFINE a     == AsciiLine(c, r)
           b     == AsciiLine(c, q)
           n1    == Extracted(c, b, y)
           n2    == Extracted(c, a, z)
           delta == Len(n1) - (e - s + 1)
           Sh(n) == ShiftWord(n, e + 1, delta)
           t2    == Sh(t)
           u2    == Sh(u)
           e2    == s + Len(n1) - 1
<1>1. /\ a \in Nat /\ b \in Nat /\ a >= 2 /\ b >= 2 /\ a = HeaderLine(c, r) + 2
      /\ b = HeaderLine(c, q) + 2 /\ HeaderLine(c, r) \in Nat /\ HeaderLine(c, q) \in Nat
  BY HeaderLineType DEF AsciiLine
<1>2. ZoneAt(c, r, z) # NoZone /\ ZoneAt(c, q, y) # NoZone
  <2>1. s # 0 /\ t # 0
    <3> HIDE DEF a, b
    <3>1. a < s /\ b < t
      BY DEF a, b
    <3> QED BY <1>1, <3>1
  <2> QED BY <2>1 DEF NoZone
<1>3. /\ Unmarked(n1) /\ Len(n1) = u - t + 1 /\ Says(n1) = Reads(c, q, y)
      /\ Unmarked(n2) /\ Len(n2) = e - s + 1 /\ Says(n2) = Reads(c, r, z)
  BY <1>2, ExtractedReads
<1>4. /\ n1 \in Seq(Line) /\ n2 \in Seq(Line) /\ n1 # << >> /\ Len(n1) \in Nat \ {0}
      /\ delta = (u - t) - (e - s)
  <2>1. n1 \in Seq(Line) /\ n2 \in Seq(Line)
    BY <1>3 DEF Unmarked
  <2> HIDE DEF n1, n2
  <2>2. Len(n1) \in Nat \ {0}
    BY <1>3
  <2> QED BY <1>3, <2>1, <2>2
<1>5. ZoneHere(c, a, z) = [start |-> s, end |-> e]
  BY DEF ZoneHere, ZoneAt
<1>6. Clear(c, q, y, s, e)
  <2>1. ~ Meets(t, u, s, e)
    BY DEF Meets
  <2>2. HeaderLine(c, q) + 6 < s \/ HeaderLine(c, q) > e
    BY TheIndexed DEF RecordsApart
  <2> QED BY <1>2, <2>1, <2>2 DEF Clear
<1>7. /\ half \in Content /\ Indexed(half)
      /\ Headers(half) = {Sh(h) : h \in Headers(c)}
      /\ HasRec(half, r) /\ HeaderLine(half, r) = HeaderLine(c, r)
      /\ HasRec(half, q) /\ HeaderLine(half, q) = Sh(HeaderLine(c, q))
      /\ \A n \in Nat : (n < s \/ n > e) /\ LineAt(c, n) # Blank => LineAt(half, Sh(n)) # Blank
      /\ ZoneAt(half, r, z) = Extent(s, Len(n1))
  BY <1>3, <1>4, <1>5, ReplacedMoves
<1>8. ZoneAt(half, q, y) = ShiftPair([start |-> t, end |-> u], e + 1, delta)
  <2> HIDE DEF a, n1
  <2>1. CanReplace(c, a, z, n1) /\ half = Replaced(c, a, z, n1) /\ a < s
    BY DEF a, n1, b
  <2>2. Unmarked(n1) /\ n1 \in Seq(Line) /\ n1 # << >> /\ q # r
    BY <1>3, <1>4
  <2>3. ZoneAt(Replaced(c, a, z, n1), q, y) = ShiftPair(ZoneAt(c, q, y), e + 1, Len(n1) - (e - s + 1))
    BY <1>5, <1>6, <2>1, <2>2, PeerZoneMoves DEF a
  <2> QED BY <2>1, <2>3
<1>9. Tame(c, s, e, n1)
  BY <1>3 DEF Tame
<1>10. Reads(half, r, z) = Says(n1)
  <2>1. HexWordsStay(c, s, e, n1)
    BY HeaderInLines DEF HexWordsStay, RecordsApart
  <2>2. s # 0
    <3> HIDE DEF a
    <3>1. a < s
      BY DEF a
    <3> QED BY <1>1, <3>1
  <2>3. EditsZone(c, r, z, s, e, n1)
    BY <1>4, <1>5, <1>9, <2>1, <2>2 DEF EditsZone
  <2> QED BY <1>4, <1>5, <2>3, ReplacedReadsTheEdit
<1>11. RecordsApart(half, s, e2) /\ RecordsApart(half, t2, u2)
  <2> HIDE DEF n1
  <2>1. Len(n1) \in Nat /\ Len(n1) # 0
    BY <1>4
  <2> QED BY <1>7, <2>1, ApartMoves
<1> HIDE DEF n1, n2
<1>12. /\ t2 \in Nat /\ u2 \in Nat /\ t2 <= u2 /\ u2 - t2 = u - t /\ b < t2
       /\ (e2 < t2 \/ s > u2) /\ e2 \in Nat /\ s <= e2
  <2> DEFINE count == Len(n1)
  <2>1. count \in Nat \ {0} /\ b < s /\ b < t /\ b \in Nat
    BY <1>1, <1>4
  <2> HIDE DEF count, b
  <2>2. /\ ShiftWord(t, e + 1, count - (e - s + 1)) \in Nat
        /\ ShiftWord(u, e + 1, count - (e - s + 1)) \in Nat
        /\ ShiftWord(u, e + 1, count - (e - s + 1)) - ShiftWord(t, e + 1, count - (e - s + 1)) = u - t
        /\ b < ShiftWord(t, e + 1, count - (e - s + 1))
        /\ \/ s + count - 1 < ShiftWord(t, e + 1, count - (e - s + 1))
           \/ s > ShiftWord(u, e + 1, count - (e - s + 1))
        /\ s + count - 1 \in Nat /\ s <= s + count - 1
    BY <2>1 DEF ShiftWord
  <2>3. t2 = ShiftWord(t, e + 1, count - (e - s + 1)) /\ u2 = ShiftWord(u, e + 1, count - (e - s + 1))
        /\ e2 = s + count - 1
    BY DEF count
  <2> HIDE DEF t2, u2, e2
  <2>4. t2 <= u2
    <3>1. u2 - t2 = u - t /\ t2 \in Nat /\ u2 \in Nat
      BY <2>2, <2>3
    <3> QED BY <3>1
  <2> QED BY <2>2, <2>3, <2>4
<1>13. u2 < Len(Lines(half))
  <2>1. Len(c) \in Nat
    BY LenProperties DEF Content
  <2>2. PICK m \in u .. Len(c) - 1 : m \notin s .. e /\ LineAt(c, m) # Blank
    BY DEF Kept
  <2>3. m \in Nat /\ u <= m /\ (m < s \/ m > e)
    BY <2>2
  <2>4. Sh(m) \in Nat /\ u2 <= Sh(m)
    <3> DEFINE count == Len(n1)
    <3>1. count \in Nat \ {0}
      BY <1>4
    <3> HIDE DEF count
    <3>2. /\ ShiftWord(m, e + 1, count - (e - s + 1)) \in Nat
          /\ ShiftWord(u, e + 1, count - (e - s + 1)) <= ShiftWord(m, e + 1, count - (e - s + 1))
      BY <2>3, <3>1 DEF ShiftWord
    <3> QED BY <3>2 DEF count
  <2>5. LineAt(half, Sh(m)) # Blank
    BY <1>7, <2>2, <2>3
  <2> HIDE DEF Sh, u2
  <2>6. Sh(m) < Len(Lines(half)) /\ Len(Lines(half)) \in Nat
    BY <1>7, <2>4, <2>5, WrittenLineCounts, LinesType
  <2> QED BY <1>12, <2>4, <2>6
<1>14. AsciiLine(half, q) = b /\ AsciiLine(half, r) = a
  <2>1. Sh(HeaderLine(c, q)) = HeaderLine(c, q)
    <3> DEFINE h == HeaderLine(c, q)
    <3>1. h \in Nat /\ h < e + 1
      <4> HIDE DEF h, b
      <4>1. b = h + 2 /\ b < s /\ h \in Nat
        BY <1>1 DEF b, h
      <4> QED BY <4>1
    <3> HIDE DEF h, delta
    <3> QED BY <3>1 DEF ShiftWord, h
  <2> HIDE DEF Sh
  <2> QED BY <1>7, <2>1 DEF AsciiLine
<1>15. /\ ZoneAt(half, q, y) = [start |-> t2, end |-> u2]
       /\ ZoneHere(half, b, y) = [start |-> t2, end |-> u2]
  <2>1. ZoneAt(half, q, y) = [start |-> t2, end |-> u2]
    BY <1>8 DEF ShiftPair
  <2> HIDE DEF t2, u2
  <2> QED BY <1>14, <2>1 DEF ZoneHere, ZoneAt
<1>16. ZoneAt(half, r, z) = [start |-> s, end |-> e2] /\ ZoneAt(half, r, z) # NoZone
  <2>1. ZoneAt(half, r, z) = [start |-> s, end |-> e2]
    BY <1>4, <1>7 DEF Extent
  <2>2. s # 0
    <3> HIDE DEF a
    <3>1. a < s
      BY DEF a
    <3> QED BY <1>1, <3>1
  <2> HIDE DEF e2
  <2> QED BY <2>1, <2>2 DEF NoZone
<1> HIDE DEF t2, u2, e2, Sh, delta
<1>17. Tame(half, t2, u2, n2) /\ HexWordsStay(half, t2, u2, n2)
  <2>1. Tame(half, t2, u2, n2)
    BY <1>3, <1>11 DEF Tame
  <2>2. \A h \in Headers(half) : h < t2 => h + 2 < t2
    <3> TAKE h \in Headers(half)
    <3>1. h \in Nat /\ (h + 6 < t2 \/ h > u2)
      BY <1>7, <1>11, HeaderInLines DEF RecordsApart
    <3> QED BY <1>12, <3>1
  <2> QED BY <2>1, <2>2 DEF HexWordsStay
<1>18. d = Replaced(half, AsciiLine(half, q), y, n2) /\ CanReplace(half, AsciiLine(half, q), y, n2)
       /\ ZoneHere(half, AsciiLine(half, q), y) = [start |-> t2, end |-> u2]
       /\ AsciiLine(half, q) < t2
  BY <1>12, <1>14, <1>15 DEF b, n2, a
<1>19. Reads(d, q, y) = Says(n2)
  <2>1. t2 # 0
    BY <1>1, <1>12
  <2> HIDE DEF a, b
  <2>2. EditsZone(half, q, y, t2, u2, n2)
    BY <1>4, <1>7, <1>11, <1>12, <1>13, <1>17, <1>18, <2>1 DEF EditsZone
  <2> QED BY <1>4, <1>7, <1>12, <1>18, <2>2, ReplacedReadsTheEdit
<1>20. Reads(d, r, z) = Reads(half, r, z)
  <2>1. Clear(half, r, z, t2, u2)
    <3>1. ~ Meets(s, e2, t2, u2)
      BY <1>12 DEF Meets
    <3>2. HeaderLine(half, r) + 6 < t2 \/ HeaderLine(half, r) > u2
      BY <1>7, <1>11, TheIndexed DEF RecordsApart
    <3> QED BY <1>7, <1>11, <1>12, <1>13, <1>16, <3>1, <3>2 DEF Clear
  <2>2. << r, z >> # << q, y >> /\ t2 <= u2 + 1 /\ n2 # << >>
    <3>1. Len(n2) # 0
      BY <1>3
    <3>2. n2 # << >>
      BY <3>1, EmptySeq
    <3> QED BY <1>12, <3>2
  <2> HIDE DEF a, b
  <2> QED BY <1>4, <1>7, <1>12, <1>17, <1>18, <2>1, <2>2, ReplacedKeepsPeers
<1> QED BY <1>3, <1>10, <1>19, <1>20

\* Of the commands only swap reports itself as one, and its guard gives the two
\* replacements what they need.
LEMMA StepSwaps == TypeOK /\ [Next]_vars => [Swapped]_vars
<1> SUFFICES ASSUME TypeOK, Next PROVE Swapped
  BY DEF Swapped
<1> USE DEF Ran, Report
<1>1. CASE \E r \in Rec, z \in ZoneIdx, new \in Inputs :
              ZoneReplace(r, z, new) \/ ZoneAppend(r, z, new)
  <2>1. last'.cmd # "swap"
    BY <1>1 DEF ZoneReplace, ZoneAppend, ZoneEdit
  <2> QED BY <2>1 DEF Swapped
<1>2. ASSUME NEW r \in Rec, NEW q \in Rec, NEW z \in ZoneIdx, NEW y \in ZoneIdx,
             ZoneCopy(r, z, q, y)
      PROVE  Swapped
  <2>1. last'.cmd # "swap"
    BY <1>2 DEF ZoneCopy, ZoneEdit
  <2> QED BY <2>1 DEF Swapped
<1>3. ASSUME NEW r \in Rec, NEW q \in Rec, NEW z \in ZoneIdx, NEW y \in ZoneIdx,
             ZoneSwap(r, z, q, y)
      PROVE  Swapped
  <2> DEFINE a    == AsciiLine(doc, r)
             b    == AsciiLine(doc, q)
             half == Replaced(doc, a, z, Extracted(doc, b, y))
             from(i) == ZoneAt(doc, i[1], i[2]).start
             to(i)   == ZoneAt(doc, i[1], i[2]).end
             J    == << r, z >>
             K    == << q, y >>
  <2>1. /\ Loadable(doc) /\ HasRec(doc, r) /\ HasRec(doc, q)
        /\ CanReplace(doc, a, z, Extracted(doc, b, y))
        /\ CanReplace(half, b, y, Extracted(doc, a, z))
        /\ last'.keys = {J, K}
        /\ doc' = Replaced(half, b, y, Extracted(doc, a, z))
    BY <1>3 DEF ZoneSwap
  <2>2. doc \in Content /\ Indexed(doc)
    BY <2>1, LoadableIsIndexed DEF TypeOK
  <2>3. ASSUME r # q, Apart(doc, r, z, from(K), to(K)), Apart(doc, q, y, from(J), to(J)),
               Kept(doc, to(K), from(J), to(J)),
               a < from(J), a < from(K), b < from(J), b < from(K)
        PROVE  Reads(doc', r, z) = Reads(doc, q, y) /\ Reads(doc', q, y) = Reads(doc, r, z)
    <3> DEFINE s == ZoneAt(doc, r, z).start
               e == ZoneAt(doc, r, z).end
               t == ZoneAt(doc, q, y).start
               u == ZoneAt(doc, q, y).end
    <3>1. s \in Nat /\ e \in Nat /\ ZoneAt(doc, r, z) = [start |-> s, end |-> e]
          /\ t \in Nat /\ u \in Nat /\ ZoneAt(doc, q, y) = [start |-> t, end |-> u]
      <4>1. ZoneAt(doc, r, z) \in ZonePair /\ ZoneAt(doc, q, y) \in ZonePair
        BY <2>1, <2>2, ZoneWordsType
      <4> QED BY <4>1 DEF ZonePair
    <3> HIDE DEF s, e, t, u
    <3>2. from(J) = s /\ to(J) = e /\ from(K) = t /\ to(K) = u
      BY DEF s, e, t, u
    <3>3. /\ s <= e /\ e < Len(Lines(doc)) /\ RecordsApart(doc, s, e)
          /\ t <= u /\ u < Len(Lines(doc)) /\ RecordsApart(doc, t, u)
          /\ u < s \/ t > e
      <4>1. Apart(doc, r, z, t, u) /\ Apart(doc, q, y, s, e)
        BY <2>3, <3>2
      <4>2. s <= e /\ e < Len(Lines(doc)) /\ RecordsApart(doc, s, e)
        BY <2>1, <2>2, <3>1, <4>1, ApartFacts DEF s, e
      <4>3. t <= u /\ u < Len(Lines(doc)) /\ RecordsApart(doc, t, u) /\ (u < s \/ t > e)
        BY <2>1, <2>2, <3>1, <4>1, ApartFacts DEF t, u
      <4> QED BY <4>2, <4>3
    <3>4. Kept(doc, u, s, e) /\ a < s /\ a < t /\ b < s /\ b < t
      BY <2>3, <3>2
    <3> QED BY <2>1, <2>2, <2>3, <3>1, <3>3, <3>4, SwapReads
  <2>4. ASSUME NEW j \in {J, K}, NEW k \in {J, K},
               j[1] # k[1],
               Apart(doc, j[1], j[2], from(k), to(k)), Apart(doc, k[1], k[2], from(j), to(j)),
               Kept(doc, to(j), from(k), to(k)), Kept(doc, to(k), from(j), to(j)),
               \A i, h \in {j, k} : AsciiLine(doc, i[1]) < from(h)
        PROVE  Reads(doc', j[1], j[2]) = Reads(doc, k[1], k[2])
    <3>1. (j = J /\ k = K) \/ (j = K /\ k = J)
      BY <2>4
    <3>2. J[1] = r /\ J[2] = z /\ K[1] = q /\ K[2] = y
      OBVIOUS
    <3> HIDE DEF J, K, from, to
    <3>3. CASE j = J /\ k = K
      BY <2>3, <2>4, <3>2, <3>3
    <3>4. CASE j = K /\ k = J
      BY <2>3, <2>4, <3>2, <3>4
    <3> QED BY <3>1, <3>3, <3>4
  <2> QED BY <2>1, <2>4 DEF Swapped
<1>4. CASE \E p \in Ranges, new \in Inputs : HexReplace(p.start, p.end, new)
  <2>1. last'.cmd # "swap"
    BY <1>4 DEF HexReplace
  <2> QED BY <2>1 DEF Swapped
<1>5. CASE \E r \in Rec, z \in ZoneIdx, p \in Ranges : SetZone(r, z, p)
  <2>1. last'.cmd # "swap"
    BY <1>5 DEF SetZone
  <2> QED BY <2>1 DEF Swapped
<1>6. CASE \E r \in Rec, v \in Value : SetNumber(r, v)
  <2>1. last'.cmd # "swap"
    BY <1>6 DEF SetNumber
  <2> QED BY <2>1 DEF Swapped
<1>7. CASE \E r \in Rec, slot \in 1 .. 3, text \in SlotInputs : SetString(r, slot, text)
  <2>1. last'.cmd # "swap"
    BY <1>7 DEF SetString
  <2> QED BY <2>1 DEF Swapped
<1>8. CASE \E r \in Rec : AddIndex(r) \/ RemoveIndex(r)
  <2>1. last'.cmd # "swap"
    BY <1>8 DEF AddIndex, RemoveIndex
  <2> QED BY <2>1 DEF Swapped
<1> QED BY <1>1, <1>2, <1>3, <1>4, <1>5, <1>6, <1>7, <1>8 DEF Next

\* The library's swap exchanges what two zones of different records read, when
\* both records stand above both zones and neither zone is but empty lines at the
\* end of the file (swap_zone_content, which takes the second record's position
\* before the first replacement).
THEOREM SwapsExchange == Spec => SwapExchanges
<1>1. TypeOK /\ [Next]_vars => [Swapped]_vars
  BY StepSwaps
<1> QED BY <1>1, TypeCorrect, PTL DEF Spec, SwapExchanges

(***************************************************************************)
(* The values of the records.                                              *)
(***************************************************************************)
\* The record of c at h is found in d at f[h], and a line with something on it
\* stands at its end or below.
Finds(c, d, f) ==
  /\ Headers(d) = {f[h] : h \in Headers(c)}
  /\ \A h \in Headers(c) :
       /\ f[h] \in Nat
       /\ LineAt(d, f[h] + 1) = LineAt(c, h + 1)
       /\ \E m \in Nat : f[h] + 6 <= m /\ LineAt(d, m) # Blank

\* d is c after an edit that met no record: every record is found, and its values
\* are what they were, unless another record keeps its hex-words among them.
Follows(c, d, f) ==
  /\ Finds(c, d, f)
  /\ \A h \in Headers(c), n \in 1 .. 4 :
       h + n \notin Headers(c) =>
         /\ f[h] + n \notin Headers(d)
         /\ LineAt(d, f[h] + n + 2) = LineAt(c, h + n + 2)

\* What Loadable says of a marker, as a reader of lines sees it.
LEMMA MarkerLines ==
  ASSUME NEW c \in Content, Loadable(c), NEW h \in Headers(c)
  PROVE  /\ h \in Nat /\ h + 6 < Len(c) /\ Len(c) \in Nat
         /\ LineAt(c, h + 1) = c[h + 2] /\ c[h + 2].kind = "index"
<1>1. PICK r \in Rec : HasRec(c, r) /\ HeaderLine(c, r) = h
  BY MarkersAreRecords
<1>2. h \in Nat /\ h + 6 < Len(c) /\ LineAt(c, h + 1).kind = "index"
  BY <1>1, TheRecord
<1>3. Len(c) \in Nat
  BY LenProperties DEF Content
<1>4. h + 1 \in 0 .. Len(c) - 1 /\ (h + 1) + 1 = h + 2
  BY <1>2, <1>3
<1> QED BY <1>2, <1>3, <1>4 DEF LineAt

\* After such an edit the file still loads, every record is found and all six of
\* its lines are in the file.
LEMMA FoundLoads ==
  ASSUME NEW c \in Content, Loadable(c), NEW d \in Content, NEW f, Finds(c, d, f)
  PROVE  /\ Loadable(d)
         /\ \A q \in Rec : HasRec(c, q) =>
              HasRec(d, q) /\ HeaderLine(d, q) = f[HeaderLine(c, q)] /\ Readable(d, q)
<1>1. ASSUME NEW h \in Headers(c)
      PROVE  /\ f[h] \in Headers(d) /\ f[h] \in Nat /\ f[h] + 6 < Len(d) /\ f[h] + 6 < Len(Lines(d))
             /\ LineAt(d, f[h] + 1) = d[f[h] + 2] /\ d[f[h] + 2] = c[h + 2]
             /\ LineAt(c, h + 1) = c[h + 2] /\ c[h + 2].kind = "index"
  <2> DEFINE g == f[h]
  <2>1. /\ g \in Headers(d) /\ g \in Nat /\ LineAt(d, g + 1) = LineAt(c, h + 1)
    BY DEF Finds
  <2>2. PICK m \in Nat : g + 6 <= m /\ LineAt(d, m) # Blank
    BY DEF Finds
  <2> HIDE DEF g
  <2>3. m < Len(d) /\ m < Len(Lines(d)) /\ Len(d) \in Nat /\ Len(Lines(d)) \in Nat
    BY <2>2, WrittenLineCounts, LinesType, LenProperties DEF Content
  <2>4. g + 6 < Len(d) /\ g + 6 < Len(Lines(d))
    BY <2>1, <2>2, <2>3
  <2>5. g + 1 \in 0 .. Len(d) - 1 /\ (g + 1) + 1 = g + 2
    BY <2>1, <2>3, <2>4
  <2>6. LineAt(d, g + 1) = d[g + 2]
    BY <2>5 DEF LineAt
  <2>7. LineAt(c, h + 1) = c[h + 2] /\ c[h + 2].kind = "index"
    BY MarkerLines
  <2> QED BY <2>1, <2>4, <2>6, <2>7 DEF g
<1>2. Headers(d) = {f[h] : h \in Headers(c)}
  BY DEF Finds
<1>3. Loadable(d)
  <2>1. ASSUME NEW g \in Headers(d) PROVE g + 7 <= Len(d) /\ d[g + 2].kind = "index"
    <3>1. PICK h \in Headers(c) : g = f[h]
      BY <1>2
    <3>2. g \in Nat /\ g + 6 < Len(d) /\ Len(d) \in Nat /\ d[g + 2].kind = "index"
      BY <1>1, <3>1, LenProperties DEF Content
    <3> QED BY <3>2
  <2>2. ASSUME NEW g \in Headers(d), NEW h \in Headers(d), d[g + 2] = d[h + 2] PROVE g = h
    <3>1. PICK g0 \in Headers(c) : g = f[g0]
      BY <1>2
    <3>2. PICK h0 \in Headers(c) : h = f[h0]
      BY <1>2
    <3>3. c[g0 + 2] = c[h0 + 2]
      BY <1>1, <2>2, <3>1, <3>2
    <3>4. g0 = h0
      BY <3>3 DEF Loadable
    <3> QED BY <3>1, <3>2, <3>4
  <2> QED BY <2>1, <2>2 DEF Loadable
<1>4. ASSUME NEW q \in Rec, HasRec(c, q)
      PROVE  HasRec(d, q) /\ HeaderLine(d, q) = f[HeaderLine(c, q)] /\ Readable(d, q)
  <2> DEFINE h == HeaderLine(c, q)
             g == f[h]
  <2>1. h \in Headers(c) /\ LineAt(c, h + 1) = IndexLine(q)
    BY <1>4, TheRecord
  <2>2. g \in Headers(d) /\ LineAt(d, g + 1) = IndexLine(q)
    BY <1>1, <2>1
  <2>3. ASSUME NEW k \in Headers(d), LineAt(d, k + 1) = IndexLine(q) PROVE k = g
    <3>1. PICK h0 \in Headers(c) : k = f[h0]
      BY <1>2
    <3>2. c[h0 + 2] = c[h + 2]
      BY <1>1, <2>1, <2>3, <3>1
    <3>3. h0 = h
      BY <2>1, <3>2 DEF Loadable
    <3> QED BY <3>1, <3>3
  <2> HIDE DEF g
  <2>4. HasRec(d, q) /\ HeaderLine(d, q) = g
    BY <2>2, <2>3, OnlyRecord
  <2>5. g + 6 < Len(Lines(d))
    BY <1>1, <2>1 DEF g
  <2> QED BY <2>4, <2>5 DEF g, Readable, String3Line
<1> QED BY <1>3, <1>4

\* What Propped says of one record.
LEMMA ProppedRecord ==
  ASSUME NEW c \in Content, Loadable(c), NEW s \in Int, NEW e \in Int, Propped(c, s, e),
         NEW h \in Headers(c)
  PROVE  /\ h \in Nat /\ h + 6 < Len(c) /\ h + 6 < Len(Lines(c))
         /\ \E n \in Nat : /\ h + 6 <= n /\ n < Len(Lines(c)) /\ (n < s \/ n > e)
                          /\ LineAt(c, n) # Blank
<1>1. h \in Nat /\ h + 6 < Len(c) /\ Len(c) \in Nat
  BY MarkerLines
<1>2. PICK n \in h + 6 .. Len(c) - 1 : n \notin s .. e /\ LineAt(c, n) # Blank
  BY DEF Propped, Kept
<1>3. n \in Nat /\ h + 6 <= n /\ (n < s \/ n > e)
  BY <1>1, <1>2
<1>4. n < Len(Lines(c)) /\ Len(Lines(c)) \in Nat
  BY <1>2, <1>3, WrittenLineCounts, LinesType
<1>5. h + 6 < Len(Lines(c))
  BY <1>1, <1>3, <1>4
<1> QED BY <1>1, <1>2, <1>3, <1>4, <1>5

\* ... and its values read as they did.
LEMMA FollowsKeepsValues ==
  ASSUME NEW c \in Content, Loadable(c), NEW s \in Int, NEW e \in Int, Propped(c, s, e),
         NEW d \in Content, NEW f, Follows(c, d, f),
         NEW q \in Rec, HasRec(c, q), ~ Entangled(c, q)
  PROVE  Fields(d, q) = Fields(c, q)
<1> DEFINE h == HeaderLine(c, q)
           g == HeaderLine(d, q)
<1>1. Loadable(d) /\ HasRec(d, q) /\ g = f[h] /\ Readable(d, q)
  BY FoundLoads DEF Follows
<1>2. h \in Headers(c) /\ h \in Nat /\ h + 6 < Len(c)
  BY TheRecord
<1>3. Readable(c, q)
  <2> HIDE DEF h
  <2>1. h + 6 < Len(Lines(c))
    BY <1>2, ProppedRecord
  <2> QED BY <2>1 DEF Readable, String3Line, h
<1>4. ASSUME NEW i \in 1 .. 4
      PROVE  LineAt(d, AsciiLine(d, q) + i) = LineAt(c, AsciiLine(c, q) + i)
  <2>1. h + i \notin Headers(c)
    <3>1. h + i \in h + 1 .. h + 6
      BY <1>2
    <3> QED BY <3>1 DEF Entangled, String3Line
  <2>2. f[h] \in Nat /\ LineAt(d, f[h] + i + 2) = LineAt(c, h + i + 2)
    BY <1>2, <2>1 DEF Follows, Finds
  <2> HIDE DEF h, g
  <2>3. LineAt(d, g + i + 2) = LineAt(c, h + i + 2) /\ g \in Nat
    BY <1>1, <2>2
  <2>4. (g + 2) + i = g + i + 2 /\ (h + 2) + i = h + i + 2
    BY <1>2, <2>3
  <2> QED BY <2>3, <2>4 DEF AsciiLine, g, h
<1>5. Fields(d, q) = [i \in 1 .. 4 |-> LineAt(d, AsciiLine(d, q) + i)]
  BY <1>1 DEF Fields
<1>6. Fields(c, q) = [i \in 1 .. 4 |-> LineAt(c, AsciiLine(c, q) + i)]
  BY <1>3 DEF Fields
<1> QED BY <1>4, <1>5, <1>6

\* Writing hex-words over hex-words (or over the empty line that stands for them)
\* takes nothing from any record.
LEMMA HexWordsWritten ==
  ASSUME NEW c \in Content, Loadable(c), NEW d \in Content, NEW f, Follows(c, d, f),
         NEW out \in Content,
         \A n \in Int : \/ LineAt(out, n) = LineAt(d, n)
                        \/ /\ LineAt(out, n).kind = "hex"
                           /\ LineAt(d, n).kind \notin {"marker", "index"}
                           /\ n - 2 \in Headers(d)
  PROVE  Follows(c, out, f)
<1>1. Headers(out) = Headers(d)
  <2>1. \A n \in Int : LineAt(out, n) = Marker <=> LineAt(d, n) = Marker
    BY DEF Marker
  <2>2. (\A h \in Headers(out) : h \in Int) /\ (\A h \in Headers(d) : h \in Int)
    BY DEF Headers
  <2>3. \A h \in Int : h \in Headers(out) <=> h \in Headers(d)
    BY <2>1, HeadersByReading
  <2> QED BY <2>2, <2>3
<1>2. ASSUME NEW h \in Headers(c), f[h] \in Nat
      PROVE  /\ LineAt(d, f[h] + 1).kind = "index" => LineAt(out, f[h] + 1) = LineAt(d, f[h] + 1)
             /\ \A m \in Nat : LineAt(d, m) # Blank => LineAt(out, m) # Blank
             /\ \A n \in 1 .. 4 : f[h] + n \notin Headers(d) =>
                   LineAt(out, f[h] + n + 2) = LineAt(d, f[h] + n + 2)
  <2> DEFINE g == f[h]
  <2>1. g \in Nat
    BY <1>2
  <2> HIDE DEF g
  <2>2. LineAt(d, g + 1).kind = "index" => LineAt(out, g + 1) = LineAt(d, g + 1)
    BY <2>1
  <2>3. \A m \in Nat : LineAt(d, m) # Blank => LineAt(out, m) # Blank
    BY DEF Blank
  <2>4. ASSUME NEW n \in 1 .. 4, g + n \notin Headers(d)
        PROVE  LineAt(out, g + n + 2) = LineAt(d, g + n + 2)
    <3>1. (g + n + 2) - 2 = g + n /\ g + n + 2 \in Int
      BY <2>1
    <3> QED BY <2>4, <3>1
  <2> QED BY <2>2, <2>3, <2>4 DEF g
<1>3. \A h \in Headers(c) : LineAt(c, h + 1).kind = "index"
  BY MarkerLines
<1>4. ASSUME NEW h \in Headers(c)
      PROVE  /\ f[h] \in Nat
             /\ LineAt(out, f[h] + 1) = LineAt(c, h + 1)
             /\ \E m \in Nat : f[h] + 6 <= m /\ LineAt(out, m) # Blank
             /\ \A n \in 1 .. 4 :
                  h + n \notin Headers(c) =>
                    /\ f[h] + n \notin Headers(out)
                    /\ LineAt(out, f[h] + n + 2) = LineAt(c, h + n + 2)
  <2>1. f[h] \in Nat /\ LineAt(d, f[h] + 1) = LineAt(c, h + 1)
    BY DEF Follows, Finds
  <2>2. PICK m \in Nat : f[h] + 6 <= m /\ LineAt(d, m) # Blank
    BY DEF Follows, Finds
  <2>3. \A n \in 1 .. 4 : h + n \notin Headers(c) =>
           f[h] + n \notin Headers(d) /\ LineAt(d, f[h] + n + 2) = LineAt(c, h + n + 2)
    BY DEF Follows, Finds
  <2> QED BY <1>1, <1>2, <1>3, <2>1, <2>2, <2>3
<1>5. Headers(out) = {f[h] : h \in Headers(c)}
  BY <1>1 DEF Follows, Finds
<1> QED BY <1>4, <1>5 DEF Follows, Finds

\* An edit that meets no record moves every record as one piece and to the same
\* side of the line that props it.
LEMMA EditFollows ==
  ASSUME NEW c \in Content, Loadable(c),
         NEW s \in Nat, NEW e \in Int, NEW new \in Seq(Prose), Propped(c, s, e),
         s <= e + 1, HexWordsStay(c, s, e, new), RecordsApart(c, s, e)
  PROVE  Follows(c, SpliceAndShift(c, s, e, new),
                 [h \in Headers(c) |-> ShiftWord(h, e + 1, Len(new) - (e - s + 1))])
<1> DEFINE d     == SpliceAndShift(c, s, e, new)
           delta == Len(new) - (e - s + 1)
           Sh(n) == ShiftWord(n, e + 1, delta)
           f     == [h \in Headers(c) |-> Sh(h)]
<1>1. new \in Seq(Line) /\ Len(new) \in Nat /\ e >= -1
  BY ProseSeq, LenProperties
<1>2. Len(Lines(c)) \in Nat
  BY LinesType
<1>3. \A h \in Headers(c) : /\ h \in Nat /\ h + 6 < Len(Lines(c)) /\ (h + 6 < s \/ h > e)
                            /\ LineAt(c, h + 1).kind = "index"
  <2> TAKE h \in Headers(c)
  <2>1. h \in Nat /\ LineAt(c, h + 1).kind = "index"
    BY MarkerLines
  <2>2. h + 6 < Len(Lines(c))
    BY ProppedRecord
  <2> QED BY <2>1, <2>2 DEF RecordsApart
<1>4. Spared(c, s, e) = Headers(c)
  BY <1>1, <1>3 DEF Spared
<1>0. Unmarked(new)
  BY ProseIsTame
<1>5. Headers(d) = {Sh(h) : h \in Headers(c)}
  BY <1>0, <1>1, <1>4, EditKeepsHeaders, SpliceMarkers
<1>6. ASSUME NEW n \in Nat, n < Len(Lines(c)), n < s \/ n > e
      PROVE  LineAt(d, Sh(n)) = IF n - 2 \in Headers(c) /\ LineAt(c, n).kind = "hex"
                                THEN ShiftHexLine(LineAt(c, n), e + 1, delta)
                                ELSE LineAt(c, n)
  BY <1>0, <1>4, <1>6, LineFollows
<1>7. ASSUME NEW h \in Headers(c), NEW i \in 0 .. 6
      PROVE  /\ Sh(h) \in Nat /\ Sh(h) + i = Sh(h + i)
             /\ h + i \in Nat /\ h + i < Len(Lines(c)) /\ (h + i < s \/ h + i > e)
  <2>1. h \in Nat /\ h + 6 < Len(Lines(c)) /\ (h + 6 < s \/ h > e)
    BY <1>3
  <2> QED BY <1>1, <1>2, <2>1 DEF ShiftWord
<1>8. ASSUME NEW h \in Headers(c)
      PROVE  \E m \in Nat : Sh(h) + 6 <= m /\ LineAt(d, m) # Blank
  <2>1. h \in Nat /\ (h + 6 < s \/ h > e)
    BY <1>3
  <2>2. PICK n \in Nat : /\ h + 6 <= n /\ n < Len(Lines(c)) /\ (n < s \/ n > e)
                        /\ LineAt(c, n) # Blank
    BY ProppedRecord
  <2>3. Sh(h) + 6 <= Sh(n) /\ Sh(n) \in Nat
    <3> DEFINE count == Len(new)
    <3>1. count \in Nat
      BY <1>1
    <3> HIDE DEF count
    <3>2. /\ ShiftWord(h, e + 1, count - (e - s + 1)) + 6 <= ShiftWord(n, e + 1, count - (e - s + 1))
          /\ ShiftWord(n, e + 1, count - (e - s + 1)) \in Nat
      BY <1>1, <2>1, <2>2, <3>1 DEF ShiftWord
    <3> QED BY <3>2 DEF count
  <2>4. ShiftHexLine(LineAt(c, n), e + 1, delta) # Blank
    BY DEF ShiftHexLine, HexLine, Blank
  <2>5. LineAt(d, Sh(n)) = IF n - 2 \in Headers(c) /\ LineAt(c, n).kind = "hex"
                           THEN ShiftHexLine(LineAt(c, n), e + 1, delta)
                           ELSE LineAt(c, n)
    BY <1>6, <2>2
  <2> HIDE DEF d, Sh
  <2>6. LineAt(d, Sh(n)) # Blank
    BY <2>2, <2>4, <2>5
  <2> QED BY <2>3, <2>6
<1>10. ASSUME NEW h \in Headers(c)
       PROVE  LineAt(d, Sh(h) + 1) = LineAt(c, h + 1)
  <2>1. /\ Sh(h) + 1 = Sh(h + 1) /\ h + 1 \in Nat /\ h + 1 < Len(Lines(c))
        /\ (h + 1 < s \/ h + 1 > e) /\ LineAt(c, h + 1).kind = "index"
    BY <1>3, <1>7
  <2> HIDE DEF d, Sh
  <2> QED BY <1>6, <2>1
<1>11. ASSUME NEW h \in Headers(c), NEW n \in 1 .. 4, h + n \notin Headers(c)
       PROVE  /\ Sh(h) + n \notin Headers(d)
              /\ LineAt(d, Sh(h) + n + 2) = LineAt(c, h + n + 2)
  <2>1. h \in Nat /\ (h + 6 < s \/ h > e)
    BY <1>3
  <2>2. ASSUME NEW g \in Headers(c), Sh(h) + n = Sh(g) PROVE FALSE
    <3>1. g \in Nat /\ (g + 6 < s \/ g > e)
      BY <1>3
    <3>2. g = h + n
      <4> DEFINE count == Len(new)
      <4>1. count \in Nat
            /\ ShiftWord(h, e + 1, count - (e - s + 1)) + n = ShiftWord(g, e + 1, count - (e - s + 1))
        BY <1>1, <2>2
      <4> HIDE DEF count
      <4> QED BY <1>1, <2>1, <3>1, <4>1 DEF ShiftWord
    <3> QED BY <1>11, <3>2
  <2>3. Sh(h) + n \notin Headers(d)
    <3> HIDE DEF d, Sh
    <3> QED BY <1>5, <2>2
  <2>4. /\ n + 2 \in 0 .. 6 /\ h + (n + 2) = h + n + 2 /\ (h + n + 2) - 2 = h + n
        /\ Sh(h) + (n + 2) = Sh(h) + n + 2
    <3>1. Sh(h) \in Nat
      BY <1>7
    <3> HIDE DEF Sh
    <3> QED BY <2>1, <3>1
  <2>5. /\ Sh(h) + (n + 2) = Sh(h + (n + 2)) /\ h + (n + 2) \in Nat /\ h + (n + 2) < Len(Lines(c))
        /\ (h + (n + 2) < s \/ h + (n + 2) > e)
    BY <1>7, <2>4
  <2> HIDE DEF d, Sh
  <2>6. LineAt(d, Sh(h + n + 2)) = LineAt(c, h + n + 2)
    BY <1>6, <1>11, <2>4, <2>5
  <2> QED BY <2>3, <2>4, <2>5, <2>6
<1>12. \A h \in Headers(c) : f[h] = Sh(h)
  OBVIOUS
<1> HIDE DEF f, d, Sh
<1>13. ASSUME NEW h \in Headers(c)
       PROVE  /\ f[h] \in Nat
              /\ LineAt(d, f[h] + 1) = LineAt(c, h + 1)
              /\ \E m \in Nat : f[h] + 6 <= m /\ LineAt(d, m) # Blank
              /\ \A n \in 1 .. 4 :
                   h + n \notin Headers(c) =>
                     /\ f[h] + n \notin Headers(d)
                     /\ LineAt(d, f[h] + n + 2) = LineAt(c, h + n + 2)
  <2>1. f[h] = Sh(h) /\ Sh(h) \in Nat
    BY <1>7, <1>12
  <2> QED BY <1>8, <1>10, <1>11, <2>1
<1>14. Headers(d) = {f[h] : h \in Headers(c)}
  BY <1>5, <1>12
<1>15. Follows(c, d, f)
  BY <1>13, <1>14 DEF Follows, Finds
<1> QED BY <1>15 DEF d, f, Sh, delta

\* zone-replace, zone-append and zone-copy take nothing from any record.
LEMMA ReplacedFollows ==
  ASSUME NEW c \in Content, Loadable(c),
         NEW r \in Rec, NEW z \in ZoneIdx, HasRec(c, r),
         NEW new \in Seq(Prose), CanReplace(c, AsciiLine(c, r), z, new),
         NEW s \in Nat, NEW e \in Nat, ZoneHere(c, AsciiLine(c, r), z) = [start |-> s, end |-> e],
         s <= e + 1, Propped(c, s, e), HexWordsStay(c, s, e, new),
         Len(new) # e - s + 1 => AsciiLine(c, r) < s, RecordsApart(c, s, e)
  PROVE  \E f : Follows(c, Replaced(c, AsciiLine(c, r), z, new), f)
<1> DEFINE a     == AsciiLine(c, r)
           d     == SpliceAndShift(c, s, e, new)
           delta == Len(new) - (e - s + 1)
           h     == HeaderLine(c, r)
           zs    == [ZonesIn(LineAt(c, a)) EXCEPT ![z] = Extent(s, Len(new))]
           out   == UpdateLine(d, a, HexLine(zs))
           f     == [g \in Headers(c) |-> ShiftWord(g, e + 1, delta)]
<1>1. new \in Seq(Line) /\ Len(new) \in Nat /\ d \in Content
  BY ProseSeq, LenProperties, SpliceAndShiftType
<1>2. Follows(c, d, f)
  BY EditFollows
<1>3. h \in Nat /\ a = h + 2 /\ (h + 6 < s \/ h > e) /\ h \in Headers(c)
  BY TheRecord DEF AsciiLine, RecordsApart
<1>4. a \in Nat /\ a < Len(Lines(c)) /\ IsHexWords(LineAt(c, a)) /\ a < Len(Lines(d))
  <2>1. a < Len(Lines(SpliceAndShift(c, ZoneHere(c, a, z).start, ZoneHere(c, a, z).end, new)))
    BY DEF CanReplace
  <2> QED BY <1>3, <2>1 DEF CanReplace
<1>5. h \in Headers(d)
  <2>0. Len(new) = e - s + 1 \/ a < s
    OBVIOUS
  <2>1. ShiftWord(h, e + 1, delta) = h
    <3> HIDE DEF h, a
    <3>1. delta = 0 \/ h < e + 1
      BY <1>1, <1>3, <2>0
    <3> HIDE DEF delta
    <3> QED BY <1>1, <1>3, <3>1 DEF ShiftWord
  <2>2. f[h] \in Headers(d)
    <3> HIDE DEF d, f
    <3> QED BY <1>2, <1>3 DEF Follows, Finds
  <2>3. f[h] = ShiftWord(h, e + 1, delta)
    BY <1>3
  <2> HIDE DEF d, f, h, delta
  <2> QED BY <2>1, <2>2, <2>3
<1>6. LineAt(d, a).kind \notin {"marker", "index"}
  <2>1. a - 2 = h
    <3> HIDE DEF a, h
    <3> QED BY <1>3
  <2>2. Tame(c, s, e, new) /\ a - 2 \in Headers(c)
    BY <1>3, <2>1, ProseIsTame
  <2> QED BY <1>4, <2>2, OwnLineFound
<1>7. HexLine(zs) \in Line
  <2>1. Extent(s, Len(new)) \in ZonePair
    BY <1>1, ExtentType
  <2>2. ZonesIn(LineAt(c, a)) \in Zones
    BY <1>4, ZonesThereType
  <2>3. zs \in Zones
    BY <2>1, <2>2 DEF Zones
  <2> QED BY <2>3, HexLineType
<1>8. Replaced(c, a, z, new) = out
  BY DEF Replaced
<1> HIDE DEF d, f, a, h, delta
<1>9. out \in Content
  <2> HIDE DEF zs
  <2> QED BY <1>1, <1>7, UpdateLineType
<1>10. ASSUME NEW n \in Int
       PROVE  \/ LineAt(out, n) = LineAt(d, n)
              \/ /\ LineAt(out, n).kind = "hex"
                 /\ LineAt(d, n).kind \notin {"marker", "index"}
                 /\ n - 2 \in Headers(d)
  <2> HIDE DEF zs
  <2>1. LineAt(out, n) = IF n \in {a} /\ n \in 0 .. Len(Lines(d)) - 1
                         THEN [i \in {a} |-> HexLine(zs)][n] ELSE LineAt(d, n)
    <3>1. \A i \in {a} : [j \in {a} |-> HexLine(zs)][i] \in Line
      BY <1>7
    <3> QED BY <1>1, <3>1, UpdateLinesReads DEF UpdateLine
  <2>2. CASE n = a
    <3>1. n - 2 = h
      BY <1>3, <2>2
    <3> QED BY <1>5, <1>6, <2>1, <2>2, <3>1 DEF HexLine
  <2>3. CASE n # a
    BY <2>1, <2>3
  <2> QED BY <2>2, <2>3
<1> HIDE DEF out
<1>11. Follows(c, out, f)
  BY <1>1, <1>2, <1>9, <1>10, HexWordsWritten
<1> QED BY <1>8, <1>11 DEF a

\* Nor does hex-replace.
LEMMA HexReplacedFollows ==
  ASSUME NEW c \in Content, Loadable(c),
         NEW s \in Nat, NEW e \in Nat, NEW new \in Seq(Prose),
         CanHexReplace(c, s, e, new), Propped(c, s, e), HexWordsStay(c, s, e, new),
         RecordsApart(c, s, e)
  PROVE  \E f : Follows(c, HexReplaced(c, s, e, new), f)
<1> DEFINE d     == SpliceAndShift(c, s, e, new)
           here  == [start |-> s, end |-> e]
           exact == {a \in 0 .. Len(Lines(d)) - 1 :
                       /\ a - 2 \in Headers(d)
                       /\ \E z \in ZoneIdx : ZoneHere(d, a, z) = here}
           resized(zs) == [z \in ZoneIdx |-> IF zs[z] = here THEN Extent(s, Len(new)) ELSE zs[z]]
           lines == [a \in exact |-> HexLine(resized(ZonesIn(LineAt(d, a))))]
           out   == HexReplaced(c, s, e, new)
           f     == [g \in Headers(c) |-> ShiftWord(g, e + 1, Len(new) - (e - s + 1))]
<1>1. new \in Seq(Line) /\ Len(new) \in Nat /\ s <= e /\ d \in Content
  BY ProseSeq, LenProperties, SpliceAndShiftType DEF CanHexReplace
<1>2. Follows(c, d, f)
  <2>1. s <= e + 1
    BY <1>1
  <2> QED BY <2>1, EditFollows
<1>3. Len(Lines(d)) \in Nat
  <2> HIDE DEF d
  <2> QED BY <1>1, LinesType
<1>4. ASSUME NEW a \in exact
      PROVE  /\ a \in Nat /\ a - 2 \in Headers(d)
             /\ IsHexWords(LineAt(d, a)) /\ lines[a] \in Line /\ lines[a].kind = "hex"
  <2>1. a \in Nat /\ a - 2 \in Headers(d) /\ (a - 2) + 2 = a /\ a < Len(Lines(d))
    BY <1>3
  <2>2. IsHexWords(LineAt(d, a))
    BY <2>1 DEF CanHexReplace
  <2>3. ZonesIn(LineAt(d, a)) \in Zones
    BY <1>1, <2>1, <2>2, ZonesThereType
  <2>4. Extent(s, Len(new)) \in ZonePair
    BY <1>1, ExtentType
  <2>5. resized(ZonesIn(LineAt(d, a))) \in Zones
    BY <2>3, <2>4 DEF Zones
  <2>6. lines[a] = HexLine(resized(ZonesIn(LineAt(d, a))))
    OBVIOUS
  <2> HIDE DEF lines, resized, exact, d
  <2> QED BY <2>1, <2>2, <2>5, <2>6, HexLineType DEF HexLine
<1>5. out = IF exact = {} THEN d ELSE UpdateLines(d, exact, lines)
  BY DEF HexReplaced
<1> HIDE DEF d, lines, exact, f
<1>6. CASE exact = {}
  BY <1>2, <1>5, <1>6
<1>7. CASE exact # {}
  <2>1. out = UpdateLines(d, exact, lines)
    BY <1>5, <1>7
  <2>2. out \in Content
    <3>1. \A a \in exact : lines[a] \in Line
      BY <1>4
    <3> HIDE DEF out
    <3> QED BY <1>1, <2>1, <3>1, UpdateLinesType
  <2>3. ASSUME NEW n \in Int
        PROVE  \/ LineAt(out, n) = LineAt(d, n)
               \/ /\ LineAt(out, n).kind = "hex"
                  /\ LineAt(d, n).kind \notin {"marker", "index"}
                  /\ n - 2 \in Headers(d)
    <3> HIDE DEF out
    <3>1. LineAt(out, n) = IF n \in exact /\ n \in 0 .. Len(Lines(d)) - 1
                           THEN lines[n] ELSE LineAt(d, n)
      <4>1. \A a \in exact : lines[a] \in Line
        BY <1>4
      <4> QED BY <1>1, <2>1, <4>1, UpdateLinesReads
    <3>2. n \in exact => /\ n - 2 \in Headers(d) /\ lines[n].kind = "hex"
                         /\ LineAt(d, n).kind \notin {"marker", "index"}
      BY <1>4 DEF IsHexWords
    <3> QED BY <3>1, <3>2
  <2> HIDE DEF out
  <2>4. Follows(c, out, f)
    BY <1>1, <1>2, <2>2, <2>3, HexWordsWritten
  <2> QED BY <2>4 DEF out
<1> QED BY <1>6, <1>7

\* set-zone writes the record back as it was, but for the hex-words.
LEMMA ZoneWrittenFollows ==
  ASSUME NEW c \in Content, Loadable(c), NEW s \in Int, NEW e \in Int, Propped(c, s, e),
         NEW r \in Rec, CanWriteRecord(c, r), NEW zs \in Zones
  PROVE  \E f : Follows(c, RecordWritten(c, r, zs, LineAt(c, AsciiLine(c, r) + 1),
                                         StringSlots(c, r)), f)
<1> DEFINE h   == HeaderLine(c, r)
           num == LineAt(c, AsciiLine(c, r) + 1)
           strings == StringSlots(c, r)
           out == RecordWritten(c, r, zs, num, strings)
           f   == [g \in Headers(c) |-> g]
<1>1. HasRec(c, r) /\ h \in Nat /\ h \in Headers(c) /\ AsciiLine(c, r) = h + 2
      /\ IsHexWords(LineAt(c, h + 2))
  BY TheRecord DEF CanWriteRecord, Readable, AsciiLine
<1>2. \A g \in Headers(c) : /\ g \in Nat
                            /\ \E m \in Nat : g + 6 <= m /\ LineAt(c, m) # Blank
  BY ProppedRecord
<1>4. Follows(c, c, f)
  <2>1. ASSUME NEW g \in Headers(c)
        PROVE  /\ f[g] = g /\ g \in Nat
               /\ \E m \in Nat : g + 6 <= m /\ LineAt(c, m) # Blank
               /\ \A n \in 1 .. 4 : LineAt(c, g + n + 2) = LineAt(c, g + n + 2)
    BY <1>2
  <2>2. Headers(c) = {f[g] : g \in Headers(c)}
    OBVIOUS
  <2> HIDE DEF f
  <2> QED BY <2>1, <2>2 DEF Follows, Finds
<1>5. num \in Line /\ strings \in [1 .. 3 -> Seq(Line)]
      /\ \A i \in 1 .. 3 : Len(strings[i]) = 1 /\ strings[i][1] = LineAt(c, h + 3 + i)
  <2>1. \A i \in 1 .. 3 : AsciiLine(c, r) + 1 + i = h + 3 + i
    BY <1>1
  <2>2. \A i \in 1 .. 3 : strings[i] = << LineAt(c, h + 3 + i) >>
    BY <2>1 DEF StringSlots
  <2>3. num \in Line
    BY <1>1, LineAtType DEF Content
  <2>4. strings \in [1 .. 3 -> Seq(Line)]
    BY <1>1, StringSlotsType
  <2> HIDE DEF h, num, strings
  <2>5. ASSUME NEW i \in 1 .. 3
        PROVE  Len(strings[i]) = 1 /\ strings[i][1] = LineAt(c, h + 3 + i)
    <3> DEFINE line == LineAt(c, h + 3 + i)
    <3>1. strings[i] = << line >>
      BY <2>2
    <3> HIDE DEF line
    <3>2. Len(strings[i]) = 1 /\ strings[i][1] = line
      BY <3>1
    <3> QED BY <3>2 DEF line
  <2> QED BY <2>3, <2>4, <2>5
<1>6. out \in Content
  BY <1>5, RecordWrittenType
<1>7. num = LineAt(c, h + 3)
  <2>1. AsciiLine(c, r) + 1 = h + 3
    BY <1>1
  <2> QED BY <2>1
<1>8. ASSUME NEW n \in Int
      PROVE  \/ LineAt(out, n) = LineAt(c, n)
             \/ /\ LineAt(out, n).kind = "hex"
                /\ LineAt(c, n).kind \notin {"marker", "index"}
                /\ n - 2 \in Headers(c)
  <2>1. LineAt(out, n) = IF n = h + 2 THEN HexLine(zs)
                         ELSE IF n = h + 3 THEN num
                         ELSE IF n \in h + 4 .. h + 6 THEN strings[n - (h + 3)][1]
                         ELSE LineAt(c, n)
    BY <1>5, RecordWrittenReads
  <2> HIDE DEF out, h, num, strings
  <2>2. CASE n = h + 2
    <3>1. n - 2 = h /\ LineAt(c, n).kind \notin {"marker", "index"}
      BY <1>1, <2>2 DEF IsHexWords
    <3> QED BY <1>1, <2>1, <2>2, <3>1 DEF HexLine
  <2>3. CASE n = h + 3
    <3>1. h + 3 # h + 2
      BY <1>1
    <3> QED BY <1>7, <2>1, <2>3, <3>1
  <2>4. CASE n \in h + 4 .. h + 6
    <3>1. n # h + 2 /\ n # h + 3 /\ n - (h + 3) \in 1 .. 3 /\ (h + 3) + (n - (h + 3)) = n
      BY <1>1, <2>4
    <3>2. strings[n - (h + 3)][1] = LineAt(c, (h + 3) + (n - (h + 3)))
      BY <1>5, <3>1
    <3> QED BY <2>1, <2>4, <3>1, <3>2
  <2> QED BY <2>1, <2>2, <2>3, <2>4
<1> HIDE DEF out, f
<1>9. Follows(c, out, f)
  BY <1>4, <1>6, <1>8, HexWordsWritten
<1> QED BY <1>9 DEF out, num, strings

\* add_index writes a record below everything: no other record notices.
LEMMA AddedKeepsValues ==
  ASSUME NEW c \in Content, Loadable(c), NEW s \in Int, NEW e \in Int, Propped(c, s, e),
         NEW r \in Rec, ~ HasRec(c, r),
         NEW rec \in Seq(Line), Len(rec) = 8, rec[1] = Marker, rec[2] = IndexLine(r),
         \A i \in 2 .. 8 : rec[i] # Marker,
         NEW q \in Rec, HasRec(c, q)
  PROVE  Fields(c \o rec, q) = Fields(c, q)
<1> DEFINE d   == c \o rec
           g   == HeaderLine(c, q)
           len == Len(c)
<1>1. c \in Seq(Line) /\ len \in Nat \ {0}
  BY EmptySeq, LenProperties DEF Content
<1>2. /\ d \in Seq(Line) /\ Len(d) = len + 8
      /\ \A i \in 1 .. len + 8 : d[i] = IF i <= len THEN c[i] ELSE rec[i - len]
  <2>1. /\ d \in Seq(Line) /\ Len(d) = Len(c) + Len(rec)
        /\ \A i \in 1 .. Len(c) + Len(rec) : d[i] = IF i <= Len(c) THEN c[i] ELSE rec[i - Len(c)]
    BY <1>1, ConcatProperties
  <2> HIDE DEF d
  <2> QED BY <2>1
<1>3. /\ g \in Headers(c)
      /\ \A h \in Headers(c) : /\ h \in Nat /\ h + 6 < len /\ LineAt(c, h + 1) = c[h + 2]
                               /\ c[h + 2].kind = "index"
                               /\ LineAt(c, h + 1) = IndexLine(q) <=> h = g
  BY TheRecord, MarkerLines
<1>4. ASSUME NEW h \in Headers(c) PROVE LineAt(c, h + 1) # IndexLine(r)
  BY <1>4 DEF HasRec, HeadersOf
<1>5. g + 6 < Len(Lines(c))
  <2> HIDE DEF g
  <2> QED BY <1>3, ProppedRecord
<1>6. d \in Content /\ Len(Lines(d)) \in Nat /\ len + 7 <= Len(Lines(d))
  <2>1. d # << >>
    <3>1. Len(d) # 0
      BY <1>1, <1>2
    <3> QED BY <3>1
  <2> HIDE DEF d, len
  <2>2. d \in Content
    BY <1>2, <2>1 DEF Content
  <2>3. Len(Lines(d)) \in Nat /\ Len(d) - 1 <= Len(Lines(d))
    BY <2>2, LinesType
  <2> QED BY <1>1, <1>2, <2>2, <2>3
<1>7. /\ \A n \in 0 .. len - 1 : LineAt(d, n) = LineAt(c, n) /\ d[n + 1] = c[n + 1]
      /\ \A i \in 1 .. 8 : d[len + i] = rec[i]
  <2> HIDE DEF d, len
  <2>1. ASSUME NEW n \in 0 .. len - 1
        PROVE  LineAt(d, n) = d[n + 1] /\ LineAt(c, n) = c[n + 1] /\ d[n + 1] = c[n + 1]
    <3>1. n + 1 \in 1 .. len + 8 /\ n + 1 <= len /\ n \in 0 .. (len + 8) - 1
      BY <1>1
    <3> QED BY <1>2, <3>1 DEF LineAt, len
  <2>2. ASSUME NEW i \in 1 .. 8 PROVE d[len + i] = rec[i]
    <3>1. len + i \in 1 .. len + 8 /\ ~ (len + i <= len) /\ (len + i) - len = i
      BY <1>1
    <3> QED BY <1>2, <3>1
  <2> QED BY <2>1, <2>2
<1> HIDE DEF d, g, len
<1>8. \A h \in Headers(c) : h \in Headers(d) /\ d[h + 2] = c[h + 2]
  <2> TAKE h \in Headers(c)
  <2>0. h \in Nat /\ h + 6 < len
    BY <1>3
  <2>1. h \in 0 .. len - 1 /\ h + 1 \in 0 .. len - 1 /\ (h + 1) + 1 = h + 2 /\ h \in 0 .. (len + 8) - 1
    BY <1>1, <2>0
  <2>2. c[h + 1] = Marker
    BY DEF Headers
  <2> QED BY <1>2, <1>7, <2>1, <2>2 DEF Headers
<1>9. \A h \in Headers(d) : h \in Headers(c) \/ h = len
  <2> TAKE h \in Headers(d)
  <2>1. h \in 0 .. (len + 8) - 1 /\ d[h + 1] = Marker
    BY <1>2 DEF Headers
  <2>2. CASE h < len
    <3>1. h \in 0 .. len - 1
      BY <1>1, <2>1, <2>2
    <3> QED BY <1>7, <2>1, <3>1 DEF Headers, len
  <2>3. CASE ~ (h < len)
    <3> DEFINE i == h - len + 1
    <3>1. i \in 1 .. 8 /\ len + i = h + 1
      BY <1>1, <2>1, <2>3
    <3>2. i = 1
      BY <1>7, <2>1, <3>1
    <3> QED BY <1>1, <2>1, <3>2
  <2> QED BY <2>2, <2>3
<1>10. d[len + 2] = IndexLine(r)
  BY <1>7
<1>11. Loadable(d)
  <2>1. ASSUME NEW h \in Headers(d) PROVE h + 7 <= Len(d) /\ d[h + 2].kind = "index"
    <3>1. CASE h \in Headers(c)
      <4>1. h \in Nat /\ h + 6 < len /\ c[h + 2].kind = "index"
        BY <1>3, <3>1
      <4> QED BY <1>1, <1>2, <1>8, <3>1, <4>1
    <3>2. CASE h = len
      BY <1>1, <1>2, <1>10, <3>2 DEF IndexLine
    <3> QED BY <1>9, <3>1, <3>2
  <2>2. ASSUME NEW h \in Headers(c) PROVE d[h + 2] # d[len + 2]
    BY <1>3, <1>4, <1>8, <1>10
  <2>3. ASSUME NEW h \in Headers(c), NEW k \in Headers(c), d[h + 2] = d[k + 2] PROVE h = k
    <3>1. c[h + 2] = c[k + 2]
      BY <1>8, <2>3
    <3> QED BY <3>1 DEF Loadable
  <2>4. \A h, k \in Headers(d) : d[h + 2] = d[k + 2] => h = k
    BY <1>9, <2>2, <2>3
  <2> QED BY <2>1, <2>4 DEF Loadable
<1>12. HasRec(d, q) /\ HeaderLine(d, q) = g
  <2>1. ASSUME NEW h \in Headers(c) PROVE LineAt(d, h + 1) = LineAt(c, h + 1)
    <3>1. h + 1 \in 0 .. len - 1
      BY <1>1, <1>3, SMTT(30)
    <3> QED BY <1>7, <3>1
  <2>2. LineAt(d, len + 1) = IndexLine(r)
    <3>1. len + 1 \in 0 .. Len(d) - 1 /\ (len + 1) + 1 = len + 2
      BY <1>1, <1>2
    <3> QED BY <1>10, <3>1 DEF LineAt
  <2>3. IndexLine(r) # IndexLine(q)
    BY <1>3, <1>4
  <2>4. \A h \in Headers(d) : LineAt(d, h + 1) = IndexLine(q) => h = g
    BY <1>3, <1>9, <2>1, <2>2, <2>3
  <2>5. g \in Headers(d) /\ LineAt(d, g + 1) = IndexLine(q)
    BY <1>3, <1>8, <2>1
  <2> QED BY <2>4, <2>5, OnlyRecord
<1>13. g \in Nat /\ g + 6 < len
  BY <1>3
<1>14. Readable(d, q) /\ Readable(c, q)
  <2>1. g + 6 < Len(Lines(d)) /\ g + 6 < Len(Lines(c))
    BY <1>1, <1>5, <1>6, <1>13
  <2> QED BY <1>12, <2>1 DEF Readable, String3Line, g
<1>15. \A i \in 1 .. 4 : LineAt(d, AsciiLine(d, q) + i) = LineAt(c, AsciiLine(c, q) + i)
  <2> TAKE i \in 1 .. 4
  <2>1. (g + 2) + i \in 0 .. len - 1
    BY <1>1, <1>13
  <2> QED BY <1>7, <1>12, <2>1 DEF AsciiLine, g
<1>16. Fields(d, q) = [i \in 1 .. 4 |-> LineAt(d, AsciiLine(d, q) + i)]
  BY <1>11, <1>14 DEF Fields
<1>17. Fields(c, q) = [i \in 1 .. 4 |-> LineAt(c, AsciiLine(c, q) + i)]
  BY <1>14 DEF Fields
<1> QED BY <1>15, <1>16, <1>17 DEF d

\* One step per command that meets no record; the others say so in their report.
LEMMA StepKeepsValues == TypeOK /\ [Next]_vars => [ValuesKept]_vars
<1> SUFFICES ASSUME TypeOK, Next, StraightEdit(doc, last'),
                    last'.cmd \in ZoneCommands \cup {"hex-replace", "set-zone", "add"},
                    Propped(doc, last'.from, last'.to),
                    NoRecordIn(doc, last'.from, last'.to),
                    NEW q \in Rec, HasRec(doc, q), ~ Entangled(doc, q)
             PROVE  Fields(doc', q) = Fields(doc, q)
  BY DEF ValuesKept
<1>0. /\ doc \in Content /\ doc' \in Content /\ Loadable(doc)
      /\ last'.from \in Int /\ last'.to \in Int
  <2>1. TypeOK'
    BY StepKeepsTypes
  <2> QED BY <2>1 DEF TypeOK, StraightEdit
<1>1. ASSUME NEW f, Follows(doc, doc', f)
      PROVE  Fields(doc', q) = Fields(doc, q)
  BY <1>0, <1>1, FollowsKeepsValues
<1>2. ASSUME NEW cmd \in ZoneCommands, NEW r \in Rec, NEW z \in ZoneIdx, HasRec(doc, r),
             NEW new, ZoneEdit(cmd, r, z, new)
      PROVE  Fields(doc', q) = Fields(doc, q)
  <2> DEFINE a == AsciiLine(doc, r)
             p == ZoneHere(doc, a, z)
             s == p.start
             e == p.end
  <2>1. /\ last' = Report(cmd, {<< r, z >>}, s, e, new)
        /\ CanReplace(doc, a, z, new) /\ doc' = Replaced(doc, a, z, new)
    BY <1>2 DEF ZoneEdit, Ran
  <2>2. /\ last'.cmd = cmd /\ last'.keys = {<< r, z >>} /\ last'.from = s /\ last'.to = e
        /\ last'.new = new
    BY <2>1 DEF Report
  <2>3. s \in Nat /\ e \in Nat /\ p = [start |-> s, end |-> e]
    <3>1. a \in Int
      BY <1>0, <1>2, HeaderLineType
    <3>2. p \in [start : Nat, end : Nat]
      BY <1>0, <2>1, <3>1, ZoneHereType DEF CanReplace, ZonePair
    <3> HIDE DEF p
    <3> QED BY <3>2
  <2> HIDE DEF s, e
  <2>4. /\ new \in Seq(Prose) /\ s <= e + 1 /\ Propped(doc, s, e)
        /\ Len(new) # e - s + 1 => AsciiLine(doc, r) < s
        /\ Len(new) # e - s + 1 => \A h \in Headers(doc) : h < s => h + 2 < s
        /\ NoRecordIn(doc, s, e)
    BY <2>2 DEF StraightEdit, Resizes
  <2>5. HexWordsStay(doc, s, e, new)
    BY <2>4 DEF HexWordsStay
  <2>6. RecordsApart(doc, s, e)
    BY <1>0, <2>3, <2>4, NoRecordIsApart
  <2> HIDE DEF p
  <2>7. \E f : Follows(doc, Replaced(doc, AsciiLine(doc, r), z, new), f)
    BY <1>0, <1>2, <2>1, <2>3, <2>4, <2>5, <2>6, ReplacedFollows DEF p
  <2> QED BY <1>1, <2>1, <2>7
<1>3. ASSUME NEW r \in Rec, NEW z \in ZoneIdx, NEW new \in Inputs,
             ZoneReplace(r, z, new) \/ ZoneAppend(r, z, new)
      PROVE  Fields(doc', q) = Fields(doc, q)
  <2>1. "zone-replace" \in ZoneCommands /\ "zone-append" \in ZoneCommands
    BY DEF ZoneCommands
  <2> QED BY <1>2, <1>3, <2>1 DEF ZoneReplace, ZoneAppend
<1>4. ASSUME NEW r \in Rec, NEW p \in Rec, NEW z \in ZoneIdx, NEW x \in ZoneIdx, ZoneCopy(r, z, p, x)
      PROVE  Fields(doc', q) = Fields(doc, q)
  <2>1. "zone-copy" \in ZoneCommands
    BY DEF ZoneCommands
  <2> QED BY <1>2, <1>4, <2>1 DEF ZoneCopy
<1>5. ASSUME NEW p \in Ranges, NEW new \in Inputs, HexReplace(p.start, p.end, new)
      PROVE  Fields(doc', q) = Fields(doc, q)
  <2> DEFINE s == p.start
             e == p.end
             keys == {j \in Key : HasRec(doc, j[1]) /\ ZoneAt(doc, j[1], j[2]) = [start |-> s, end |-> e]}
  <2>1. s \in Nat /\ e \in Nat
    BY EditorAssumption DEF ZonePair
  <2>2. /\ last' = Report("hex-replace", keys, s, e, new)
        /\ CanHexReplace(doc, s, e, new) /\ doc' = HexReplaced(doc, s, e, new)
    BY <1>5 DEF HexReplace, Ran
  <2> HIDE DEF s, e, keys
  <2>3. last'.cmd = "hex-replace" /\ last'.from = s /\ last'.to = e /\ last'.new = new
    BY <2>2 DEF Report
  <2>4. /\ new \in Seq(Prose) /\ NoRecordIn(doc, s, e) /\ Propped(doc, s, e)
        /\ Len(new) # e - s + 1 => \A h \in Headers(doc) : h < s => h + 2 < s
    BY <2>2, <2>3 DEF StraightEdit, Resizes, CanHexReplace
  <2>5. HexWordsStay(doc, s, e, new)
    BY <2>4 DEF HexWordsStay
  <2>6. RecordsApart(doc, s, e)
    BY <1>0, <2>1, <2>4, NoRecordIsApart
  <2>7. \E f : Follows(doc, HexReplaced(doc, s, e, new), f)
    BY <1>0, <2>1, <2>2, <2>4, <2>5, <2>6, HexReplacedFollows
  <2> QED BY <1>1, <2>2, <2>7
<1>6. ASSUME NEW r \in Rec, NEW z \in ZoneIdx, NEW p \in Ranges, SetZone(r, z, p)
      PROVE  Fields(doc', q) = Fields(doc, q)
  <2> DEFINE old == ZonesIn(LineAt(doc, AsciiLine(doc, r)))
             zs  == [old EXCEPT ![z] = p]
  <2>1. /\ CanWriteRecord(doc, r)
        /\ doc' = RecordWritten(doc, r, zs, LineAt(doc, AsciiLine(doc, r) + 1), StringSlots(doc, r))
    BY <1>6 DEF SetZone
  <2>2. HasRec(doc, r) /\ AsciiLine(doc, r) \in Nat
    BY <1>0, <2>1, HeaderLineType DEF CanWriteRecord, Readable, AsciiLine
  <2>3. old \in Zones
    BY <1>0, <2>1, <2>2, ZonesThereType DEF CanWriteRecord
  <2>4. zs \in Zones
    BY <2>3, EditorAssumption DEF Zones
  <2> HIDE DEF zs
  <2>5. \E f : Follows(doc, RecordWritten(doc, r, zs, LineAt(doc, AsciiLine(doc, r) + 1),
                                         StringSlots(doc, r)), f)
    BY <1>0, <2>1, <2>4, ZoneWrittenFollows
  <2> QED BY <1>1, <2>1, <2>5
<1>7. ASSUME NEW r \in Rec, AddIndex(r)
      PROVE  Fields(doc', q) = Fields(doc, q)
  <2> DEFINE hex == HexLine([z \in ZoneIdx |-> NoZone])
             rec == << Marker, IndexLine(r), hex, NumLine(Zero), Blank, Blank, Blank, Blank >>
  <2>1. ~ HasRec(doc, r) /\ doc' = doc \o rec
    BY <1>7 DEF AddIndex
  <2>2. hex \in Line
    <3>1. [z \in ZoneIdx |-> NoZone] \in Zones
      BY DEF Zones, NoZone, ZonePair
    <3> QED BY <3>1, HexLineType
  <2>3. Marker \in Line /\ IndexLine(r) \in Line /\ Blank \in Line /\ NumLine(Zero) \in Line
    BY EditorAssumption DEF IndexLine, NumLine, Line
  <2>4. hex # Marker /\ IndexLine(r) # Marker /\ Blank # Marker /\ NumLine(Zero) # Marker
    BY DEF HexLine, IndexLine, Blank, NumLine, Marker
  <2> HIDE DEF hex
  <2>5. rec \in Seq(Line) /\ Len(rec) = 8 /\ rec[1] = Marker /\ rec[2] = IndexLine(r)
    BY <2>2, <2>3
  <2>6. \A i \in 2 .. 8 : rec[i] # Marker
    BY <2>4
  <2> HIDE DEF rec
  <2>7. Fields(doc \o rec, q) = Fields(doc, q)
    BY <1>0, <2>1, <2>5, <2>6, AddedKeepsValues
  <2> QED BY <2>1, <2>7
<1>8. /\ \A r, p \in Rec, z, y \in ZoneIdx : ~ ZoneSwap(r, z, p, y)
      /\ \A r \in Rec, v \in Value : ~ SetNumber(r, v)
      /\ \A r \in Rec, slot \in 1 .. 3, text \in SlotInputs : ~ SetString(r, slot, text)
      /\ \A r \in Rec : ~ RemoveIndex(r)
  BY DEF ZoneSwap, SetNumber, SetString, RemoveIndex, Ran, Report, ZoneCommands
<1> QED BY <1>3, <1>4, <1>5, <1>6, <1>7, <1>8 DEF Next

\* A command that meets no record line (a zone edit, hex-replace, set-zone, add)
\* leaves the file loadable and every record with its numbers and strings, for
\* every document that ends in a line with something on it and every record no
\* other one begins in: the splice of replace_zone_content and hex-replace moves
\* the six lines of a record as one piece, and what is written after it are
\* hex-words, which are no value of the record they belong to.
THEOREM RecordsKeepValues == Spec => RecordsKeepTheirValues
<1>1. TypeOK /\ [Next]_vars => [ValuesKept]_vars
  BY StepKeepsValues
<1> QED BY <1>1, TypeCorrect, PTL DEF Spec, RecordsKeepTheirValues
=============================================================================
