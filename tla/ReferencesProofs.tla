-------------------------- MODULE ReferencesProofs --------------------------
(***************************************************************************)
(* For every document and every pair of references: the files stay texts,  *)
(* a move that stops between its two writes has not lost the text it       *)
(* carries, what a write put can be read back, state-compare shows no more *)
(* than the write may do, and a move that completes is one edit.           *)
(***************************************************************************)
EXTENDS References, ZoneEditorProofs, FiniteSetTheorems, WellFoundedInduction

(***************************************************************************)
(* ClearedTextIsInUndo is inductive once it is known of a job which fields *)
(* it has: every write of a command other than a move ends the job, and    *)
(* the two endings of a move leave both files alone.                       *)
(***************************************************************************)
JobIsWhole ==
  job.phase = "cleared" =>
    job = [phase |-> "cleared", from |-> job.from, to |-> job.to, aim |-> job.aim,
           value |-> job.value, append |-> job.append, before |-> job.before]

TextIsSafe == JobIsWhole /\ ClearedTextIsInUndo

\* The first write of a move puts the text aside before it clears the source.
LEMMA ClearingKeepsTheText ==
  ASSUME NEW from, NEW to, NEW append, MoveClears(from, to, append)
  PROVE  TextIsSafe'
<1>1. /\ CanRead(doc, from) /\ undo' = doc
      /\ job' = [phase |-> "cleared", from |-> from, to |-> Adjusted(doc, from, to),
                 aim |-> to, value |-> ReadRef(doc, from), append |-> append,
                 before |-> doc]
  BY DEF MoveClears, Write, Job
<1>2. JobIsWhole' BY <1>1 DEF JobIsWhole
<1>3. ClearedTextIsInUndo' BY <1>1 DEF ClearedTextIsInUndo
<1> QED BY <1>2, <1>3 DEF TextIsSafe

\* A command that ends with nothing to do, or with its one write done.
LEMMA OtherJobsCarryNothing ==
  ASSUME job'.phase \in {"none", "done"}
  PROVE  TextIsSafe'
BY DEF TextIsSafe, JobIsWhole, ClearedTextIsInUndo

LEMMA StepKeepsTheText == TextIsSafe /\ [RefsNext]_refVars => TextIsSafe'
<1> SUFFICES ASSUME TextIsSafe, [RefsNext]_refVars PROVE TextIsSafe'
  OBVIOUS
<1>1. ASSUME NEW from \in Sources, NEW to \in Targets, NEW append \in BOOLEAN,
             RefCopy(from, to, append)
      PROVE  TextIsSafe'
  <2>1. job'.phase = "done" BY <1>1 DEF RefCopy, Job
  <2> QED BY <2>1, OtherJobsCarryNothing
<1>2. ASSUME NEW from \in Sources, NEW to \in Targets, NEW append \in BOOLEAN,
             MoveClears(from, to, append)
      PROVE  TextIsSafe'
  BY <1>2, ClearingKeepsTheText
<1>3. CASE MoveSets
  <2>1. job'.phase = "done" BY <1>3 DEF MoveSets, TextIsSafe, JobIsWhole
  <2> QED BY <2>1, OtherJobsCarryNothing
<1>4. CASE MoveFails \/ MoveDies
  <2>1. /\ job' = [job EXCEPT !.phase = "failed"] /\ job.phase = "cleared" /\ undo' = undo
    BY <1>4 DEF MoveFails, MoveDies
  <2>2. job'.phase = "failed" /\ job'.from = job.from /\ job'.value = job.value
    BY <2>1 DEF TextIsSafe, JobIsWhole
  <2>3. CanRead(undo, job.from) /\ ReadRef(undo, job.from) = job.value
    BY <2>1 DEF TextIsSafe, ClearedTextIsInUndo
  <2> QED BY <2>1, <2>2, <2>3 DEF TextIsSafe, JobIsWhole, ClearedTextIsInUndo
<1>5. CASE IndexZoneEdit
  BY <1>5, OtherJobsCarryNothing DEF IndexZoneEdit, NoJob
<1>6. ASSUME NEW other \in Layouts, NEW r \in Rec, NEW q \in Rec,
             NEW z \in ZoneIdx, NEW y \in ZoneIdx, IndexZoneTransfer(other, r, z, q, y)
      PROVE  TextIsSafe'
  BY <1>6, OtherJobsCarryNothing DEF IndexZoneTransfer, NoJob
<1>7. ASSUME NEW r \in Rec, NEW z \in ZoneIdx, NEW p \in Ranges, ZoneSet(r, z, p)
      PROVE  TextIsSafe'
  BY <1>7, OtherJobsCarryNothing DEF ZoneSet, NoJob
<1>8. CASE Undo
  BY <1>8, OtherJobsCarryNothing DEF Undo, NoJob
<1>9. CASE UNCHANGED refVars
  BY <1>9 DEF refVars, TextIsSafe, JobIsWhole, ClearedTextIsInUndo
<1> QED BY <1>1, <1>2, <1>3, <1>4, <1>5, <1>6, <1>7, <1>8, <1>9 DEF RefsNext

\* Wherever a move fails or dies, the text it has taken out of its source is what
\* the source reads in the .undo copy: undo brings it back.
THEOREM MovedTextIsNeverLost == RefsSpec => []ClearedTextIsInUndo
<1>1. RefsInit => TextIsSafe
  BY DEF RefsInit, NoJob, TextIsSafe, JobIsWhole, ClearedTextIsInUndo
<1>2. TextIsSafe => ClearedTextIsInUndo BY DEF TextIsSafe
<1> QED BY <1>1, <1>2, StepKeepsTheText, PTL DEF RefsSpec

(***************************************************************************)
(* Types.                                                                  *)
(***************************************************************************)
\* A text is a string of symbols; a pair of line numbers can be spelled in one, and
\* two texts put end to end are a text, which is what format! does to any two strings.
TextsJoin ==
  /\ \A p \in ZonePair : << p >> \in Text
  /\ \A x, y \in Text : x \o y \in Text
  /\ \A t \in Text : \E S : t \in Seq(S)

LEMMA SlicedType ==
  ASSUME NEW c \in Content, NEW p \in ZonePair, InFile(c, p)
  PROVE  Sliced(c, p) \in Content
<1> DEFINE ls == Lines(c)  m == p.start + 1  n == p.end + 1
<1>1. ls \in Seq(Line) /\ Len(ls) \in Nat
  BY LinesType
<1>2. m \in Nat \ {0} /\ n \in Nat /\ n <= Len(ls)
  BY <1>1 DEF InFile, ZonePair
<1> HIDE DEF ls, m, n
<1>3. \A i \in m .. n : ls[i] \in Line
  BY <1>1, <1>2, ElementOfSeq
<1>4. SubSeq(ls, m, n) \in Seq(Line)
  BY <1>1, <1>2, <1>3, SubSeqProperties
<1>5. Join(SubSeq(ls, m, n)) \in Content
  BY <1>4, JoinType
<1> QED BY <1>5 DEF Sliced, ls, m, n

LEMMA OneLineType == ASSUME NEW line \in Line PROVE << line >> \in Content
<1>1. << line >> \in Seq(Line) /\ Len(<< line >>) = 1
  OBVIOUS
<1> QED BY <1>1 DEF Content

LEMMA SpelledType == ASSUME TextsJoin, NEW p \in ZonePair PROVE << Spelled(p) >> \in Content
<1>1. Spelled(p) \in Line
  BY DEF TextsJoin, Spelled, TextLine, Line
<1> QED BY <1>1, OneLineType

\* The pair a zone reference stands for, also where there is no zone.
LEMMA ZoneNamedType ==
  ASSUME NEW c \in Content, NEW r \in Rec, NEW z \in ZoneIdx, HasRec(c, r)
  PROVE  ZoneAt(c, r, z) \in ZonePair
<1>1. NoZone \in ZonePair
  BY DEF NoZone, ZonePair
<1> QED BY <1>1, ZoneAtType

LEMMA NamedType ==
  ASSUME NEW c \in Content, NEW ref \in SourceRef, CanRead(c, ref),
         ref.kind \in {"zone", "zonehex", "lines"}
  PROVE  RangeNamed(c, ref) \in ZonePair
<1>1. CASE ref.kind = "lines"
  <2>1. ref.start \in Nat /\ ref.end \in Nat
    BY <1>1 DEF SourceRef, TargetRef
  <2> QED BY <1>1, <2>1 DEF RangeNamed, ZonePair
<1>2. CASE ref.kind \in {"zone", "zonehex"}
  <2>1. ref.rec \in Rec /\ ref.slot \in ZoneIdx
    BY <1>2 DEF SourceRef, TargetRef
  <2>2. HasRec(c, ref.rec)
    BY <1>2 DEF CanRead, Scanned, Readable
  <2> QED BY <1>2, <2>1, <2>2, ZoneNamedType DEF RangeNamed
<1> QED BY <1>1, <1>2

\* The values of the numeric line of a record that can be written.
LEMMA NumbersType ==
  ASSUME NEW c \in Content, NEW r, CanWriteRecord(c, r)
  PROVE  /\ NumbersOf(c, r) \in Line
         /\ NumbersOf(c, r).value \in [0 .. 8 -> Numerals]
<1>1. HasRec(c, r) /\ LineAt(c, AsciiLine(c, r) + 1).kind = "num"
  BY DEF CanWriteRecord, Readable
<1>2. LineAt(c, AsciiLine(c, r) + 1) \in Line
  BY <1>1, HeaderLineType, LineAtType DEF Content
<1>3. LineAt(c, AsciiLine(c, r) + 1).value \in Value
  BY <1>1, <1>2 DEF Line, Blank, Marker
<1> QED BY <1>2, <1>3, ReferenceAssumption DEF NumbersOf

LEMMA AggregateType ==
  ASSUME NEW c \in Content, NEW r \in Rec, HasRec(c, r),
         \A z \in ZoneIdx : LET p == ZoneAt(c, r, z)
                            IN  p = NoZone \/ (p.start <= p.end /\ p.end < Len(Lines(c)))
  PROVE  Aggregate(c, r) \in Content
<1> DEFINE zone(z) == IF ZoneAt(c, r, z) = NoZone THEN << >> ELSE Sliced(c, ZoneAt(c, r, z))
           front == [i \in 1 .. 6 |-> LineAt(c, HeaderLine(c, r) + i)]
<1>1. ASSUME NEW z \in ZoneIdx PROVE zone(z) \in Seq(Line)
  <2> DEFINE p == ZoneAt(c, r, z)
  <2>1. CASE p = NoZone
    BY <2>1
  <2>2. CASE p # NoZone
    <3>1. p \in ZonePair
      BY ZoneNamedType
    <3>2. p.start <= p.end /\ p.end < Len(Lines(c)) /\ Len(Lines(c)) \in Nat
      BY <2>2, LinesType
    <3>3. InFile(c, p)
      BY <3>1, <3>2 DEF InFile, ZonePair
    <3>4. Sliced(c, p) \in Content
      BY <3>1, <3>3, SlicedType
    <3> QED BY <2>2, <3>4 DEF Content
  <2> QED BY <2>1, <2>2
<1>2. front \in Seq(Line) /\ Len(front) = 6
  <2>1. \A i \in 1 .. 6 : LineAt(c, HeaderLine(c, r) + i) \in Line
    BY HeaderLineType, LineAtType DEF Content
  <2> QED BY <2>1
<1>3. zone(0) \in Seq(Line) /\ zone(1) \in Seq(Line) /\ zone(2) \in Seq(Line)
  BY <1>1 DEF ZoneIdx
<1>4. Aggregate(c, r) = front \o zone(0) \o zone(1) \o zone(2)
  BY DEF Aggregate
<1> HIDE DEF front, zone
<1>5. /\ front \o zone(0) \o zone(1) \o zone(2) \in Seq(Line)
      /\ Len(front \o zone(0) \o zone(1) \o zone(2)) =
           6 + Len(zone(0)) + Len(zone(1)) + Len(zone(2))
  <2> DEFINE z0 == zone(0)  z1 == zone(1)  z2 == zone(2)
  <2>1. z0 \in Seq(Line) /\ z1 \in Seq(Line) /\ z2 \in Seq(Line)
    BY <1>3
  <2> HIDE DEF z0, z1, z2
  <2>2. front \o z0 \in Seq(Line) /\ Len(front \o z0) = 6 + Len(z0)
    <3>1. front \o z0 \in Seq(Line) /\ Len(front \o z0) = Len(front) + Len(z0)
      BY <1>2, <2>1, ConcatProperties
    <3> QED BY <1>2, <3>1
  <2> DEFINE x == front \o z0
  <2>3. x \in Seq(Line) /\ Len(x) = 6 + Len(z0)
    BY <2>2
  <2> HIDE DEF x
  <2> DEFINE y == x \o z1
  <2>4. y \in Seq(Line) /\ Len(y) = Len(x) + Len(z1)
    BY <2>1, <2>3, ConcatProperties
  <2> HIDE DEF y
  <2>5. y \o z2 \in Seq(Line) /\ Len(y \o z2) = Len(y) + Len(z2)
    BY <2>1, <2>4, ConcatProperties
  <2>6. y \o z2 \in Seq(Line) /\ Len(y \o z2) = 6 + Len(z0) + Len(z1) + Len(z2)
    BY <2>3, <2>4, <2>5
  <2> QED BY <2>6 DEF x, y, z0, z1, z2
<1>6. Len(front \o zone(0) \o zone(1) \o zone(2)) # 0
  BY <1>3, <1>5, LenProperties
<1> QED BY <1>4, <1>5, <1>6 DEF Content

\* Whatever can be read is a value: one line or more.
LEMMA ReadType ==
  ASSUME TextsJoin, NEW c \in Content, NEW ref \in SourceRef, CanRead(c, ref)
  PROVE  ReadRef(c, ref) \in Content
<1>1. CASE ref.kind = "text"
  BY <1>1 DEF SourceRef, TargetRef, ReadRef
<1>2. CASE ref.kind = "index"
  <2>1. ref.rec \in Rec
    BY <1>2 DEF SourceRef, TargetRef
  <2>2. /\ HasRec(c, ref.rec)
        /\ \A z \in ZoneIdx : LET p == ZoneAt(c, ref.rec, z)
                              IN  p = NoZone \/ (p.start <= p.end /\ p.end < Len(Lines(c)))
    BY <1>2 DEF CanRead, Scanned, Readable
  <2>3. Aggregate(c, ref.rec) \in Content
    BY <2>1, <2>2, AggregateType
  <2> QED BY <1>2, <2>3 DEF ReadRef
<1>3. CASE ref.kind \in {"string", "number", "numbers", "hexline"}
  <2>1. /\ HasRec(c, ref.rec)
        /\ ref.kind # "hexline" => CanWriteRecord(c, ref.rec)
    BY <1>3 DEF CanRead, Scanned, Readable
  <2>2. \A i \in 0 .. 4 : LineAt(c, AsciiLine(c, ref.rec) + i) \in Line
    BY <2>1, HeaderLineType, LineAtType DEF Content
  <2>3. CASE ref.kind = "string"
    <3>1. ref.slot \in 1 .. 3
      BY <2>3 DEF SourceRef, TargetRef
    <3>2. ReadRef(c, ref) = << LineAt(c, AsciiLine(c, ref.rec) + 1 + ref.slot) >>
      BY <2>3, <3>1 DEF ReadRef, StringSlots
    <3>3. LineAt(c, AsciiLine(c, ref.rec) + 1 + ref.slot) \in Line
      BY <2>1, <3>1, HeaderLineType, LineAtType DEF Content
    <3> QED BY <3>2, <3>3, OneLineType
  <2>4. CASE ref.kind = "number"
    <3>1. ref.slot \in 0 .. 8
      BY <2>4 DEF SourceRef, TargetRef
    <3>2. LineAt(c, AsciiLine(c, ref.rec) + 1).value[ref.slot] \in Numerals
      BY <2>1, <2>4, <3>1, NumbersType DEF NumbersOf
    <3>3. TextLine(LineAt(c, AsciiLine(c, ref.rec) + 1).value[ref.slot]) \in Line
      BY <3>2, ReferenceAssumption DEF TextLine, Line
    <3> QED BY <2>4, <3>3, OneLineType DEF ReadRef
  <2>5. CASE ref.kind = "numbers"
    <3>1. NumbersOf(c, ref.rec) \in Line
      BY <2>1, <2>5, NumbersType
    <3> QED BY <2>5, <3>1, OneLineType DEF ReadRef, NumbersOf
  <2>6. CASE ref.kind = "hexline"
    <3>1. LineAt(c, AsciiLine(c, ref.rec)) \in Line
      BY <2>1, HeaderLineType, LineAtType DEF Content
    <3> QED BY <2>6, <3>1, OneLineType DEF ReadRef
  <2> QED BY <1>3, <2>3, <2>4, <2>5, <2>6
<1>4. CASE ref.kind \in {"zone", "lines"}
  <2> DEFINE p == RangeNamed(c, ref)
  <2>1. p \in ZonePair
    BY <1>4, NamedType
  <2>2. (ref.kind = "zone" /\ p = NoZone) \/ InFile(c, p)
    BY <1>4 DEF CanRead, Sliceable
  <2>3. Empty \in Content
    BY OneLineType DEF Empty, Line
  <2>4. ReadRef(c, ref) \in {Empty, Sliced(c, p)}
        /\ (~ (ref.kind = "zone" /\ p = NoZone) => ReadRef(c, ref) = Sliced(c, p))
    BY <1>4 DEF ReadRef
  <2> HIDE DEF p
  <2>5. InFile(c, p) => Sliced(c, p) \in Content
    BY <2>1, SlicedType
  <2>6. CASE ref.kind = "zone" /\ p = NoZone
    <3>1. ReadRef(c, ref) = Empty
      BY <2>6 DEF ReadRef, p
    <3> QED BY <2>3, <3>1
  <2> QED BY <2>2, <2>4, <2>5, <2>6
<1>5. CASE ref.kind = "zonehex"
  <2>1. << Spelled(RangeNamed(c, ref)) >> \in Content
    BY <1>5, NamedType, SpelledType
  <2> QED BY <1>5, <2>1 DEF ReadRef
<1>6. ref.kind \in {"text", "index", "string", "number", "numbers", "hexline",
                    "zone", "lines", "zonehex"}
  BY DEF SourceRef, TargetRef
<1> QED BY <1>1, <1>2, <1>3, <1>4, <1>5, <1>6

\* A line of text or nothing, the last of one value and the first of the next.
LEMMA SeamType ==
  ASSUME TextsJoin, NEW x \in Line, NEW y \in Line,
         x.kind \in {"text", "blank"}, y.kind \in {"text", "blank"}
  PROVE  (IF x = Blank THEN y ELSE IF y = Blank THEN x ELSE TextLine(x.text \o y.text)) \in Line
<1>1. CASE x = Blank \/ y = Blank
  BY <1>1
<1>2. CASE x # Blank /\ y # Blank
  <2>1. x.text \in Text /\ y.text \in Text
    BY <1>2 DEF Line, Blank, Marker
  <2>2. x.text \o y.text \in Text
    BY <2>1 DEF TextsJoin
  <2>3. TextLine(x.text \o y.text) \in Line
    BY <2>2 DEF TextLine, Line
  <2> QED BY <1>2, <2>3
<1> QED BY <1>1, <1>2

LEMMA FusedType ==
  ASSUME TextsJoin, NEW u \in Content, NEW v \in Content, CanFuse(u, v)
  PROVE  Fused(u, v) \in Content
<1> DEFINE x == u[Len(u)]
           y == v[1]
           seam == IF x = Blank THEN y ELSE IF y = Blank THEN x
                   ELSE TextLine(x.text \o y.text)
           front == SubSeq(u, 1, Len(u) - 1)
           mid  == << seam >>
           rest == Tail(v)
<1>1. u \in Seq(Line) /\ Len(u) \in Nat \ {0} /\ v \in Seq(Line) /\ Len(v) \in Nat \ {0}
  BY EmptySeq, LenProperties DEF Content
<1>2. x \in Line /\ y \in Line
  <2>1. Len(u) \in 1 .. Len(u) /\ 1 \in 1 .. Len(v)
    BY <1>1
  <2> QED BY <1>1, <2>1, ElementOfSeq
<1>3. x.kind \in {"text", "blank"} /\ y.kind \in {"text", "blank"}
  BY DEF CanFuse
<1>4. seam \in Line
  <2> HIDE DEF x, y
  <2> QED BY <1>2, <1>3, SeamType
<1>5. front \in Seq(Line) /\ Len(front) \in Nat
  <2>1. Len(u) - 1 \in 0 .. Len(u)
    BY <1>1
  <2>2. front \in Seq(Line)
    BY <1>1, <2>1, FirstLines
  <2> QED BY <2>2, LenProperties
<1>6. rest \in Seq(Line)
  <2>1. v # << >>
    BY DEF Content
  <2> QED BY <1>1, <2>1, HeadTailProperties
<1> HIDE DEF seam
<1>7. mid \in Seq(Line) /\ Len(mid) = 1
  BY <1>4
<1>8. Fused(u, v) = front \o mid \o rest
  BY DEF Fused, seam
<1> HIDE DEF front, mid, rest
<1>9. front \o mid \in Seq(Line) /\ Len(front \o mid) = Len(front) + 1
  <2>1. front \o mid \in Seq(Line) /\ Len(front \o mid) = Len(front) + Len(mid)
    BY <1>5, <1>7, ConcatProperties
  <2> QED BY <1>7, <2>1
<1> DEFINE z == front \o mid
<1>10. z \in Seq(Line) /\ Len(z) = Len(front) + 1
  BY <1>9
<1> HIDE DEF z
<1>11. z \o rest \in Seq(Line) /\ Len(z \o rest) = Len(z) + Len(rest) /\ Len(rest) \in Nat
  BY <1>6, <1>10, ConcatProperties, LenProperties
<1>12. z \o rest \in Content
  <2>1. Len(z \o rest) # 0
    BY <1>5, <1>10, <1>11
  <2>2. z \o rest # << >>
    BY <2>1
  <2> QED BY <1>11, <2>2 DEF Content
<1> QED BY <1>8, <1>12 DEF z

LEMMA IncomingType ==
  ASSUME TextsJoin, NEW c \in Content, NEW ref \in TargetRef, NEW v \in Content,
         NEW append \in BOOLEAN, CanSet(c, ref, v, append)
  PROVE  Incoming(c, ref, v, append) \in Content
<1>1. CASE append
  <2>1. CanRead(c, ref) /\ CanFuse(ReadRef(c, ref), v)
    BY <1>1 DEF CanSet
  <2>2. ref \in SourceRef
    BY DEF SourceRef
  <2>3. ReadRef(c, ref) \in Content
    BY <2>1, <2>2, ReadType
  <2>4. Fused(ReadRef(c, ref), v) \in Content
    BY <2>1, <2>3, FusedType
  <2> QED BY <2>4 DEF Incoming
<1>2. CASE ~ append
  BY <1>2 DEF Incoming
<1> QED BY <1>1, <1>2

\* What DecimalValue::parse accepts, and the line it stands on.
LEMMA NumeralType ==
  ASSUME NEW v, IsNumber(v)
  PROVE  Numeral(v) \in Numerals /\ IsNumeral(v, Numeral(v))
BY DEF IsNumber, Numeral

LEMMA NumeralStands ==
  ASSUME NEW v \in Seq(Line), Len(v) = 1, IsNumber(v)
  PROVE  v = << TextLine(Numeral(v)) >>
<1>1. PICK i \in 1 .. Len(v) : v[i] = TextLine(Numeral(v))
  BY NumeralType DEF IsNumeral
<1>2. i = 1
  BY <1>1
<1>3. v[1] = TextLine(Numeral(v))
  BY <1>1, <1>2
<1> QED BY <1>3

\* set_ref_value leaves a text, whatever the reference and the value.
LEMMA SetType ==
  ASSUME TextsJoin, NEW c \in Content, NEW ref \in TargetRef, NEW v \in Content,
         NEW append \in BOOLEAN, CanSet(c, ref, v, append)
  PROVE  SetRef(c, ref, v, append) \in Content
<1> DEFINE in == Incoming(c, ref, v, append)
           r  == ref.rec
           s  == ref.slot
           kind == ref.kind
           new  == Lines(in)
<1>1. in \in Content
  BY IncomingType
<1>2. in \in Seq(Line) /\ v \in Seq(Line) /\ Len(v) \in Nat \ {0} /\ v[1] \in Line
  <2>1. v \in Seq(Line) /\ Len(v) \in Nat \ {0}
    BY EmptySeq, LenProperties DEF Content
  <2>2. 1 \in 1 .. Len(v)
    BY <2>1
  <2> QED BY <1>1, <2>1, <2>2, ElementOfSeq DEF Content
<1>3. new \in Seq(Line)
  <2> HIDE DEF in
  <2> QED BY <1>1, LinesType
<1>4. ASSUME kind \in {"string", "number", "numbers", "zonehex"}
      PROVE  /\ r \in Rec /\ CanWriteRecord(c, r)
             /\ ZonesOf(c, r) \in Zones /\ NumbersOf(c, r) \in Line
             /\ NumbersOf(c, r).value \in [0 .. 8 -> Numerals]
             /\ StringSlots(c, r) \in [1 .. 3 -> Seq(Line)]
  <2>1. r \in Rec
    BY <1>4 DEF TargetRef
  <2>2. CanWriteRecord(c, r)
    BY <1>4 DEF CanSet
  <2>3. HasRec(c, r) /\ AsciiLine(c, r) \in Nat /\ IsHexWords(LineAt(c, AsciiLine(c, r)))
    BY <2>2, HeaderLineType DEF CanWriteRecord, Readable
  <2> HIDE DEF r
  <2> QED BY <2>1, <2>2, <2>3, ZonesThereType, NumbersType, StringSlotsType DEF ZonesOf
<1>5. CASE kind = "string"
  <2>1. s \in 1 .. 3
    BY <1>5 DEF TargetRef
  <2> DEFINE strings == [StringSlots(c, r) EXCEPT ![s] = in]
  <2>2. strings \in [1 .. 3 -> Seq(Line)]
    <3> HIDE DEF in, s, r
    <3> QED BY <1>2, <1>4, <1>5, <2>1
  <2>3. SetRef(c, ref, v, append) = RecordWritten(c, r, ZonesOf(c, r), NumbersOf(c, r), strings)
    BY <1>5 DEF SetRef
  <2> HIDE DEF strings, r
  <2> QED BY <1>4, <1>5, <2>2, <2>3, RecordWrittenType
<1>6. CASE kind = "number"
  <2>1. s \in 0 .. 8
    BY <1>6 DEF TargetRef
  <2>2. IsNumber(v)
    BY <1>6 DEF CanSet
  <2> DEFINE n == Numeral(v)
  <2>3. n \in Numerals
    BY <2>2, NumeralType
  <2> DEFINE num == NumLine([NumbersOf(c, r).value EXCEPT ![s] = Numeral(v)])
  <2>4. num \in Line
    <3>1. [NumbersOf(c, r).value EXCEPT ![s] = n] \in [0 .. 8 -> Numerals]
      <4> HIDE DEF r, s, n
      <4> QED BY <1>4, <1>6, <2>1, <2>3
    <3>2. [NumbersOf(c, r).value EXCEPT ![s] = n] \in Value
      BY <3>1, ReferenceAssumption
    <3>3. num = NumLine([NumbersOf(c, r).value EXCEPT ![s] = n])
      OBVIOUS
    <3> HIDE DEF num, n
    <3> QED BY <3>2, <3>3 DEF NumLine, Line
  <2>5. SetRef(c, ref, v, append) = RecordWritten(c, r, ZonesOf(c, r), num, StringSlots(c, r))
    BY <1>6 DEF SetRef
  <2> HIDE DEF num, r
  <2> QED BY <1>4, <1>6, <2>4, <2>5, RecordWrittenType
<1>7. CASE kind = "numbers"
  <2>1. SetRef(c, ref, v, append) = RecordWritten(c, r, ZonesOf(c, r), v[1], StringSlots(c, r))
    BY <1>7 DEF SetRef
  <2> HIDE DEF r
  <2> QED BY <1>2, <1>4, <1>7, <2>1, RecordWrittenType
<1>8. CASE kind = "hexline"
  <2>1. AsciiLine(c, r) \in Nat
    BY <1>8, HeaderLineType DEF CanSet, Scanned, Readable
  <2>2. SetRef(c, ref, v, append) = Splice(c, AsciiLine(c, r), AsciiLine(c, r), v)
    BY <1>8 DEF SetRef
  <2> HIDE DEF r
  <2> DEFINE a == AsciiLine(c, r)
  <2>3. a \in Nat /\ a \in Int /\ a >= -1
    BY <2>1
  <2> HIDE DEF a
  <2>4. Splice(c, a, a, v) \in Content
    BY <1>2, <2>3, SpliceType
  <2> QED BY <2>2, <2>4 DEF a
<1>9. CASE kind = "zone"
  <2>1. r \in Rec /\ s \in ZoneIdx
    BY <1>9 DEF TargetRef
  <2>2. AsciiLine(c, r) \in Int /\ CanReplace(c, AsciiLine(c, r), s, new)
    BY <1>9, HeaderLineType DEF CanSet, Scanned, Readable
  <2>3. SetRef(c, ref, v, append) = Replaced(c, AsciiLine(c, r), s, new)
    BY <1>9 DEF SetRef
  <2> HIDE DEF r, s, new
  <2> QED BY <1>3, <2>1, <2>2, <2>3, ReplacedType
<1>10. CASE kind = "zonehex"
  <2>1. s \in ZoneIdx /\ RangeSpelled(v) \in ZonePair
    BY <1>10 DEF TargetRef, CanSet, SpellsRange
  <2> DEFINE zs == [ZonesOf(c, r) EXCEPT ![s] = RangeSpelled(v)]
  <2>2. zs \in Zones
    <3> HIDE DEF r, s
    <3> QED BY <1>4, <1>10, <2>1 DEF Zones
  <2>3. SetRef(c, ref, v, append) = RecordWritten(c, r, zs, NumbersOf(c, r), StringSlots(c, r))
    BY <1>10 DEF SetRef
  <2> HIDE DEF zs, r
  <2> QED BY <1>4, <1>10, <2>2, <2>3, RecordWrittenType
<1>11. CASE kind = "lines"
  <2>1. ref.start \in Nat /\ ref.end \in Nat
    BY <1>11 DEF TargetRef
  <2>2. CanHexReplace(c, ref.start, ref.end, new)
    BY <1>11 DEF CanSet
  <2>3. SetRef(c, ref, v, append) = HexReplaced(c, ref.start, ref.end, new)
    BY <1>11 DEF SetRef
  <2> HIDE DEF new
  <2> QED BY <1>3, <2>1, <2>2, <2>3, HexReplacedType
<1>12. kind \in {"string", "number", "numbers", "hexline", "zone", "zonehex", "lines"}
  BY DEF TargetRef
<1> QED BY <1>5, <1>6, <1>7, <1>8, <1>9, <1>10, <1>11, <1>12

\* What an emptied source is set to.
LEMMA ClearedType == ASSUME TextsJoin, NEW ref PROVE Cleared(ref) \in Content
<1>1. << TextLine(ZeroNumeral) >> \in Content
  <2>1. TextLine(ZeroNumeral) \in Line
    BY ReferenceAssumption DEF TextLine, Line
  <2> QED BY <2>1, OneLineType
<1>2. << Spelled(NoZone) >> \in Content
  BY SpelledType DEF NoZone, ZonePair
<1>3. Empty \in Content
  BY OneLineType DEF Empty, Line
<1> QED BY <1>1, <1>2, <1>3 DEF Cleared

\* A literal target that moves up stays in the file: it began behind the source.
LEMMA AdjustedType ==
  ASSUME NEW c \in Content, NEW from \in SourceRef, NEW to \in TargetRef,
         CanRead(c, from), CanMove(c, from, to)
  PROVE  Adjusted(c, from, to) \in TargetRef /\ Adjusted(c, from, to).kind = to.kind
<1> DEFINE p == SourceRange(c, from)
           n == p.end - p.start + 1
<1>1. CASE p = NoZone \/ to.kind # "lines" \/ to.start <= p.end
  BY <1>1 DEF Adjusted
<1>2. CASE ~ (p = NoZone \/ to.kind # "lines" \/ to.start <= p.end)
  <2>1. Adjusted(c, from, to) = Literal(to.start - n, to.end - n)
    BY <1>2 DEF Adjusted
  <2>2. p.start \in Nat /\ p.end \in Nat
    <3>1. from.kind \in {"zone", "zonehex", "lines"} /\ p = RangeNamed(c, from)
      BY <1>2 DEF SourceRange
    <3>2. RangeNamed(c, from) \in ZonePair
      BY <3>1, NamedType
    <3> QED BY <3>1, <3>2 DEF ZonePair
  <2>3. to.start \in Nat /\ to.end \in Nat /\ to.kind = "lines"
    BY <1>2 DEF TargetRef
  <2>4. to.start <= to.end /\ p.start <= p.end
    BY <1>2 DEF CanMove
  <2>5. ~ (to.start <= p.end)
    BY <1>2
  <2> HIDE DEF p
  <2>6. to.start - n \in Nat /\ to.end - n \in Nat
    BY <2>2, <2>3, <2>4, <2>5
  <2>7. Literal(to.start - n, to.end - n) \in TargetRef
        /\ Literal(to.start - n, to.end - n).kind = "lines"
    <3> HIDE DEF n
    <3> QED BY <2>6 DEF Literal, TargetRef
  <2> QED BY <2>1, <2>3, <2>7
<1> QED BY <1>1, <1>2

\* The two files are texts, and a job that did something has all its fields.
JobSet ==
  [phase : Phases \ {"none"}, from : SourceRef, to : TargetRef, aim : TargetRef,
   value : Content, append : BOOLEAN, before : Content]

RefsWhole ==
  /\ doc \in Content /\ undo \in Content /\ commands \in 0 .. MaxCommands
  /\ \/ job = NoJob
     \/ job \in JobSet /\ job.to.kind = job.aim.kind

\* Another command is counted.
LEMMA CountType ==
  ASSUME commands \in 0 .. MaxCommands, SessionOpen, commands' = commands + 1
  PROVE  commands' \in 0 .. MaxCommands
BY EditorAssumption DEF SessionOpen

LEMMA WroteCounts ==
  ASSUME NEW ref, NEW v, NEW append, Wrote(ref, v, append)
  PROVE  commands' = commands + 1
BY DEF Wrote, Ran

\* zone-replace, zone-append and zone-copy, whoever calls them.
LEMMA ZoneEditText ==
  ASSUME RefsWhole, NEW cmd, NEW r \in Rec, NEW z \in ZoneIdx, HasRec(doc, r),
         NEW new \in Seq(Line), ZoneEdit(cmd, r, z, new), SessionOpen
  PROVE  doc' \in Content /\ commands' \in 0 .. MaxCommands
<1> DEFINE a == AsciiLine(doc, r)
<1>1. a \in Int /\ doc \in Content
  BY HeaderLineType DEF RefsWhole
<1>2. CanReplace(doc, a, z, new) /\ doc' = Replaced(doc, a, z, new)
  BY DEF ZoneEdit
<1>3. commands' = commands + 1
  BY DEF ZoneEdit, Ran
<1> HIDE DEF a
<1>4. doc' \in Content
  BY <1>1, <1>2, ReplacedType
<1> QED BY <1>3, <1>4, CountType DEF RefsWhole

LEMMA ReplaceOrCopyText ==
  ASSUME RefsWhole, NEW r \in Rec, NEW q \in Rec, NEW z \in ZoneIdx, NEW y \in ZoneIdx,
         (\E new \in Inputs : ZoneReplace(r, z, new)) \/ ZoneCopy(r, z, q, y)
  PROVE  doc' \in Content /\ commands' \in 0 .. MaxCommands
<1>1. ASSUME NEW new \in Inputs, ZoneReplace(r, z, new)
      PROVE  doc' \in Content /\ commands' \in 0 .. MaxCommands
  <2>1. new \in Seq(Line)
    BY EditorAssumption, ProseSeq
  <2> QED BY <1>1, <2>1, ZoneEditText DEF ZoneReplace
<1>2. CASE ZoneCopy(r, z, q, y)
  <2> DEFINE text == Extracted(doc, AsciiLine(doc, r), z)
  <2>1. HasRec(doc, r) /\ HasRec(doc, q) /\ CanExtract(doc, AsciiLine(doc, r), z)
        /\ SessionOpen /\ ZoneEdit("zone-copy", q, y, text)
    BY <1>2 DEF ZoneCopy
  <2>2. AsciiLine(doc, r) \in Int /\ doc \in Content
    BY <2>1, HeaderLineType DEF RefsWhole
  <2>3. text \in Seq(Line)
    BY <2>1, <2>2, ExtractedType
  <2> HIDE DEF text
  <2> QED BY <2>1, <2>3, ZoneEditText
<1> QED BY <1>1, <1>2

\* A job made by a command that read a value.
LEMMA JobType ==
  ASSUME NEW phase \in Phases \ {"none"}, NEW from \in SourceRef, NEW to \in TargetRef,
         NEW aim \in TargetRef, NEW value \in Content, NEW append \in BOOLEAN,
         doc \in Content, to.kind = aim.kind,
         job' = Job(phase, from, to, aim, value, append)
  PROVE  job' \in JobSet /\ job'.to.kind = job'.aim.kind
BY DEF Job, JobSet

LEMMA StepIsWhole == ASSUME TextsJoin PROVE RefsWhole /\ [RefsNext]_refVars => RefsWhole'
<1> SUFFICES ASSUME RefsWhole, [RefsNext]_refVars PROVE RefsWhole'
  OBVIOUS
<1>0. doc \in Content /\ undo \in Content /\ commands \in 0 .. MaxCommands
  BY DEF RefsWhole
<1>1. ASSUME NEW from \in Sources, NEW to \in Targets, NEW append \in BOOLEAN,
             RefCopy(from, to, append)
      PROVE  RefsWhole'
  <2> DEFINE v == ReadRef(doc, from)
  <2>1. /\ SessionOpen /\ CanRead(doc, from) /\ CanSet(doc, to, v, append)
        /\ Wrote(to, v, append) /\ undo' = doc /\ doc' = SetRef(doc, to, v, append)
        /\ job' = Job("done", from, to, to, v, append)
    BY <1>1 DEF RefCopy, Write
  <2>2. from \in SourceRef /\ to \in TargetRef
    BY ReferenceAssumption
  <2>3. v \in Content
    BY <1>0, <2>1, <2>2, ReadType
  <2> HIDE DEF v
  <2>4. doc' \in Content
    BY <1>0, <2>1, <2>2, <2>3, SetType
  <2>5. commands' \in 0 .. MaxCommands
    BY <1>0, <2>1, WroteCounts, CountType
  <2>6. "done" \in Phases \ {"none"}
    BY DEF Phases
  <2>7. job' \in JobSet /\ job'.to.kind = job'.aim.kind
    BY <1>0, <2>1, <2>2, <2>3, <2>6, JobType
  <2> QED BY <1>0, <2>1, <2>4, <2>5, <2>7 DEF RefsWhole
<1>2. ASSUME NEW from \in Sources, NEW to \in Targets, NEW append \in BOOLEAN,
             MoveClears(from, to, append)
      PROVE  RefsWhole'
  <2> DEFINE v == ReadRef(doc, from)
             none == Cleared(from)
             aim == Adjusted(doc, from, to)
  <2>1. /\ SessionOpen /\ CanRead(doc, from) /\ CanMove(doc, from, to)
        /\ from.kind \notin {"text", "index"}
        /\ CanSet(doc, from, none, FALSE) /\ Wrote(from, none, FALSE)
        /\ undo' = doc /\ doc' = SetRef(doc, from, none, FALSE)
        /\ job' = Job("cleared", from, aim, to, v, append)
    BY <1>2 DEF MoveClears, Write
  <2>2. from \in SourceRef /\ to \in TargetRef
    BY ReferenceAssumption
  <2>3. from \in TargetRef
    BY <2>1, <2>2 DEF SourceRef
  <2>4. v \in Content /\ none \in Content
    BY <1>0, <2>1, <2>2, ReadType, ClearedType
  <2>5. aim \in TargetRef /\ aim.kind = to.kind
    BY <1>0, <2>1, <2>2, AdjustedType
  <2> HIDE DEF v, none, aim
  <2>6. doc' \in Content
    BY <1>0, <2>1, <2>3, <2>4, SetType
  <2>7. commands' \in 0 .. MaxCommands
    BY <1>0, <2>1, WroteCounts, CountType
  <2>8. "cleared" \in Phases \ {"none"}
    BY DEF Phases
  <2>9. job' \in JobSet /\ job'.to.kind = job'.aim.kind
    BY <1>0, <2>1, <2>2, <2>4, <2>5, <2>8, JobType
  <2> QED BY <1>0, <2>1, <2>6, <2>7, <2>9 DEF RefsWhole
<1>3. ASSUME NEW phase \in {"done", "failed"}, job.phase = "cleared",
             job' = [job EXCEPT !.phase = phase]
      PROVE  job' \in JobSet /\ job'.to.kind = job'.aim.kind
  <2>1. job \in JobSet /\ job.to.kind = job.aim.kind
    BY <1>3 DEF RefsWhole, NoJob
  <2>2. phase \in Phases \ {"none"}
    BY DEF Phases
  <2> QED BY <1>3, <2>1, <2>2 DEF JobSet
<1>4. CASE MoveSets
  <2>1. /\ job.phase = "cleared" /\ job' = [job EXCEPT !.phase = "done"]
        /\ CanSet(doc, job.to, job.value, job.append) /\ undo' = doc
        /\ doc' = SetRef(doc, job.to, job.value, job.append) /\ commands' = commands
    BY <1>4 DEF MoveSets, Write
  <2>2. job \in JobSet
    BY <2>1 DEF RefsWhole, NoJob
  <2>3. job.to \in TargetRef /\ job.value \in Content /\ job.append \in BOOLEAN
    BY <2>2 DEF JobSet
  <2>4. doc' \in Content
    BY <1>0, <2>1, <2>3, SetType
  <2>5. job' \in JobSet /\ job'.to.kind = job'.aim.kind
    BY <1>3, <2>1
  <2> QED BY <1>0, <2>1, <2>4, <2>5 DEF RefsWhole
<1>5. CASE MoveFails \/ MoveDies
  <2>1. /\ job.phase = "cleared" /\ job' = [job EXCEPT !.phase = "failed"]
        /\ UNCHANGED << doc, last, commands, undo >>
    BY <1>5 DEF MoveFails, MoveDies
  <2>2. job' \in JobSet /\ job'.to.kind = job'.aim.kind
    BY <1>3, <2>1
  <2> QED BY <1>0, <2>1, <2>2 DEF RefsWhole
<1>6. CASE IndexZoneEdit
  <2>1. /\ \E r, q \in Rec, z, y \in ZoneIdx :
             (\E new \in Inputs : ZoneReplace(r, z, new)) \/ ZoneCopy(r, z, q, y)
        /\ undo' = doc /\ job' = NoJob
    BY <1>6 DEF IndexZoneEdit
  <2>2. doc' \in Content /\ commands' \in 0 .. MaxCommands
    BY <2>1, ReplaceOrCopyText
  <2> QED BY <1>0, <2>1, <2>2 DEF RefsWhole
<1>7. ASSUME NEW other \in Layouts, NEW r \in Rec, NEW q \in Rec,
             NEW z \in ZoneIdx, NEW y \in ZoneIdx, IndexZoneTransfer(other, r, z, q, y)
      PROVE  RefsWhole'
  <2> DEFINE text == Extracted(other, AsciiLine(other, r), z)
  <2>1. /\ SessionOpen /\ HasRec(other, r) /\ HasRec(doc, q)
        /\ CanExtract(other, AsciiLine(other, r), z)
        /\ ZoneEdit("zone-copy", q, y, text) /\ undo' = doc /\ job' = NoJob
    BY <1>7 DEF IndexZoneTransfer, Scanned, Readable
  <2>2. other \in Content
    BY EditorAssumption
  <2>3. AsciiLine(other, r) \in Int
    BY <2>1, <2>2, HeaderLineType
  <2>4. text \in Seq(Line)
    BY <2>1, <2>2, <2>3, ExtractedType
  <2> HIDE DEF text
  <2>5. doc' \in Content /\ commands' \in 0 .. MaxCommands
    BY <2>1, <2>4, ZoneEditText
  <2> QED BY <1>0, <2>1, <2>5 DEF RefsWhole
<1>8. ASSUME NEW r \in Rec, NEW z \in ZoneIdx, NEW p \in Ranges, ZoneSet(r, z, p)
      PROVE  RefsWhole'
  <2> DEFINE old == ZonesIn(LineAt(doc, AsciiLine(doc, r)))
             zs  == [old EXCEPT ![z] = p]
             num == LineAt(doc, AsciiLine(doc, r) + 1)
  <2>1. /\ SessionOpen /\ CanWriteRecord(doc, r) /\ undo' = doc /\ job' = NoJob
        /\ doc' = RecordWritten(doc, r, zs, num, StringSlots(doc, r))
        /\ commands' = commands + 1
    BY <1>8 DEF ZoneSet, SetZone, Ran
  <2>2. HasRec(doc, r) /\ AsciiLine(doc, r) \in Nat /\ IsHexWords(LineAt(doc, AsciiLine(doc, r)))
    BY <1>0, <2>1, HeaderLineType DEF CanWriteRecord, Readable
  <2>3. old \in Zones
    BY <1>0, <2>2, ZonesThereType
  <2>4. zs \in Zones
    BY <2>3, EditorAssumption DEF Zones
  <2>5. num \in Line
    BY <1>0, <2>2, LineAtType DEF Content
  <2>6. StringSlots(doc, r) \in [1 .. 3 -> Seq(Line)]
    BY <1>0, <2>2, StringSlotsType
  <2> HIDE DEF zs, num
  <2>7. doc' \in Content
    BY <1>0, <2>1, <2>4, <2>5, <2>6, RecordWrittenType
  <2>8. commands' \in 0 .. MaxCommands
    BY <1>0, <2>1, CountType
  <2> QED BY <1>0, <2>1, <2>7, <2>8 DEF RefsWhole
<1>9. CASE Undo
  BY <1>0, <1>9 DEF Undo, RefsWhole
<1>10. CASE UNCHANGED refVars
  BY <1>10 DEF refVars, RefsWhole
<1> QED BY <1>1, <1>2, <1>4, <1>5, <1>6, <1>7, <1>8, <1>9, <1>10 DEF RefsNext

LEMMA WholeAtFirst == RefsInit => RefsWhole
<1> SUFFICES ASSUME RefsInit PROVE RefsWhole
  OBVIOUS
<1>1. doc \in Content /\ commands = 0 /\ undo = doc /\ job = NoJob
  BY EditorAssumption DEF RefsInit, Init
<1>2. 0 \in 0 .. MaxCommands
  BY EditorAssumption
<1> QED BY <1>1, <1>2 DEF RefsWhole

\* Whatever a reference names and whatever value it is given, the document and its
\* .undo copy stay texts, and a copy or a move carries a value of one line or more
\* to a reference of the kind it was asked for (set_ref_value, clear_ref_value,
\* adjust_literal_target_after_source_clear: a target moved up stays a range).
THEOREM RefsTypeCorrect == ASSUME TextsJoin PROVE RefsSpec => []RefsTypeOK
<1>1. RefsInit => RefsWhole
  BY WholeAtFirst
<1>2. RefsWhole => RefsTypeOK
  <2> SUFFICES ASSUME RefsWhole PROVE RefsTypeOK
    OBVIOUS
  <2>1. CASE job = NoJob
    BY <2>1 DEF RefsWhole, RefsTypeOK, NoJob, Phases
  <2>2. CASE job \in JobSet /\ job.to.kind = job.aim.kind
    BY <2>2 DEF RefsWhole, RefsTypeOK, JobSet, Content
  <2> QED BY <2>1, <2>2 DEF RefsWhole
<1>3. RefsWhole /\ [RefsNext]_refVars => RefsWhole'
  BY StepIsWhole
<1> QED BY <1>1, <1>2, <1>3, PTL DEF RefsSpec

(***************************************************************************)
(* The readers of a file an edit has left, and what ref-set has written.   *)
(***************************************************************************)
\* In a file fast_scan_content accepts, with a line at or below the end of every
\* record, each record is read and has its numeric line.
LEMMA ProppedNumbers ==
  ASSUME NEW c \in Content, Scans(c), NEW s \in Int, NEW e \in Int, Propped(c, s, e)
  PROVE  /\ \A h \in Headers(c) : /\ h \in Nat /\ LineAt(c, h) = Marker
                                  /\ LineAt(c, h + 1).kind = "index" /\ h + 1 \notin Headers(c)
                                  /\ LineAt(c, h + 3).kind = "num"
         /\ \A q \in Rec : HasRec(c, q) => Readable(c, q)
<1>1. Loadable(c)
  BY DEF Scans
<1>2. ASSUME NEW q \in Rec, HasRec(c, q) PROVE Readable(c, q)
  <2>1. HeaderLine(c, q) \in Headers(c)
    BY <1>1, <1>2, TheRecord
  <2>2. HeaderLine(c, q) + 6 < Len(Lines(c))
    BY <1>1, <2>1, ProppedRecord
  <2> QED BY <1>2, <2>2 DEF Readable, String3Line
<1>3. ASSUME NEW h \in Headers(c)
      PROVE  /\ h \in Nat /\ LineAt(c, h) = Marker
             /\ LineAt(c, h + 1).kind = "index" /\ h + 1 \notin Headers(c)
             /\ LineAt(c, h + 3).kind = "num"
  <2>1. PICK q \in Rec : HasRec(c, q) /\ HeaderLine(c, q) = h
    BY <1>1, MarkersAreRecords
  <2>2. h \in Nat /\ LineAt(c, h) = Marker /\ LineAt(c, h + 1).kind = "index"
    BY <1>1, <2>1, TheRecord, HeaderInLines
  <2>3. h + 1 \notin Headers(c)
    BY <2>2, HeaderInLines DEF Marker
  <2>4. LineAt(c, AsciiLine(c, q) + 1).kind = "num"
    BY <1>2, <2>1 DEF Scans
  <2>5. AsciiLine(c, q) + 1 = h + 3
    BY <2>1, <2>2 DEF AsciiLine
  <2> QED BY <2>2, <2>3, <2>4, <2>5
<1> QED BY <1>2, <1>3

\* A file in which every record is found and has a numeric line is accepted, and no
\* record has come to it.
LEMMA FoundScans ==
  ASSUME NEW c \in Content, Loadable(c), NEW d \in Content, NEW f, Finds(c, d, f),
         \A h \in Headers(c) : LineAt(d, f[h] + 3).kind = "num"
  PROVE  /\ Scans(d)
         /\ \A q \in Rec : HasRec(d, q) => HasRec(c, q)
         /\ \A q \in Rec : HasRec(c, q) =>
              HasRec(d, q) /\ HeaderLine(d, q) = f[HeaderLine(c, q)] /\ Readable(d, q)
<1>1. /\ Loadable(d)
      /\ \A q \in Rec : HasRec(c, q) =>
           HasRec(d, q) /\ HeaderLine(d, q) = f[HeaderLine(c, q)] /\ Readable(d, q)
  BY FoundLoads
<1>2. ASSUME NEW q \in Rec, HasRec(d, q)
      PROVE  \E h \in Headers(c) : h \in HeadersOf(c, q) /\ HeaderLine(d, q) = f[h]
  <2>1. HeaderLine(d, q) \in Headers(d) /\ LineAt(d, HeaderLine(d, q) + 1) = IndexLine(q)
    BY <1>1, <1>2, TheRecord
  <2>2. PICK h \in Headers(c) : HeaderLine(d, q) = f[h]
    BY <2>1 DEF Finds
  <2>3. LineAt(c, h + 1) = IndexLine(q)
    BY <2>1, <2>2 DEF Finds
  <2> QED BY <2>2, <2>3 DEF HeadersOf
<1>3. \A q \in Rec : HasRec(d, q) => HasRec(c, q)
  BY <1>2 DEF HasRec
<1>4. ASSUME NEW q \in Rec, Readable(d, q) PROVE LineAt(d, AsciiLine(d, q) + 1).kind = "num"
  <2>1. PICK h \in Headers(c) : HeaderLine(d, q) = f[h]
    BY <1>2, <1>4 DEF Readable
  <2>2. f[h] \in Nat
    BY DEF Finds
  <2>3. AsciiLine(d, q) + 1 = f[h] + 3
    <3> DEFINE g == f[h]
    <3>1. g \in Nat /\ HeaderLine(d, q) = g
      BY <2>1, <2>2
    <3> HIDE DEF g
    <3>2. AsciiLine(d, q) + 1 = g + 3
      BY <3>1 DEF AsciiLine
    <3> QED BY <3>2 DEF g
  <2> QED BY <2>3
<1> QED BY <1>1, <1>3, <1>4 DEF Scans

\* So is a file after an edit that met no record.
LEMMA FollowsScans ==
  ASSUME NEW c \in Content, Scans(c), NEW s \in Int, NEW e \in Int, Propped(c, s, e),
         NEW d \in Content, NEW f, Follows(c, d, f)
  PROVE  /\ Scans(d)
         /\ \A q \in Rec : HasRec(d, q) => HasRec(c, q)
         /\ \A q \in Rec : HasRec(c, q) =>
              HasRec(d, q) /\ HeaderLine(d, q) = f[HeaderLine(c, q)] /\ Readable(d, q)
<1>1. Loadable(c) /\ Finds(c, d, f)
  BY DEF Scans, Follows
<1>2. ASSUME NEW h \in Headers(c) PROVE LineAt(d, f[h] + 3).kind = "num"
  <2>1. h \in Nat /\ h + 1 \notin Headers(c) /\ LineAt(c, h + 3).kind = "num"
    BY ProppedNumbers
  <2>2. 1 \in 1 .. 4
    OBVIOUS
  <2>3. f[h] \in Nat /\ LineAt(d, f[h] + 1 + 2) = LineAt(c, h + 1 + 2)
    BY <2>1, <2>2 DEF Follows, Finds
  <2>4. f[h] + 1 + 2 = f[h] + 3 /\ h + 1 + 2 = h + 3
    <3> DEFINE g == f[h]
    <3>1. g \in Nat
      BY <2>3
    <3> HIDE DEF g
    <3>2. g + 1 + 2 = g + 3 /\ h + 1 + 2 = h + 3
      BY <2>1, <3>1
    <3> QED BY <3>2 DEF g
  <2> QED BY <2>1, <2>3, <2>4
<1> QED BY <1>1, <1>2, FoundScans

\* Some of the six lines of the record at h were written again, the numeric line with
\* a numeric line, none with a marker, and below the fifth none with an empty line.
RewrittenAt(c, d, h, s, e) ==
  /\ \A n \in Int : n \notin h + 2 .. h + 6 => LineAt(d, n) = LineAt(c, n)
  /\ \A n \in h + 2 .. h + 6 : LineAt(d, n) # Marker
  /\ LineAt(d, h + 3).kind = "num"
  /\ \A n \in Nat : n > h + 5 /\ n \notin s .. e /\ LineAt(c, n) # Blank =>
                        LineAt(d, n) # Blank

\* And a file in which some of the six lines of one record were written again: its
\* numeric line with another one, none with a marker, and no line below the fifth
\* with an empty one (but those of the edit that Propped leaves out).
LEMMA RewrittenFinds ==
  ASSUME NEW c \in Content, Scans(c), NEW r \in Rec, HasRec(c, r), ~ Entangled(c, r),
         NEW s \in Int, NEW e \in Int, Propped(c, s, e), NEW d \in Content,
         NEW h, h = HeaderLine(c, r),
         RewrittenAt(c, d, h, s, e)
  PROVE  /\ Headers(d) = Headers(c)
         /\ Scans(d)
         /\ \A q \in Rec : HasRec(d, q) => HasRec(c, q)
         /\ \A q \in Rec : HasRec(c, q) =>
              HasRec(d, q) /\ HeaderLine(d, q) = HeaderLine(c, q) /\ Readable(d, q)
<1> USE DEF RewrittenAt
<1> DEFINE f == [g \in Headers(c) |-> g]
<1>1. Loadable(c)
  BY DEF Scans
<1>2. h \in Headers(c) /\ h \in Nat
  BY <1>1, TheRecord
<1>3. \A g \in Headers(c) : /\ g \in Nat /\ LineAt(c, g) = Marker
                            /\ LineAt(c, g + 1).kind = "index" /\ g + 1 \notin Headers(c)
                            /\ LineAt(c, g + 3).kind = "num"
  BY ProppedNumbers
<1>4. \A g \in Headers(c) : g \notin h + 1 .. h + 6
  BY DEF Entangled, String3Line
<1>5. Headers(d) = Headers(c)
  <2>1. ASSUME NEW n \in Int PROVE n \in Headers(d) <=> n \in Headers(c)
    <3>1. CASE n \in h + 2 .. h + 6
      <4>1. n \notin Headers(c)
        BY <1>2, <1>4, <3>1
      <4>2. n \notin Headers(d)
        BY <3>1, HeadersByReading
      <4> QED BY <4>1, <4>2
    <3>2. CASE n \notin h + 2 .. h + 6
      BY <3>2, HeadersByReading
    <3> QED BY <3>1, <3>2
  <2>2. (\A n \in Headers(d) : n \in Int) /\ (\A n \in Headers(c) : n \in Int)
    BY DEF Headers
  <2> QED BY <2>1, <2>2
<1>6. ASSUME NEW g \in Headers(c)
      PROVE  /\ g \in Nat
             /\ LineAt(d, g + 1) = LineAt(c, g + 1)
             /\ LineAt(d, g + 3).kind = "num"
             /\ \E m \in Nat : g + 6 <= m /\ LineAt(d, m) # Blank
  <2>1. g \in Nat /\ g \notin h + 1 .. h + 6 /\ LineAt(c, g + 3).kind = "num"
    BY <1>3, <1>4
  <2>2. LineAt(d, g + 1) = LineAt(c, g + 1)
    <3>1. g + 1 \notin h + 2 .. h + 6 /\ g + 1 \in Int
      BY <1>2, <2>1
    <3> QED BY <3>1
  <2>3. LineAt(d, g + 3).kind = "num"
    <3>1. CASE g = h
      BY <3>1
    <3>2. CASE g # h
      <4>1. h - 1 # g
        <5>1. h # g + 1
          BY <1>2, <1>3
        <5> QED BY <1>2, <2>1, <5>1
      <4>2. g + 3 \notin h + 2 .. h + 6 /\ g + 3 \in Int
        BY <1>2, <2>1, <3>2, <4>1
      <4> QED BY <2>1, <4>2
    <3> QED BY <3>1, <3>2
  <2>4. PICK k \in Headers(c) : k \in Nat /\ k >= h /\ k >= g
    <3>1. CASE g >= h
      BY <2>1, <3>1
    <3>2. CASE ~ (g >= h)
      BY <1>2, <2>1, <3>2
    <3> QED BY <3>1, <3>2
  <2>5. PICK n \in Nat : k + 6 <= n /\ (n < s \/ n > e) /\ LineAt(c, n) # Blank
    BY <1>1, ProppedRecord
  <2>6. n > h + 5 /\ n \notin s .. e /\ g + 6 <= n
    BY <1>2, <2>1, <2>4, <2>5
  <2>7. LineAt(d, n) # Blank
    BY <2>5, <2>6
  <2> QED BY <2>1, <2>2, <2>3, <2>6, <2>7
<1>7. Headers(d) = {f[g] : g \in Headers(c)} /\ \A g \in Headers(c) : f[g] = g
  BY <1>5
<1> HIDE DEF f
<1>8. Finds(c, d, f)
  BY <1>6, <1>7 DEF Finds
<1>9. \A g \in Headers(c) : LineAt(d, f[g] + 3).kind = "num"
  BY <1>6, <1>7
<1>10. /\ Scans(d)
       /\ \A q \in Rec : HasRec(d, q) => HasRec(c, q)
       /\ \A q \in Rec : HasRec(c, q) =>
            HasRec(d, q) /\ HeaderLine(d, q) = f[HeaderLine(c, q)] /\ Readable(d, q)
  BY <1>1, <1>8, <1>9, FoundScans
<1>11. \A q \in Rec : HasRec(c, q) => HeaderLine(c, q) \in Headers(c)
  BY <1>1, TheRecord
<1> QED BY <1>5, <1>7, <1>10, <1>11

\* The strings of a record that no other one begins in.
LEMMA OwnStrings ==
  ASSUME NEW c \in Content, NEW r \in Rec, HasRec(c, r), ~ Entangled(c, r)
  PROVE  /\ StringSlots(c, r) \in [1 .. 3 -> Seq(Line)]
         /\ \A i \in 1 .. 3 : /\ Len(StringSlots(c, r)[i]) = 1
                              /\ StringSlots(c, r)[i][1] = LineAt(c, HeaderLine(c, r) + 3 + i)
                              /\ StringSlots(c, r)[i][1] # Marker
<1>1. StringSlots(c, r) \in [1 .. 3 -> Seq(Line)] /\ HeaderLine(c, r) \in Nat
  BY StringSlotsType, HeaderLineType
<1> DEFINE h == HeaderLine(c, r)
<1>2. ASSUME NEW i \in 1 .. 3
      PROVE  /\ Len(StringSlots(c, r)[i]) = 1
             /\ StringSlots(c, r)[i][1] = LineAt(c, h + 3 + i)
             /\ StringSlots(c, r)[i][1] # Marker
  <2>1. StringSlots(c, r)[i] = << LineAt(c, AsciiLine(c, r) + 1 + i) >>
    BY DEF StringSlots
  <2>2. h \in Nat /\ AsciiLine(c, r) = h + 2
    BY <1>1 DEF AsciiLine
  <2>3. h + 3 + i \notin Headers(c)
    <3>1. String3Line(c, r) = h + 6
      BY DEF String3Line
    <3> HIDE DEF h
    <3>2. h + 3 + i \in h + 1 .. h + 6
      BY <2>2
    <3> QED BY <3>1, <3>2 DEF Entangled, h
  <2> HIDE DEF h
  <2>4. AsciiLine(c, r) + 1 + i = h + 3 + i /\ h + 3 + i \in Int
    BY <2>2
  <2>5. LineAt(c, h + 3 + i) # Marker
    BY <2>3, <2>4, HeadersByReading
  <2> QED BY <2>1, <2>4, <2>5
<1> QED BY <1>1, <1>2

\* The fields set_ref_value gives the record it writes.
SetZones(c, ref, v) ==
  IF ref.kind = "zonehex" THEN [ZonesOf(c, ref.rec) EXCEPT ![ref.slot] = RangeSpelled(v)]
  ELSE ZonesOf(c, ref.rec)
SetNumbers(c, ref, v) ==
  IF ref.kind = "number"
  THEN NumLine([NumbersOf(c, ref.rec).value EXCEPT ![ref.slot] = Numeral(v)])
  ELSE IF ref.kind = "numbers" THEN v[1] ELSE NumbersOf(c, ref.rec)
SetStrings(c, ref, in) ==
  IF ref.kind = "string" THEN [StringSlots(c, ref.rec) EXCEPT ![ref.slot] = in]
  ELSE StringSlots(c, ref.rec)

LEMMA RecordSet ==
  ASSUME TextsJoin, NEW c \in Content, NEW ref \in TargetRef, NEW v \in Content,
         NEW append \in BOOLEAN, CanSet(c, ref, v, append), NEW in,
         in = Incoming(c, ref, v, append),
         ref.kind \in {"string", "number", "numbers", "zonehex"},
         ref.kind = "string" => Len(in) = 1
  PROVE  /\ SetRef(c, ref, v, append) =
              RecordWritten(c, ref.rec, SetZones(c, ref, v), SetNumbers(c, ref, v),
                            SetStrings(c, ref, in))
         /\ SetZones(c, ref, v) \in Zones
         /\ SetNumbers(c, ref, v) \in Line /\ SetNumbers(c, ref, v).kind = "num"
         /\ SetStrings(c, ref, in) \in [1 .. 3 -> Seq(Line)]
         /\ \A i \in 1 .. 3 : Len(SetStrings(c, ref, in)[i]) = 1
<1> DEFINE r  == ref.rec
           s  == ref.slot
           kind == ref.kind
           zs == IF kind = "zonehex" THEN [ZonesOf(c, r) EXCEPT ![s] = RangeSpelled(v)]
                 ELSE ZonesOf(c, r)
           numbered == NumLine([NumbersOf(c, r).value EXCEPT ![s] = Numeral(v)])
           num == IF kind = "number" THEN numbered
                  ELSE IF kind = "numbers" THEN v[1] ELSE NumbersOf(c, r)
           strings == IF kind = "string" THEN [StringSlots(c, r) EXCEPT ![s] = in]
                      ELSE StringSlots(c, r)
<1>1. /\ r \in Rec /\ CanWriteRecord(c, r) /\ HasRec(c, r)
      /\ ZonesOf(c, r) \in Zones /\ NumbersOf(c, r) \in Line
      /\ NumbersOf(c, r).kind = "num"
      /\ NumbersOf(c, r).value \in [0 .. 8 -> Numerals]
      /\ StringSlots(c, r) \in [1 .. 3 -> Seq(Line)]
      /\ \A i \in 1 .. 3 : Len(StringSlots(c, r)[i]) = 1
  <2>1. r \in Rec /\ CanWriteRecord(c, r)
    BY DEF TargetRef, CanSet
  <2>2. HasRec(c, r) /\ IsHexWords(LineAt(c, AsciiLine(c, r))) /\ AsciiLine(c, r) \in Nat
        /\ NumbersOf(c, r).kind = "num"
    BY <2>1, HeaderLineType DEF CanWriteRecord, Readable, NumbersOf
  <2> HIDE DEF r
  <2>3. StringSlots(c, r) \in [1 .. 3 -> Seq(Line)]
    BY <2>2, StringSlotsType
  <2>4. \A i \in 1 .. 3 : Len(StringSlots(c, r)[i]) = 1
    BY DEF StringSlots
  <2> QED BY <2>1, <2>2, <2>3, <2>4, ZonesThereType, NumbersType DEF ZonesOf
<1>2. in \in Content /\ in \in Seq(Line)
  BY IncomingType DEF Content
<1>3. zs \in Zones
  <2>1. CASE kind = "zonehex"
    <3>1. s \in ZoneIdx /\ RangeSpelled(v) \in ZonePair
      BY <2>1 DEF TargetRef, CanSet, SpellsRange
    <3>2. zs = [ZonesOf(c, r) EXCEPT ![s] = RangeSpelled(v)]
      BY <2>1
    <3> HIDE DEF r, s, zs
    <3> QED BY <1>1, <3>1, <3>2 DEF Zones
  <2>2. CASE kind # "zonehex"
    BY <1>1, <2>2
  <2> QED BY <2>1, <2>2
<1>4. num \in Line /\ num.kind = "num"
  <2>1. CASE kind = "number"
    <3>1. s \in 0 .. 8 /\ IsNumber(v)
      BY <2>1 DEF TargetRef, CanSet
    <3> DEFINE n == Numeral(v)
    <3>3. n \in Numerals
      BY <3>1, NumeralType
    <3>4. [NumbersOf(c, r).value EXCEPT ![s] = n] \in [0 .. 8 -> Numerals]
      <4> HIDE DEF r, s, n
      <4> QED BY <1>1, <3>1, <3>3
    <3>5. [NumbersOf(c, r).value EXCEPT ![s] = n] \in Value
      BY <3>4, ReferenceAssumption
    <3>6. num = NumLine([NumbersOf(c, r).value EXCEPT ![s] = n])
      BY <2>1
    <3> HIDE DEF num, n
    <3> QED BY <3>5, <3>6 DEF NumLine, Line
  <2>2. CASE kind = "numbers"
    <3>1. in = v /\ Len(Lines(in)) = 1 /\ Lines(in)[1].kind = "num"
      BY <2>2 DEF CanSet, Incoming
    <3>2. 1 \in 1 .. Len(Lines(v)) /\ 1 \in 1 .. Len(v)
      BY <3>1, EmptySeq, LenProperties DEF Content
    <3>3. v[1].kind = "num" /\ v[1] \in Line
      BY <3>1, <3>2, LinesType, ElementOfSeq DEF Content
    <3> QED BY <2>2, <3>3
  <2>3. CASE kind \notin {"number", "numbers"}
    BY <1>1, <2>3
  <2> QED BY <2>1, <2>2, <2>3
<1>5. strings \in [1 .. 3 -> Seq(Line)] /\ \A i \in 1 .. 3 : Len(strings[i]) = 1
  <2>1. CASE kind = "string"
    <3>1. s \in 1 .. 3 /\ Len(in) = 1
      BY <2>1 DEF TargetRef
    <3>2. strings = [StringSlots(c, r) EXCEPT ![s] = in]
      BY <2>1
    <3> HIDE DEF strings, r, s
    <3> QED BY <1>1, <1>2, <3>1, <3>2
  <2>2. CASE kind # "string"
    BY <1>1, <2>2
  <2> QED BY <2>1, <2>2
<1>6. SetRef(c, ref, v, append) = RecordWritten(c, r, zs, num, strings)
  BY DEF SetRef
<1>7. zs = SetZones(c, ref, v) /\ num = SetNumbers(c, ref, v) /\ strings = SetStrings(c, ref, in)
  BY DEF SetZones, SetNumbers, SetStrings
<1> HIDE DEF zs, num, strings, numbered
<1> QED BY <1>3, <1>4, <1>5, <1>6, <1>7

\* Store::update_section_data on a record that no other one begins in: the file is
\* read as before, and the record holds what was written.
LEMMA FieldsWritten ==
  ASSUME NEW c \in Content, Scans(c), NEW r \in Rec, CanWriteRecord(c, r), ~ Entangled(c, r),
         NEW s \in Int, NEW e \in Int, Propped(c, s, e),
         NEW zs \in Zones, NEW num \in Line, num.kind = "num",
         NEW strings \in [1 .. 3 -> Seq(Line)],
         \A i \in 1 .. 3 : Len(strings[i]) = 1 /\ strings[i][1] # Marker,
         HeaderLine(c, r) + 6 \in s .. e \/ strings[3][1] # Blank,
         NEW d, d = RecordWritten(c, r, zs, num, strings)
  PROVE  /\ d \in Content /\ Headers(d) = Headers(c) /\ Scans(d)
         /\ \A q \in Rec : HasRec(d, q) => HasRec(c, q)
         /\ \A q \in Rec : HasRec(c, q) =>
              HasRec(d, q) /\ HeaderLine(d, q) = HeaderLine(c, q) /\ Readable(d, q)
         /\ \A n \in Int : LineAt(d, n) =
              IF n = HeaderLine(c, r) + 2 THEN HexLine(zs)
              ELSE IF n = HeaderLine(c, r) + 3 THEN num
              ELSE IF n \in HeaderLine(c, r) + 4 .. HeaderLine(c, r) + 6
                   THEN strings[n - (HeaderLine(c, r) + 3)][1]
              ELSE LineAt(c, n)
         /\ AsciiLine(d, r) \in Nat
         /\ LineAt(d, AsciiLine(d, r)) = HexLine(zs)
         /\ LineAt(d, AsciiLine(d, r) + 1) = num
         /\ StringSlots(d, r) = strings
         /\ strings[3][1] # Blank => CanWriteRecord(d, r)
<1> DEFINE h == HeaderLine(c, r)
<1>1. h \in Nat /\ HasRec(c, r)
  BY HeaderLineType DEF CanWriteRecord, Readable
<1>2. \A n \in Int : LineAt(d, n) = IF n = h + 2 THEN HexLine(zs)
                                    ELSE IF n = h + 3 THEN num
                                    ELSE IF n \in h + 4 .. h + 6 THEN strings[n - (h + 3)][1]
                                    ELSE LineAt(c, n)
  BY RecordWrittenReads
<1>3. d \in Content
  BY RecordWrittenType
<1> HIDE DEF h
<1>4. \A n \in Int : n \notin h + 2 .. h + 6 => LineAt(d, n) = LineAt(c, n)
  BY <1>1, <1>2
<1>5. ASSUME NEW n \in h + 2 .. h + 6 PROVE LineAt(d, n) # Marker
  <2>1. CASE n \in h + 4 .. h + 6
    <3>1. n - (h + 3) \in 1 .. 3 /\ n # h + 2 /\ n # h + 3 /\ n \in Int
      BY <1>1, <2>1
    <3> QED BY <1>2, <2>1, <3>1
  <2>2. CASE n = h + 2
    BY <1>1, <1>2, <2>2 DEF HexLine, Marker
  <2>3. CASE n = h + 3
    <3>1. LineAt(d, n) = num
      BY <1>1, <1>2, <2>3
    <3> QED BY <3>1 DEF Marker
  <2> QED BY <1>1, <2>1, <2>2, <2>3
<1>6. LineAt(d, h + 2) = HexLine(zs) /\ LineAt(d, h + 3) = num
      /\ \A i \in 1 .. 3 : LineAt(d, h + 3 + i) = strings[i][1]
  <2>1. LineAt(d, h + 2) = HexLine(zs) /\ LineAt(d, h + 3) = num
    BY <1>1, <1>2
  <2>2. ASSUME NEW i \in 1 .. 3 PROVE LineAt(d, h + 3 + i) = strings[i][1]
    <3>1. h + 3 + i \in h + 4 .. h + 6 /\ (h + 3 + i) - (h + 3) = i
          /\ h + 3 + i # h + 2 /\ h + 3 + i # h + 3 /\ h + 3 + i \in Int
      BY <1>1
    <3> QED BY <1>2, <3>1
  <2> QED BY <2>1, <2>2
<1>7. ASSUME NEW n \in Nat, n > h + 5, n \notin s .. e, LineAt(c, n) # Blank
      PROVE  LineAt(d, n) # Blank
  <2>1. CASE n = h + 6
    <3>1. h + 6 \notin s .. e
      BY <1>7, <2>1
    <3>2. strings[3][1] # Blank
      BY <3>1 DEF h
    <3>3. h + 3 + 3 = n /\ 3 \in 1 .. 3
      BY <1>1, <2>1
    <3>4. LineAt(d, h + 3 + 3) = strings[3][1]
      BY <1>6, <3>3
    <3> QED BY <3>2, <3>3, <3>4
  <2>2. CASE n # h + 6
    <3>1. n \notin h + 2 .. h + 6 /\ n \in Int
      BY <1>1, <1>7, <2>2
    <3> QED BY <1>4, <1>7, <3>1
  <2> QED BY <2>1, <2>2
<1>8. /\ Headers(d) = Headers(c) /\ Scans(d)
      /\ \A q \in Rec : HasRec(d, q) => HasRec(c, q)
      /\ \A q \in Rec : HasRec(c, q) =>
           HasRec(d, q) /\ HeaderLine(d, q) = HeaderLine(c, q) /\ Readable(d, q)
  <2>1. h = HeaderLine(c, r)
    BY DEF h
  <2>2. LineAt(d, h + 3).kind = "num"
    BY <1>6
  <2>3. RewrittenAt(c, d, h, s, e)
    BY <1>4, <1>5, <1>7, <2>2 DEF RewrittenAt
  <2> QED BY <1>1, <1>3, <2>1, <2>3, RewrittenFinds
<1>9. AsciiLine(d, r) = h + 2 /\ String3Line(d, r) = h + 6 /\ Readable(d, r)
  BY <1>1, <1>8 DEF AsciiLine, String3Line, h
<1>10. AsciiLine(d, r) \in Nat /\ LineAt(d, AsciiLine(d, r)) = HexLine(zs)
       /\ LineAt(d, AsciiLine(d, r) + 1) = num
  <2>1. (h + 2) + 1 = h + 3 /\ h + 2 \in Nat
    BY <1>1
  <2> QED BY <1>6, <1>9, <2>1
<1>11. StringSlots(d, r) = strings
  <2>1. ASSUME NEW i \in 1 .. 3 PROVE << LineAt(d, AsciiLine(d, r) + 1 + i) >> = strings[i]
    <3>1. AsciiLine(d, r) + 1 + i = h + 3 + i
      BY <1>1, <1>9
    <3>2. LineAt(d, AsciiLine(d, r) + 1 + i) = strings[i][1]
      BY <1>6, <3>1
    <3>3. strings[i] \in Seq(Line) /\ Len(strings[i]) = 1
      OBVIOUS
    <3>4. strings[i] = << strings[i][1] >>
      BY <3>3
    <3> QED BY <3>2, <3>4
  <2> QED BY <2>1 DEF StringSlots
<1>12. ASSUME strings[3][1] # Blank PROVE CanWriteRecord(d, r)
  <2>1. LineAt(d, String3Line(d, r)) # Blank
    <3>1. h + 3 + 3 = h + 6 /\ 3 \in 1 .. 3
      BY <1>1
    <3>2. LineAt(d, h + 3 + 3) = strings[3][1]
      BY <1>6, <3>1
    <3> QED BY <1>9, <1>12, <3>1, <3>2
  <2>2. IsHexWords(LineAt(d, AsciiLine(d, r))) /\ LineAt(d, AsciiLine(d, r) + 1).kind = "num"
    BY <1>10 DEF IsHexWords, HexLine
  <2> QED BY <1>8, <1>9, <2>1, <2>2 DEF CanWriteRecord, Scans
<1> QED BY <1>2, <1>3, <1>8, <1>10, <1>11, <1>12 DEF h

\* The lines line_range_text cuts out, one by one.
LEMMA SlicedLines ==
  ASSUME NEW c \in Content, NEW p, p.start \in Nat, p.end \in Nat, p.start <= p.end,
         p.end < Len(Lines(c))
  PROVE  /\ Sliceable(c, p)
         /\ Sliced(c, p) \in Seq(Line) /\ Len(Sliced(c, p)) = p.end - p.start + 1
         /\ \A i \in 1 .. p.end - p.start + 1 : Sliced(c, p)[i] = LineAt(c, p.start + i - 1)
<1> DEFINE ls == Lines(c)  s == p.start  e == p.end
           cut == SubSeq(ls, s + 1, e + 1)
<1>1. /\ ls \in Seq(Line) /\ Len(ls) \in Nat /\ \A i \in 1 .. Len(ls) : ls[i] = c[i]
      /\ Len(ls) \in {Len(c) - 1, Len(c)} /\ Len(c) \in Nat
  BY LinesType, LenProperties DEF Content
<1>2. s \in Nat /\ e \in Nat /\ s <= e /\ e < Len(ls)
  OBVIOUS
<1>3. Sliceable(c, p)
  BY <1>1 DEF Sliceable, InFile, Panics
<1>4. Sliced(c, p) = Join(cut)
  BY DEF Sliced
<1> HIDE DEF ls, s, e
<1>5. /\ s + 1 \in Int /\ e + 1 \in Int /\ s + 1 <= e + 1 /\ (e + 1) - (s + 1) + 1 = e - s + 1
      /\ s + 1 .. e + 1 \subseteq 1 .. Len(ls) /\ e - s + 1 \in Nat \ {0}
  BY <1>1, <1>2
<1>6. \A i \in s + 1 .. e + 1 : ls[i] \in Line
  BY <1>1, <1>5, ElementOfSeq
<1>7. /\ cut \in Seq(Line)
      /\ Len(cut) = IF s + 1 <= e + 1 THEN (e + 1) - (s + 1) + 1 ELSE 0
      /\ \A i \in 1 .. (e + 1) - (s + 1) + 1 : cut[i] = ls[s + 1 + i - 1]
  BY <1>5, <1>6, SubSeqProperties
<1>8. /\ Len(cut) = e - s + 1
      /\ \A i \in 1 .. e - s + 1 : cut[i] = ls[s + 1 + i - 1]
  BY <1>5, <1>7
<1> HIDE DEF cut
<1>9. cut # << >>
  BY <1>5, <1>7, <1>8, EmptySeq
<1>10. Sliced(c, p) = cut
  BY <1>4, <1>9 DEF Join
<1>11. ASSUME NEW i \in 1 .. e - s + 1 PROVE cut[i] = LineAt(c, s + i - 1)
  <2>1. /\ s + 1 + i - 1 \in 1 .. Len(ls) /\ s + i - 1 \in 0 .. Len(c) - 1
        /\ (s + i - 1) + 1 = s + 1 + i - 1
    BY <1>1, <1>2
  <2>2. cut[i] = c[s + 1 + i - 1]
    BY <1>1, <1>8, <2>1
  <2> QED BY <2>1, <2>2 DEF LineAt
<1> QED BY <1>3, <1>7, <1>8, <1>10, <1>11 DEF s, e

\* The same of a range of n lines.
Within(c, p, n) ==
  /\ p.start \in Nat /\ p.end \in Nat /\ p.start <= p.end /\ p.end < Len(Lines(c))
  /\ n = p.end - p.start + 1
IsCut(c, p, n) ==
  /\ Sliceable(c, p) /\ Sliced(c, p) \in Seq(Line) /\ Len(Sliced(c, p)) = n
  /\ \A i \in 1 .. n : Sliced(c, p)[i] = LineAt(c, p.start + i - 1)

LEMMA WithinIsCut ==
  ASSUME NEW c \in Content, NEW p, NEW n, Within(c, p, n)
  PROVE  IsCut(c, p, n)
<1>1. p.start \in Nat /\ p.end \in Nat /\ p.start <= p.end /\ p.end < Len(Lines(c))
  BY DEF Within
<1>2. n = p.end - p.start + 1
  BY DEF Within
<1>3. /\ Sliceable(c, p) /\ Sliced(c, p) \in Seq(Line) /\ Len(Sliced(c, p)) = p.end - p.start + 1
      /\ \A i \in 1 .. p.end - p.start + 1 : Sliced(c, p)[i] = LineAt(c, p.start + i - 1)
  BY <1>1, SlicedLines
<1> QED BY <1>2, <1>3 DEF IsCut

\* A value of whole lines does not end in an empty one.
LEMMA WholeLines ==
  ASSUME NEW v \in Content, Lines(v) = v
  PROVE  v \in Seq(Line) /\ Len(v) \in Nat \ {0} /\ v[Len(v)] # Blank
<1>1. v \in Seq(Line) /\ Len(v) \in Nat \ {0}
  BY EmptySeq DEF Content
<1>2. ASSUME v[Len(v)] = Blank PROVE FALSE
  <2>1. Lines(v) = SubSeq(v, 1, Len(v) - 1) /\ Len(v) - 1 \in 0 .. Len(v)
    BY <1>1, <1>2 DEF Lines
  <2>2. Len(SubSeq(v, 1, Len(v) - 1)) = Len(v) - 1
    BY <1>1, <2>1, FirstLines
  <2> QED BY <1>1, <2>1, <2>2
<1> QED BY <1>1, <1>2

\* Where such a value stands in a file, it is read as it is.
LEMMA SlicedReads ==
  ASSUME NEW d \in Content, NEW v \in Content, Lines(v) = v, NEW s \in Nat,
         \A i \in 0 .. Len(v) - 1 : LineAt(d, s + i) = v[i + 1],
         NEW p, p = [start |-> s, end |-> s + Len(v) - 1]
  PROVE  p.start <= p.end /\ Sliceable(d, p) /\ Sliced(d, p) = v
<1> DEFINE n == Len(v)
<1>1. v \in Seq(Line) /\ n \in Nat \ {0} /\ v[n] # Blank
  BY WholeLines
<1>2. \A i \in 0 .. n - 1 : LineAt(d, s + i) = v[i + 1]
  OBVIOUS
<1>3. p.start = s /\ p.end = s + n - 1
  OBVIOUS
<1>4. n = Len(v)
  OBVIOUS
<1> HIDE DEF n
<1>5. s + n - 1 < Len(Lines(d))
  <2>1. n - 1 \in 0 .. n - 1 /\ (n - 1) + 1 = n /\ s + (n - 1) = s + n - 1 /\ s + n - 1 \in Nat
    BY <1>1
  <2>2. LineAt(d, s + (n - 1)) = v[(n - 1) + 1]
    BY <1>2, <2>1
  <2> QED BY <1>1, <2>1, <2>2, WrittenLineCounts
<1>6. p.start \in Nat /\ p.end \in Nat /\ p.start <= p.end /\ p.end < Len(Lines(d))
      /\ p.end - p.start + 1 = n
  BY <1>1, <1>3, <1>5
<1>7. /\ Sliceable(d, p) /\ Sliced(d, p) \in Seq(Line) /\ Len(Sliced(d, p)) = n
      /\ \A i \in 1 .. n : Sliced(d, p)[i] = LineAt(d, p.start + i - 1)
  <2>1. Within(d, p, n)
    BY <1>6 DEF Within
  <2> QED BY <2>1, WithinIsCut DEF IsCut
<1>8. ASSUME NEW i \in 1 .. n PROVE Sliced(d, p)[i] = v[i]
  <2>1. i - 1 \in 0 .. n - 1 /\ s + (i - 1) = p.start + i - 1 /\ (i - 1) + 1 = i
    BY <1>1, <1>3
  <2>2. LineAt(d, s + (i - 1)) = v[(i - 1) + 1]
    BY <1>2, <2>1
  <2> QED BY <1>7, <2>1, <2>2
<1>9. Sliced(d, p) = v
  BY <1>1, <1>4, <1>7, <1>8, SeqEqual
<1> QED BY <1>6, <1>7, <1>9

\* One line written over another.
LEMMA OneLineSpliced ==
  ASSUME NEW c \in Content, NEW a \in Nat, a < Len(Lines(c)), NEW v \in Seq(Line),
         Len(v) = 1, NEW n \in Int
  PROVE  LineAt(Splice(c, a, a, v), n) = IF n = a THEN v[1] ELSE LineAt(c, n)
<1> DEFINE d == Splice(c, a, a, v)
<1>0. a \in Int /\ a >= -1 /\ a <= a + 1 /\ a < Len(Lines(c))
  OBVIOUS
<1>1. /\ \A m \in 0 .. a - 1 : LineAt(d, m) = LineAt(c, m)
      /\ \A m \in 0 .. Len(v) - 1 : LineAt(d, a + m) = v[m + 1]
      /\ \A m \in Int : m > a => LineAt(d, m + (Len(v) - (a - a + 1))) = LineAt(c, m)
  BY <1>0, SpliceReads
<1> HIDE DEF d
<1>2. Len(v) - (a - a + 1) = 0 /\ Len(v) - 1 = 0 /\ 0 \in 0 .. 0 /\ a + 0 = a /\ 0 + 1 = 1
      /\ \A m \in Int : m + 0 = m
  OBVIOUS
<1>3. CASE n = a
  BY <1>1, <1>2, <1>3 DEF d
<1>4. CASE n > a
  BY <1>1, <1>2, <1>4 DEF d
<1>5. CASE n \in 0 .. a - 1
  BY <1>1, <1>5 DEF d
<1>6. CASE n < 0
  <2>1. n \notin 0 .. Len(d) - 1 /\ n \notin 0 .. Len(c) - 1 /\ n # a
    BY <1>6
  <2> QED BY <2>1 DEF LineAt, d
<1> QED BY <1>3, <1>4, <1>5, <1>6

\* A reference to the hex-words of a record writes that one line.
LEMMA HexLineWritten ==
  ASSUME NEW c \in Content, Scans(c), NEW r \in Rec, Readable(c, r), ~ Entangled(c, r),
         NEW s \in Int, NEW e \in Int, Propped(c, s, e),
         NEW v \in Seq(Line), Len(v) = 1, v[1] # Marker,
         NEW d, d = Splice(c, AsciiLine(c, r), AsciiLine(c, r), v)
  PROVE  /\ d \in Content /\ Headers(d) = Headers(c) /\ Scans(d)
         /\ \A q \in Rec : HasRec(d, q) => HasRec(c, q)
         /\ \A q \in Rec : HasRec(c, q) =>
              HasRec(d, q) /\ HeaderLine(d, q) = HeaderLine(c, q) /\ Readable(d, q)
         /\ \A n \in Int : LineAt(d, n) = IF n = AsciiLine(c, r) THEN v[1] ELSE LineAt(c, n)
<1> DEFINE a == AsciiLine(c, r)
           h == HeaderLine(c, r)
<1>1. HasRec(c, r) /\ h \in Nat /\ h + 6 < Len(Lines(c)) /\ h \in Headers(c)
  BY TheRecord DEF Readable, String3Line, Scans
<1>2. a = h + 2 /\ a \in Nat
  BY <1>1 DEF AsciiLine
<1>3. h = HeaderLine(c, r)
  OBVIOUS
<1> HIDE DEF h
<1>4. a < Len(Lines(c)) /\ a \in Int /\ a >= -1
  BY <1>1, <1>2, LinesType
<1>5. d = Splice(c, a, a, v)
  OBVIOUS
<1> HIDE DEF a
<1>6. d \in Content
  BY <1>2, <1>4, <1>5, SpliceType
<1>7. \A n \in Int : LineAt(d, n) = IF n = a THEN v[1] ELSE LineAt(c, n)
  BY <1>2, <1>4, <1>5, OneLineSpliced
<1>8. \A n \in Int : n \notin h + 2 .. h + 6 => LineAt(d, n) = LineAt(c, n)
  BY <1>1, <1>2, <1>7
<1>9. ASSUME NEW n \in h + 2 .. h + 6 PROVE LineAt(d, n) # Marker
  <2>1. n \in Int /\ n \notin Headers(c)
    <3>1. n \in h + 1 .. h + 6 /\ n \in Int
      BY <1>1
    <3> QED BY <1>3, <3>1 DEF Entangled, String3Line
  <2>2. LineAt(c, n) # Marker
    BY <2>1, HeadersByReading
  <2> QED BY <1>7, <2>1, <2>2
<1>10. LineAt(d, h + 3).kind = "num"
  <2>1. h + 3 # a /\ h + 3 \in Int /\ LineAt(c, h + 3).kind = "num"
    BY <1>1, <1>2, ProppedNumbers
  <2> QED BY <1>7, <2>1
<1>11. \A n \in Nat : n > h + 5 /\ n \notin s .. e /\ LineAt(c, n) # Blank =>
                         LineAt(d, n) # Blank
  BY <1>1, <1>2, <1>7
<1>12. /\ Headers(d) = Headers(c) /\ Scans(d)
       /\ \A q \in Rec : HasRec(d, q) => HasRec(c, q)
       /\ \A q \in Rec : HasRec(c, q) =>
            HasRec(d, q) /\ HeaderLine(d, q) = HeaderLine(c, q) /\ Readable(d, q)
  <2>1. RewrittenAt(c, d, h, s, e)
    BY <1>8, <1>9, <1>10, <1>11 DEF RewrittenAt
  <2> QED BY <1>1, <1>3, <1>6, <2>1, RewrittenFinds
<1> QED BY <1>6, <1>7, <1>12 DEF a

\* hex-replace: the spliced and shifted text, but for the records whose shifted
\* hex-words name the lines replaced.
LEMMA HexReplacedReads ==
  ASSUME NEW c \in Content, NEW s \in Nat, NEW e \in Nat, NEW new \in Seq(Line),
         CanHexReplace(c, s, e, new), NEW n \in Int
  PROVE  \/ LineAt(HexReplaced(c, s, e, new), n) = LineAt(SpliceAndShift(c, s, e, new), n)
         \/ /\ n \in Nat /\ n - 2 \in Headers(SpliceAndShift(c, s, e, new))
            /\ IsHexWords(LineAt(SpliceAndShift(c, s, e, new), n))
            /\ \E z \in ZoneIdx :
                 ZoneHere(SpliceAndShift(c, s, e, new), n, z) = [start |-> s, end |-> e]
            /\ LineAt(HexReplaced(c, s, e, new), n) =
                 HexLine([z \in ZoneIdx |->
                            IF ZoneHere(SpliceAndShift(c, s, e, new), n, z)
                                 = [start |-> s, end |-> e]
                            THEN Extent(s, Len(new))
                            ELSE ZoneHere(SpliceAndShift(c, s, e, new), n, z)])
<1> DEFINE d     == SpliceAndShift(c, s, e, new)
           here  == [start |-> s, end |-> e]
           exact == {a \in 0 .. Len(Lines(d)) - 1 :
                       /\ a - 2 \in Headers(d)
                       /\ \E z \in ZoneIdx : ZoneHere(d, a, z) = here}
           resized(zs) == [z \in ZoneIdx |-> IF zs[z] = here THEN Extent(s, Len(new)) ELSE zs[z]]
           lines == [a \in exact |-> HexLine(resized(ZonesIn(LineAt(d, a))))]
           out   == HexReplaced(c, s, e, new)
<1>1. Len(new) \in Nat /\ d \in Content
  BY LenProperties, SpliceAndShiftType
<1>3. Len(Lines(d)) \in Nat
  <2> HIDE DEF d
  <2> QED BY <1>1, LinesType
<1>4. ASSUME NEW a \in exact
      PROVE  /\ a \in Nat /\ a - 2 \in Headers(d) /\ IsHexWords(LineAt(d, a))
             /\ \E z \in ZoneIdx : ZoneHere(d, a, z) = here
             /\ lines[a] = HexLine(resized(ZonesIn(LineAt(d, a)))) /\ lines[a] \in Line
  <2>1. a \in Nat /\ a - 2 \in Headers(d) /\ (a - 2) + 2 = a /\ a < Len(Lines(d))
    BY <1>3
  <2>2. IsHexWords(LineAt(d, a))
    BY <2>1 DEF CanHexReplace
  <2>3. ZonesIn(LineAt(d, a)) \in Zones
    BY <1>1, <2>1, <2>2, ZonesThereType
  <2>4. Extent(s, Len(new)) \in ZonePair
    BY <1>1, ExtentType
  <2>5. resized(ZonesIn(LineAt(d, a))) \in Zones
    BY <2>3, <2>4 DEF Zones
  <2>6. lines[a] = HexLine(resized(ZonesIn(LineAt(d, a))))
    OBVIOUS
  <2>7. \E z \in ZoneIdx : ZoneHere(d, a, z) = here
    OBVIOUS
  <2> HIDE DEF lines, resized, exact, d, here
  <2> QED BY <2>1, <2>2, <2>5, <2>6, <2>7, HexLineType
<1>5. out = IF exact = {} THEN d ELSE UpdateLines(d, exact, lines)
  BY DEF HexReplaced
<1>6. \A a : resized(ZonesIn(LineAt(d, a))) =
        [z \in ZoneIdx |-> IF ZoneHere(d, a, z) = here THEN Extent(s, Len(new))
                           ELSE ZoneHere(d, a, z)]
  BY DEF ZoneHere
<1> HIDE DEF d, lines, exact, out, resized
<1>7. CASE exact = {} \/ n \notin exact
  <2>1. LineAt(out, n) = LineAt(d, n)
    <3>1. CASE exact = {}
      BY <1>5, <3>1
    <3>2. CASE exact # {}
      <4>1. \A a \in exact : lines[a] \in Line
        BY <1>4
      <4>2. LineAt(UpdateLines(d, exact, lines), n) =
              IF n \in exact /\ n \in 0 .. Len(Lines(d)) - 1 THEN lines[n] ELSE LineAt(d, n)
        BY <1>1, <4>1, UpdateLinesReads
      <4> QED BY <1>5, <1>7, <3>2, <4>2
    <3> QED BY <3>1, <3>2
  <2> QED BY <2>1 DEF d, out
<1>8. CASE n \in exact
  <2>1. \A a \in exact : lines[a] \in Line
    BY <1>4
  <2>2. LineAt(UpdateLines(d, exact, lines), n) =
          IF n \in exact /\ n \in 0 .. Len(Lines(d)) - 1 THEN lines[n] ELSE LineAt(d, n)
    BY <1>1, <2>1, UpdateLinesReads
  <2>3. LineAt(out, n) = LineAt(d, n) \/ LineAt(out, n) = lines[n]
    BY <1>5, <1>8, <2>2
  <2>4. n \in Nat /\ n - 2 \in Headers(d) /\ IsHexWords(LineAt(d, n))
        /\ (\E z \in ZoneIdx : ZoneHere(d, n, z) = here)
        /\ lines[n] = HexLine(resized(ZonesIn(LineAt(d, n))))
    BY <1>4, <1>8
  <2> QED BY <1>6, <2>3, <2>4 DEF d, out
<1> QED BY <1>7, <1>8
(***************************************************************************)
(* What set_ref_value writes, get_ref_value reads: one lemma for each kind *)
(* of target.                                                              *)
(***************************************************************************)
\* A value of one line.
LEMMA OneLine == ASSUME NEW v \in Seq(Line), Len(v) = 1 PROVE v = << v[1] >> /\ v[1] \in Line
<1>1. v[1] \in Line
  BY ElementOfSeq
<1> QED BY <1>1

\* Nothing is appended, the value is written as it came.
LEMMA NothingAppended == ASSUME NEW c, NEW ref, NEW v PROVE Incoming(c, ref, v, FALSE) = v
BY DEF Incoming

\* A pair of coordinates is what Spelled writes of it.
LEMMA PairStands ==
  ASSUME TextsJoin, NEW v \in Seq(Line), SpellsRange(v)
  PROVE  v = << Spelled(RangeSpelled(v)) >>
<1>1. Len(v) = 1 /\ v[1].kind = "text" /\ Len(v[1].text) = 1
  BY DEF SpellsRange
<1>2. v = << v[1] >> /\ v[1] \in Line
  BY <1>1, OneLine
<1>3. v[1] = TextLine(v[1].text) /\ v[1].text \in Text
  BY <1>1, <1>2 DEF Line, TextLine, Blank, Marker
<1>4. v[1].text = << v[1].text[1] >>
  <2> DEFINE t == v[1].text
  <2>1. t \in Text /\ Len(t) = 1
    BY <1>1, <1>3
  <2> HIDE DEF t
  <2>2. PICK S : t \in Seq(S)
    BY <2>1 DEF TextsJoin
  <2>3. t = << t[1] >>
    BY <2>1, <2>2
  <2> QED BY <2>3 DEF t
<1> QED BY <1>2, <1>3, <1>4 DEF Spelled, RangeSpelled

\* A string, a number, the numbers or the coordinates of a zone.
LEMMA FieldReadsBack ==
  ASSUME TextsJoin, NEW c \in Content, NEW ref \in TargetRef, NEW v \in Content,
         CanSet(c, ref, v, FALSE), Lines(v) = v,
         ref.kind \in {"string", "number", "numbers", "zonehex"},
         ref.kind = "string" => Len(v) = 1 /\ v[1] # Marker,
         ref.kind = "number" => Len(v) = 1,
         ~ Entangled(c, ref.rec), NEW s \in Int, NEW e \in Int, Propped(c, s, e)
  PROVE  LET d == SetRef(c, ref, v, FALSE)
         IN  CanRead(d, ref) /\ ReadRef(d, ref) = v
<1> DEFINE r == ref.rec
           kind == ref.kind
           d == SetRef(c, ref, v, FALSE)
           zs == SetZones(c, ref, v)
           num == SetNumbers(c, ref, v)
           strings == SetStrings(c, ref, v)
<1>1. v \in Seq(Line) /\ Len(v) \in Nat \ {0} /\ v[Len(v)] # Blank
  BY WholeLines
<1>2. Incoming(c, ref, v, FALSE) = v
  BY NothingAppended
<1>3. CanWriteRecord(c, r) /\ Scans(c) /\ r \in Rec
  BY DEF CanSet, Scanned, TargetRef
<1>4. FALSE \in BOOLEAN /\ v = Incoming(c, ref, v, FALSE) /\ (kind = "string" => Len(v) = 1)
  BY <1>2
<1>5. /\ d = RecordWritten(c, r, zs, num, strings)
      /\ zs \in Zones /\ num \in Line /\ num.kind = "num"
      /\ strings \in [1 .. 3 -> Seq(Line)] /\ \A i \in 1 .. 3 : Len(strings[i]) = 1
  <2>1. \A in : in = Incoming(c, ref, v, FALSE) /\ (ref.kind = "string" => Len(in) = 1) =>
          /\ SetRef(c, ref, v, FALSE) =
               RecordWritten(c, ref.rec, SetZones(c, ref, v), SetNumbers(c, ref, v),
                             SetStrings(c, ref, in))
          /\ SetZones(c, ref, v) \in Zones
          /\ SetNumbers(c, ref, v) \in Line /\ SetNumbers(c, ref, v).kind = "num"
          /\ SetStrings(c, ref, in) \in [1 .. 3 -> Seq(Line)]
          /\ \A i \in 1 .. 3 : Len(SetStrings(c, ref, in)[i]) = 1
    BY RecordSet, Zenon
  <2> QED BY <1>4, <2>1
<1>6. HasRec(c, r)
  BY <1>3 DEF CanWriteRecord, Readable
<1>7. /\ StringSlots(c, r) \in [1 .. 3 -> Seq(Line)]
      /\ \A i \in 1 .. 3 : StringSlots(c, r)[i][1] # Marker
      /\ StringSlots(c, r)[3][1] # Blank
  <2>1. /\ StringSlots(c, r) \in [1 .. 3 -> Seq(Line)]
        /\ \A i \in 1 .. 3 : /\ StringSlots(c, r)[i][1] = LineAt(c, HeaderLine(c, r) + 3 + i)
                             /\ StringSlots(c, r)[i][1] # Marker
    BY <1>3, <1>6, OwnStrings
  <2>2. HeaderLine(c, r) + 3 + 3 = String3Line(c, r) /\ 3 \in 1 .. 3
    BY <1>6, HeaderLineType DEF String3Line
  <2>3. LineAt(c, String3Line(c, r)) # Blank
    BY <1>3 DEF CanWriteRecord
  <2> QED BY <2>1, <2>2, <2>3
<1>8. kind = "string" => v[1] # Blank /\ v[1] # Marker /\ ref.slot \in 1 .. 3
  BY <1>1 DEF TargetRef
<1>9. (\A i \in 1 .. 3 : strings[i][1] # Marker) /\ strings[3][1] # Blank
  <2>1. CASE kind = "string"
    <3>1. strings = [StringSlots(c, r) EXCEPT ![ref.slot] = v]
      BY <2>1 DEF SetStrings
    <3> HIDE DEF strings
    <3> QED BY <1>7, <1>8, <2>1, <3>1
  <2>2. CASE kind # "string"
    BY <1>7, <2>2 DEF SetStrings
  <2> QED BY <2>1, <2>2
<1>10. \A i \in 1 .. 3 : Len(strings[i]) = 1 /\ strings[i][1] # Marker
  BY <1>5, <1>9
<1>11. ~ Entangled(c, r) /\ num.kind = "num" /\ d = RecordWritten(c, r, zs, num, strings)
       /\ (HeaderLine(c, r) + 6 \in s .. e \/ strings[3][1] # Blank)
  BY <1>5, <1>9
<1>12. /\ ref.rec = r /\ ref.kind = kind /\ zs = SetZones(c, ref, v)
       /\ num = SetNumbers(c, ref, v) /\ strings = SetStrings(c, ref, v)
  OBVIOUS
<1> HIDE DEF d, r, kind, zs, num, strings
<1>13. /\ Scans(d) /\ \A q \in Rec : HasRec(c, q) => Readable(d, q)
       /\ LineAt(d, AsciiLine(d, r)) = HexLine(zs)
       /\ LineAt(d, AsciiLine(d, r) + 1) = num
       /\ StringSlots(d, r) = strings
       /\ CanWriteRecord(d, r)
  BY <1>3, <1>5, <1>9, <1>10, <1>11, FieldsWritten
<1>14. Scanned(d, r)
  BY <1>3, <1>6, <1>13 DEF Scanned
<1>15. CanRead(d, ref)
  BY <1>12, <1>13, <1>14 DEF CanRead, kind
<1>16. ReadRef(d, ref) = v
  <2>1. CASE kind = "string"
    <3>1. strings = [StringSlots(c, r) EXCEPT ![ref.slot] = v]
      BY <1>12, <2>1 DEF SetStrings
    <3>2. strings[ref.slot] = v
      BY <1>7, <1>8, <2>1, <3>1
    <3> QED BY <1>12, <1>13, <2>1, <3>2 DEF ReadRef
  <2>2. CASE kind = "number"
    <3>1. ref.slot \in 0 .. 8 /\ IsNumber(v) /\ Len(v) = 1
      BY <1>12, <2>2 DEF TargetRef, CanSet, kind
    <3>2. num = NumLine([NumbersOf(c, r).value EXCEPT ![ref.slot] = Numeral(v)])
      BY <1>12, <2>2 DEF SetNumbers
    <3>3. NumbersOf(c, r).value \in [0 .. 8 -> Numerals]
      BY <1>3, NumbersType
    <3>4. num.value[ref.slot] = Numeral(v)
      BY <3>1, <3>2, <3>3 DEF NumLine
    <3>5. v = << TextLine(Numeral(v)) >>
      BY <1>1, <3>1, NumeralStands
    <3> QED BY <1>12, <1>13, <2>2, <3>4, <3>5 DEF ReadRef
  <2>3. CASE kind = "numbers"
    <3>1. Len(v) = 1
      BY <1>2, <1>12, <2>3 DEF CanSet, kind
    <3>2. num = v[1]
      BY <1>12, <2>3 DEF SetNumbers
    <3>3. v = << v[1] >>
      BY <1>1, <3>1, OneLine
    <3> QED BY <1>12, <1>13, <2>3, <3>2, <3>3 DEF ReadRef
  <2>4. CASE kind = "zonehex"
    <3>1. ref.slot \in ZoneIdx /\ SpellsRange(v)
      BY <1>12, <2>4 DEF TargetRef, CanSet, kind
    <3>2. zs = [ZonesOf(c, r) EXCEPT ![ref.slot] = RangeSpelled(v)]
      BY <1>12, <2>4 DEF SetZones
    <3>3. ZonesOf(c, r) \in Zones
      <4>1. IsHexWords(LineAt(c, AsciiLine(c, r))) /\ AsciiLine(c, r) \in Int
        BY <1>3, <1>6, HeaderLineType DEF CanWriteRecord
      <4> QED BY <4>1, ZonesThereType DEF ZonesOf
    <3>4. zs[ref.slot] = RangeSpelled(v)
      BY <3>1, <3>2, <3>3 DEF Zones
    <3>5. ZoneAt(d, r, ref.slot) = RangeSpelled(v)
      BY <1>13, <3>4 DEF ZoneAt, ZonesIn, HexLine
    <3>6. v = << Spelled(RangeSpelled(v)) >>
      BY <1>1, <3>1, PairStands
    <3> QED BY <1>12, <2>4, <3>5, <3>6 DEF ReadRef, RangeNamed
  <2> QED BY <1>12, <2>1, <2>2, <2>3, <2>4 DEF kind
<1> QED BY <1>15, <1>16 DEF d

\* The hex-words as they stand.
LEMMA HexWordsReadBack ==
  ASSUME NEW c \in Content, NEW ref \in TargetRef, NEW v \in Content,
         CanSet(c, ref, v, FALSE), Lines(v) = v, ref.kind = "hexline",
         Len(v) = 1, v[1] # Marker,
         ~ Entangled(c, ref.rec), NEW s \in Int, NEW e \in Int, Propped(c, s, e)
  PROVE  LET d == SetRef(c, ref, v, FALSE)
         IN  CanRead(d, ref) /\ ReadRef(d, ref) = v
<1> DEFINE r == ref.rec
           d == SetRef(c, ref, v, FALSE)
<1>1. v \in Seq(Line) /\ v = << v[1] >>
  BY WholeLines, OneLine
<1>2. Scans(c) /\ Readable(c, r) /\ r \in Rec /\ HasRec(c, r) /\ ~ Entangled(c, r)
  BY DEF CanSet, Scanned, Readable, TargetRef
<1>3. d = Splice(c, AsciiLine(c, r), AsciiLine(c, r), v)
  BY DEF SetRef
<1>4. ref.rec = r
  OBVIOUS
<1> HIDE DEF d, r
<1>5. /\ d \in Content /\ Scans(d)
      /\ HasRec(d, r) /\ HeaderLine(d, r) = HeaderLine(c, r) /\ Readable(d, r)
      /\ \A n \in Int : LineAt(d, n) = IF n = AsciiLine(c, r) THEN v[1] ELSE LineAt(c, n)
  BY <1>1, <1>2, <1>3, HexLineWritten
<1>6. AsciiLine(d, r) = AsciiLine(c, r) /\ AsciiLine(c, r) \in Int
  BY <1>2, <1>5, HeaderLineType DEF AsciiLine
<1>7. LineAt(d, AsciiLine(d, r)) = v[1]
  BY <1>5, <1>6
<1>8. CanRead(d, ref) /\ ReadRef(d, ref) = << v[1] >>
  BY <1>4, <1>5, <1>7 DEF CanRead, Scanned, ReadRef
<1> QED BY <1>1, <1>8 DEF d

\* The text of a zone, whose record is found again wherever it has moved to.
LEMMA ZoneReadsBack ==
  ASSUME NEW c \in Content, NEW ref \in TargetRef, NEW v \in Content,
         CanSet(c, ref, v, FALSE), Lines(v) = v, ref.kind = "zone", v \in Seq(Prose),
         NEW s \in Nat, NEW e \in Nat,
         ZoneAt(c, ref.rec, ref.slot) = [start |-> s, end |-> e],
         s <= e + 1, e < Len(Lines(c)), NoRecordIn(c, s, e), Propped(c, s, e),
         HexWordsStay(c, s, e, v), Len(v) # e - s + 1 => AsciiLine(c, ref.rec) < s
  PROVE  LET d == SetRef(c, ref, v, FALSE)
         IN  CanRead(d, ref) /\ ReadRef(d, ref) = v
<1> DEFINE r == ref.rec
           z == ref.slot
           d == SetRef(c, ref, v, FALSE)
<1>1. v \in Seq(Line) /\ Len(v) \in Nat \ {0}
  BY WholeLines
<1>2. Incoming(c, ref, v, FALSE) = v
  BY NothingAppended
<1>3. /\ r \in Rec /\ z \in ZoneIdx /\ Scans(c) /\ Loadable(c) /\ Readable(c, r) /\ HasRec(c, r)
      /\ CanReplace(c, AsciiLine(c, r), z, v)
  BY <1>2 DEF CanSet, Scanned, Scans, Readable, TargetRef
<1>4. d = Replaced(c, AsciiLine(c, r), z, v)
  BY <1>2 DEF SetRef
<1>5. ZoneAt(c, r, z) = [start |-> s, end |-> e]
  OBVIOUS
<1>6. Len(v) # e - s + 1 => AsciiLine(c, r) < s
  OBVIOUS
<1>7. ref.rec = r /\ ref.slot = z
  OBVIOUS
<1> HIDE DEF d, r, z
<1>8. AsciiLine(c, r) \in Nat
  BY <1>3, HeaderLineType
<1>9. ZoneHere(c, AsciiLine(c, r), z) = [start |-> s, end |-> e]
  BY <1>5 DEF ZoneHere, ZoneAt
<1>10. s = 0 => Len(v) # 1
  <2> SUFFICES ASSUME s = 0, Len(v) = 1 PROVE FALSE
    OBVIOUS
  <2>1. ZoneHere(c, AsciiLine(c, r), z) # NoZone
    BY <1>3 DEF CanReplace
  <2>2. e # 0
    BY <1>9, <2>1 DEF NoZone
  <2> QED BY <1>6, <1>8, <2>2
<1>11. RecordsApart(c, s, e)
  BY <1>3, NoRecordIsApart
<1>12. Tame(c, s, e, v) /\ Indexed(c)
  BY <1>3, ProseIsTame, LoadableIsIndexed
<1>13. /\ ZoneAt(d, r, z) = Extent(s, Len(v))
       /\ \A i \in 0 .. Len(v) - 1 : LineAt(d, s + i) = v[i + 1]
  <2> DEFINE out == Replaced(c, AsciiLine(c, r), z, v)
  <2>1. /\ ZoneAt(out, r, z) = Extent(s, Len(v))
        /\ \A i \in 0 .. Len(v) - 1 : LineAt(out, s + i) = v[i + 1]
    <3>1. EditsZone(c, r, z, s, e, v)
      BY <1>3, <1>6, <1>9, <1>10, <1>11, <1>12 DEF EditsZone
    <3> QED BY <1>1, <1>3, <3>1, ReplacedReadsTheEdit
  <2> QED BY <1>4, <2>1
<1>14. d \in Content
  <2> DEFINE a == AsciiLine(c, r)
  <2>1. a \in Int /\ CanReplace(c, a, z, v) /\ d = Replaced(c, a, z, v)
    BY <1>3, <1>4, <1>8
  <2> HIDE DEF a
  <2>2. Replaced(c, a, z, v) \in Content
    BY <1>1, <1>3, <2>1, ReplacedType
  <2> QED BY <2>1, <2>2
<1>15. Scans(d) /\ Readable(d, r)
  <2>1. \E f : Follows(c, Replaced(c, AsciiLine(c, r), z, v), f)
    BY <1>3, <1>6, <1>9, <1>11, ReplacedFollows
  <2>2. PICK f : Follows(c, d, f)
    BY <1>4, <2>1
  <2> QED BY <1>3, <1>14, <2>2, FollowsScans
<1> DEFINE p == ZoneAt(d, r, z)
<1>16. p = [start |-> s, end |-> s + Len(v) - 1]
  BY <1>1, <1>13 DEF Extent
<1>17. RangeNamed(d, ref) = p
  BY <1>7 DEF RangeNamed
<1> HIDE DEF p
<1>18. p # NoZone
  <2>1. p.start = s /\ p.end = s + Len(v) - 1
    BY <1>16
  <2>2. ASSUME p = NoZone PROVE FALSE
    <3>1. s = 0 /\ s + Len(v) - 1 = 0
      BY <2>1, <2>2 DEF NoZone
    <3> QED BY <1>1, <1>10, <3>1
  <2> QED BY <2>2
<1>19. Sliceable(d, p) /\ Sliced(d, p) = v
  BY <1>13, <1>14, <1>16, SlicedReads
<1>20. CanRead(d, ref) /\ ReadRef(d, ref) = v
  BY <1>7, <1>15, <1>17, <1>18, <1>19 DEF CanRead, Scanned, ReadRef
<1> QED BY <1>20 DEF d

\* The lines of a literal range, when as many are written as were there: the zones
\* that read exactly these lines are rewritten in records that lie elsewhere.
LEMMA RangeReadsBack ==
  ASSUME NEW c \in Content, NEW ref \in TargetRef, NEW v \in Content,
         CanSet(c, ref, v, FALSE), Lines(v) = v, ref.kind = "lines", v \in Seq(Prose),
         Loadable(c), NoRecordIn(c, ref.start, ref.end), ref.end = ref.start + Len(v) - 1
  PROVE  LET d == SetRef(c, ref, v, FALSE)
         IN  CanRead(d, ref) /\ ReadRef(d, ref) = v
<1> DEFINE s == ref.start
           e == ref.end
           d == SetRef(c, ref, v, FALSE)
           shifted == SpliceAndShift(c, s, e, v)
<1>1. v \in Seq(Line) /\ Len(v) \in Nat \ {0}
  BY WholeLines
<1>2. Incoming(c, ref, v, FALSE) = v
  BY NothingAppended
<1>3. s \in Nat /\ e \in Nat /\ CanHexReplace(c, s, e, v)
  BY <1>2 DEF CanSet, TargetRef
<1>4. d = HexReplaced(c, s, e, v)
  BY <1>2 DEF SetRef
<1>5. NoRecordIn(c, s, e) /\ Len(v) = e - s + 1 /\ ref.start = s /\ ref.end = e
  BY <1>1, <1>3
<1> HIDE DEF s, e, d
<1>6. s <= e /\ e < Len(Lines(c))
  BY <1>3 DEF CanHexReplace
<1>7. RecordsApart(c, s, e)
  BY <1>3, <1>5, NoRecordIsApart
<1>8. Tame(c, s, e, v) /\ Unmarked(v)
  BY ProseIsTame
<1>9. d \in Content
  BY <1>1, <1>3, <1>4, HexReplacedType
<1>10. Headers(shifted) \subseteq Headers(c)
  <2>1. Headers(shifted) = Headers(Splice(c, s, e, v))
    BY <1>1, <1>3, EditKeepsHeaders
  <2>2. Headers(Splice(c, s, e, v)) =
          {ShiftWord(h, e + 1, Len(v) - (e - s + 1)) : h \in Spared(c, s, e)}
    BY <1>3, <1>6, <1>8, SpliceMarkers
  <2>3. ASSUME NEW h \in Spared(c, s, e)
        PROVE  ShiftWord(h, e + 1, Len(v) - (e - s + 1)) = h /\ h \in Headers(c)
    <3>1. h \in Headers(c) /\ h \in Nat
      BY HeaderInLines DEF Spared
    <3>2. Len(v) - (e - s + 1) = 0
      BY <1>3, <1>5
    <3> QED BY <1>3, <3>1, <3>2 DEF ShiftWord
  <2> HIDE DEF shifted
  <2> QED BY <2>1, <2>2, <2>3
<1>11. ASSUME NEW i \in 0 .. Len(v) - 1 PROVE LineAt(d, s + i) = v[i + 1]
  <2>1. LineAt(shifted, s + i) = v[i + 1]
    <3>1. s <= e + 1 /\ s <= Len(Lines(c))
      BY <1>3, <1>6, LinesType
    <3> QED BY <1>3, <1>8, <3>1, NewLinesStand
  <2>2. (s + i) - 2 \notin Headers(shifted)
    <3>1. s + i \in s .. e
      BY <1>3, <1>5
    <3>2. ASSUME (s + i) - 2 \in Headers(c) PROVE FALSE
      <4>1. (s + i) - 2 + 6 < s \/ (s + i) - 2 > e
        BY <1>7, <3>2 DEF RecordsApart
      <4> QED BY <1>3, <3>1, <4>1
    <3> QED BY <1>10, <3>2
  <2>3. s + i \in Int
    BY <1>3
  <2>4. \/ LineAt(HexReplaced(c, s, e, v), s + i) = LineAt(SpliceAndShift(c, s, e, v), s + i)
        \/ (s + i) - 2 \in Headers(SpliceAndShift(c, s, e, v))
    BY <1>1, <1>3, <2>3, HexReplacedReads
  <2> QED BY <1>4, <2>1, <2>2, <2>4
<1> DEFINE p == RangeNamed(d, ref)
<1>12. p = [start |-> s, end |-> s + Len(v) - 1]
  <2>1. s + Len(v) - 1 = e
    BY <1>3, <1>5
  <2> QED BY <1>5, <2>1 DEF RangeNamed
<1> HIDE DEF p
<1> HIDE DEF shifted
<1>13. Sliceable(d, p) /\ Sliced(d, p) = v
  <2>1. s \in Nat /\ \A i \in 0 .. Len(v) - 1 : LineAt(d, s + i) = v[i + 1]
    BY <1>3, <1>11
  <2>2. Lines(v) = v
    OBVIOUS
  <2> QED BY <1>9, <1>12, <2>1, <2>2, SlicedReads
<1>14. CanRead(d, ref) /\ ReadRef(d, ref) = v
  BY <1>5, <1>6, <1>13 DEF CanRead, ReadRef, p
<1> QED BY <1>14 DEF d

\* Only RefCopy ends a job with one write.
LEMMA StepWritesBack == ASSUME TextsJoin PROVE RefsWhole /\ [RefsNext]_refVars => [WrittenBack]_refVars
<1> SUFFICES ASSUME RefsWhole, RefsNext, job'.phase = "done", job.phase # "cleared", ~ job'.append,
                    Lines(job'.value) = job'.value,
                    Marker \notin {job'.value[i] : i \in 1 .. Len(job'.value)},
                    StraightEdit(doc, last'), NoRecordIn(doc, last'.from, last'.to),
                    job'.to.kind = "lines" => ~ Resizes(last'),
                    job'.to.kind \in {"string", "number", "hexline"} => Len(job'.value) = 1,
                    job'.to.kind = "zone" => last'.to < Len(Lines(doc)),
                    job'.to.kind # "lines" => Propped(doc, last'.from, last'.to),
                    job'.to.kind \in IndexKinds \ {"zone"} => ~ Entangled(doc, job'.to.rec)
             PROVE  CanRead(doc', job'.to) /\ ReadRef(doc', job'.to) = job'.value
  BY DEF WrittenBack
<1>0. doc \in Content /\ Loadable(doc) /\ Len(doc) \in Nat \ {0}
  BY EmptySeq DEF RefsWhole, Content, StraightEdit
<1>1. ASSUME NEW from \in Sources, NEW ref \in Targets, NEW append \in BOOLEAN,
             RefCopy(from, ref, append)
      PROVE  CanRead(doc', job'.to) /\ ReadRef(doc', job'.to) = job'.value
  <2> DEFINE v == ReadRef(doc, from)
  <2>1. /\ CanRead(doc, from) /\ CanSet(doc, ref, v, append) /\ Wrote(ref, v, append)
        /\ doc' = SetRef(doc, ref, v, append)
        /\ job' = Job("done", from, ref, ref, v, append)
    BY <1>1 DEF RefCopy, Write
  <2>2. job'.to = ref /\ job'.value = v /\ job'.append = append
    BY <2>1 DEF Job
  <2>3. append = FALSE
    BY <2>2
  <2>4. from \in SourceRef /\ ref \in TargetRef
    BY ReferenceAssumption
  <2>5. v \in Content
    BY <1>0, <2>1, <2>4, ReadType
  <2> HIDE DEF v
  <2>6. CanSet(doc, ref, v, FALSE) /\ Wrote(ref, v, FALSE) /\ doc' = SetRef(doc, ref, v, FALSE)
    BY <2>1, <2>3
  <2>7. Lines(v) = v
    BY <2>2
  <2>8. v \in Seq(Line) /\ Len(v) \in Nat \ {0} /\ v[1] # Marker
    <3>1. v \in Seq(Line) /\ Len(v) \in Nat \ {0}
      BY <2>5, <2>7, WholeLines
    <3>2. 1 \in 1 .. Len(v)
      BY <3>1
    <3> QED BY <2>2, <3>1, <3>2
  <2>9. Incoming(doc, ref, v, FALSE) = v
    BY NothingAppended
  <2>10. CASE ref.kind \in {"string", "number", "numbers", "zonehex", "hexline"}
    <3>1. last'.from = Len(doc) /\ last'.to = Len(doc) - 1
      <4>1. ref.kind # "zone" /\ ref.kind # "lines"
        BY <2>10
      <4>2. Ran("ref-set", {}, Len(doc), Len(doc) - 1, << >>)
        BY <2>6, <4>1 DEF Wrote
      <4> QED BY <4>2 DEF Ran, Report
    <3>2. ~ Entangled(doc, ref.rec) /\ Propped(doc, Len(doc), Len(doc) - 1)
      BY <2>2, <2>10, <3>1 DEF IndexKinds
    <3>3. ref.kind \in {"string", "number", "hexline"} => Len(v) = 1
      BY <2>2
    <3>4. Len(doc) \in Int /\ Len(doc) - 1 \in Int
      BY <1>0
    <3>5. CASE ref.kind = "hexline"
      <4>1. Len(v) = 1 /\ v[1] # Marker
        BY <2>8, <3>3, <3>5
      <4>2. CanRead(SetRef(doc, ref, v, FALSE), ref) /\ ReadRef(SetRef(doc, ref, v, FALSE), ref) = v
        BY <1>0, <2>4, <2>5, <2>6, <2>7, <3>2, <3>4, <3>5, <4>1, HexWordsReadBack
      <4> QED BY <2>2, <2>6, <4>2
    <3>6. CASE ref.kind # "hexline"
      <4>1. ref.kind \in {"string", "number", "numbers", "zonehex"}
        BY <2>10, <3>6
      <4>2. /\ ref.kind = "string" => Len(v) = 1 /\ v[1] # Marker
            /\ ref.kind = "number" => Len(v) = 1
        BY <2>8, <3>3
      <4>3. CanRead(SetRef(doc, ref, v, FALSE), ref) /\ ReadRef(SetRef(doc, ref, v, FALSE), ref) = v
        BY <1>0, <2>4, <2>5, <2>6, <2>7, <3>2, <3>4, <4>1, <4>2, FieldReadsBack
      <4> QED BY <2>2, <2>6, <4>3
    <3> QED BY <3>5, <3>6
  <2>11. CASE ref.kind = "zone"
    <3> DEFINE p == ZoneAt(doc, ref.rec, ref.slot)
               s == p.start
               e == p.end
               key == {<< ref.rec, ref.slot >>}
    <3>1. last' = Report("zone-replace", key, s, e, v)
      BY <2>6, <2>7, <2>9, <2>11 DEF Wrote, Ran, RangeNamed
    <3>2. /\ last'.cmd = "zone-replace" /\ last'.from = s /\ last'.to = e /\ last'.new = v
          /\ << ref.rec, ref.slot >> \in last'.keys
      BY <3>1 DEF Report
    <3>3. ref.rec \in Rec /\ ref.slot \in ZoneIdx /\ HasRec(doc, ref.rec)
      BY <2>4, <2>6, <2>11 DEF TargetRef, CanSet, Scanned, Readable
    <3>4. p \in ZonePair
      BY <1>0, <3>3, ZoneNamedType
    <3>5. s \in Nat /\ e \in Nat /\ p = [start |-> s, end |-> e]
      <4> HIDE DEF p
      <4> QED BY <3>4 DEF ZonePair
    <3>6. p = ZoneAt(doc, ref.rec, ref.slot)
      OBVIOUS
    <3> HIDE DEF p, s, e, key
    <3>7. "zone-replace" \in ZoneCommands
      BY DEF ZoneCommands
    <3>8. /\ v \in Seq(Prose) /\ s <= e + 1 /\ e < Len(Lines(doc))
          /\ NoRecordIn(doc, s, e) /\ Propped(doc, s, e)
      BY <2>2, <2>11, <3>2 DEF StraightEdit
    <3>9. HexWordsStay(doc, s, e, v)
      BY <3>2 DEF StraightEdit, Resizes, HexWordsStay
    <3>10. Len(v) # e - s + 1 => AsciiLine(doc, ref.rec) < s
      <4>1. \A k \in last'.keys : Len(v) # e - s + 1 => AsciiLine(doc, k[1]) < s
        BY <3>2, <3>7 DEF StraightEdit, Resizes
      <4> QED BY <3>2, <4>1
    <3>11. CanRead(SetRef(doc, ref, v, FALSE), ref) /\ ReadRef(SetRef(doc, ref, v, FALSE), ref) = v
      BY <1>0, <2>4, <2>5, <2>6, <2>7, <2>11, <3>5, <3>6, <3>8, <3>9, <3>10, ZoneReadsBack
    <3> QED BY <2>2, <2>6, <3>11
  <2>12. CASE ref.kind = "lines"
    <3> DEFINE keys == {k \in Key : HasRec(doc, k[1])
                                    /\ ZoneAt(doc, k[1], k[2]) = RangeNamed(doc, ref)}
    <3>1. last' = Report("hex-replace", keys, ref.start, ref.end, v)
      BY <2>6, <2>7, <2>9, <2>12 DEF Wrote, Ran, RangeNamed
    <3> HIDE DEF keys
    <3>2. last'.from = ref.start /\ last'.to = ref.end /\ last'.new = v
      BY <3>1 DEF Report
    <3>3. v \in Seq(Prose) /\ NoRecordIn(doc, ref.start, ref.end)
      BY <3>2 DEF StraightEdit
    <3>4. Len(v) = ref.end - ref.start + 1
      BY <2>2, <2>12, <3>2 DEF Resizes
    <3>5. ref.end = ref.start + Len(v) - 1
      BY <2>4, <2>8, <2>12, <3>4 DEF TargetRef
    <3>6. CanRead(SetRef(doc, ref, v, FALSE), ref) /\ ReadRef(SetRef(doc, ref, v, FALSE), ref) = v
      BY <1>0, <2>4, <2>5, <2>6, <2>7, <2>12, <3>3, <3>5, RangeReadsBack
    <3> QED BY <2>2, <2>6, <3>6
  <2> QED BY <2>4, <2>10, <2>11, <2>12 DEF TargetRef
<1>2. ASSUME NEW from \in Sources, NEW to \in Targets, NEW append \in BOOLEAN,
             MoveClears(from, to, append)
      PROVE  FALSE
  BY <1>2 DEF MoveClears, Job
<1>3. ~ MoveSets /\ ~ MoveFails /\ ~ MoveDies
  BY DEF MoveSets, MoveFails, MoveDies
<1>4. /\ ~ IndexZoneEdit /\ ~ Undo
      /\ \A other \in Layouts, r, q \in Rec, z, y \in ZoneIdx : ~ IndexZoneTransfer(other, r, z, q, y)
      /\ \A r \in Rec, z \in ZoneIdx, p \in Ranges : ~ ZoneSet(r, z, p)
  BY DEF IndexZoneEdit, Undo, IndexZoneTransfer, ZoneSet, NoJob
<1> QED BY <1>1, <1>2, <1>3, <1>4 DEF RefsNext

\* What ref-set and ref-copy write, ref-get reads again, whatever the file, the
\* reference and the value, under the conditions of the property: no line of the
\* value is cut, shifted or put into another slot by the ways the kinds of target
\* go (set_ref_value: Store::update_section_data, replace_zone_content,
\* replace_line_range_and_shift, and update_line for the hex-words).
THEOREM WrittenRefsRead == ASSUME TextsJoin PROVE RefsSpec => WrittenRefsReadBack
<1>1. RefsInit => RefsWhole
  BY WholeAtFirst
<1>2. RefsWhole /\ [RefsNext]_refVars => RefsWhole'
  BY StepIsWhole
<1>3. RefsWhole /\ [RefsNext]_refVars => [WrittenBack]_refVars
  BY StepWritesBack
<1> QED BY <1>1, <1>2, <1>3, PTL DEF RefsSpec, WrittenRefsReadBack

(***************************************************************************)
(* state and state-compare: what a write to one reference shows.           *)
(***************************************************************************)
\* Lines p of c stand as lines o in d, both within the file.
MovedWithin(c, p, d, o) ==
  /\ p # NoZone /\ o # NoZone
  /\ p.start \in Nat /\ p.end \in Nat /\ p.start <= p.end /\ p.end < Len(Lines(c))
  /\ o.start \in Nat /\ o.end = o.start + (p.end - p.start) /\ o.end < Len(Lines(d))
  /\ \A i \in 0 .. p.end - p.start : LineAt(d, o.start + i) = LineAt(c, p.start + i)

\* A zone whose lines have moved within the file says in the state what it said.
LEMMA ContentsAlike ==
  ASSUME NEW c \in Content, NEW d \in Content, NEW r, NEW z,
         NEW p, p = ZoneAt(c, r, z), NEW o, o = ZoneAt(d, r, z), MovedWithin(c, p, d, o)
  PROVE  Contents(d, r, z) = Contents(c, r, z)
<1> USE DEF MovedWithin
<1> DEFINE n == p.end - p.start + 1
<1>1. /\ Sliceable(c, p) /\ Sliced(c, p) \in Seq(Line) /\ Len(Sliced(c, p)) = n
      /\ \A i \in 1 .. n : Sliced(c, p)[i] = LineAt(c, p.start + i - 1)
  <2>1. Within(c, p, n)
    BY DEF Within
  <2> HIDE DEF n
  <2> QED BY <2>1, WithinIsCut DEF IsCut
<1>2. o.end \in Nat /\ o.start <= o.end /\ o.end - o.start + 1 = n /\ n \in Nat
  <2> DEFINE a == p.start  b == p.end  t == o.start  u == o.end
  <2>1. a \in Nat /\ b \in Nat /\ a <= b /\ t \in Nat /\ u = t + (b - a)
    OBVIOUS
  <2> HIDE DEF a, b, t, u
  <2>2. u \in Nat /\ t <= u /\ u - t + 1 = b - a + 1 /\ b - a + 1 \in Nat
    BY <2>1
  <2> QED BY <2>2 DEF a, b, t, u
<1>3. /\ Sliceable(d, o) /\ Sliced(d, o) \in Seq(Line)
      /\ Len(Sliced(d, o)) = o.end - o.start + 1
      /\ \A i \in 1 .. o.end - o.start + 1 : Sliced(d, o)[i] = LineAt(d, o.start + i - 1)
  <2> DEFINE m == o.end - o.start + 1
  <2>1. Within(d, o, m)
    BY <1>2 DEF Within
  <2> HIDE DEF m
  <2>2. IsCut(d, o, m)
    BY <2>1, WithinIsCut
  <2> QED BY <2>2 DEF IsCut, m
<1>4. ASSUME NEW i \in 1 .. n PROVE Sliced(d, o)[i] = Sliced(c, p)[i]
  <2>1. i - 1 \in 0 .. p.end - p.start /\ o.start + (i - 1) = o.start + i - 1
        /\ p.start + (i - 1) = p.start + i - 1
    OBVIOUS
  <2>2. LineAt(d, o.start + (i - 1)) = LineAt(c, p.start + (i - 1))
    BY <2>1
  <2> QED BY <1>1, <1>2, <1>3, <2>1, <2>2
<1> HIDE DEF n
<1>5. Len(Sliced(d, o)) = n
  BY <1>2, <1>3
<1>6. Sliced(d, o) = Sliced(c, p)
  BY <1>1, <1>2, <1>3, <1>4, <1>5, SeqEqual
<1> QED BY <1>1, <1>3, <1>6 DEF Contents

\* What changed in one record is named by its field.
LEMMA RecordChangeIs ==
  ASSUME NEW r, NEW old, NEW new, NEW change \in RecordChanges(r, old, new)
  PROVE  \/ old.strings # new.strings /\ change = << "strings", r, 0 >>
         \/ old.db # new.db /\ change = << "db", r, 0 >>
         \/ old.hexline # new.hexline /\ change = << "hexline", r, 0 >>
         \/ \E z \in ZoneIdx : old.zones[z] # new.zones[z] /\ change = << "content", r, z >>
BY DEF RecordChanges

LEMMA ChangeIs ==
  ASSUME NEW old, NEW new, DOMAIN old = DOMAIN new, NEW change \in Changes(old, new)
  PROVE  \E r \in DOMAIN old : change \in RecordChanges(r, old[r], new[r])
BY DEF Changes

\* state-compare looks at the records in both states, field by field.
LEMMA ChangesNamed ==
  ASSUME NEW c, NEW d, DOMAIN State(d) = DOMAIN State(c), NEW change \in Changes(State(c), State(d))
  PROVE  \E q \in DOMAIN State(c) :
           \/ StringSlots(d, q) # StringSlots(c, q) /\ change = << "strings", q, 0 >>
           \/ NumbersOf(d, q) # NumbersOf(c, q) /\ change = << "db", q, 0 >>
           \/ /\ LineAt(d, AsciiLine(d, q)) # LineAt(c, AsciiLine(c, q))
              /\ change = << "hexline", q, 0 >>
           \/ \E y \in ZoneIdx :
                Contents(d, q, y) # Contents(c, q, y) /\ change = << "content", q, y >>
<1>1. PICK q \in DOMAIN State(c) : change \in RecordChanges(q, State(c)[q], State(d)[q])
  BY ChangeIs
<1>2. q \in DOMAIN State(d)
  BY <1>1
<1> DEFINE old == State(c)[q]  new == State(d)[q]
<1>3. /\ old.strings = StringSlots(c, q) /\ new.strings = StringSlots(d, q)
      /\ old.db = NumbersOf(c, q) /\ new.db = NumbersOf(d, q)
      /\ old.hexline = LineAt(c, AsciiLine(c, q)) /\ new.hexline = LineAt(d, AsciiLine(d, q))
      /\ \A y \in ZoneIdx : old.zones[y] = Contents(c, q, y) /\ new.zones[y] = Contents(d, q, y)
  BY <1>1, <1>2 DEF State
<1>4. change \in RecordChanges(q, old, new)
  BY <1>1
<1> HIDE DEF old, new
<1>5. \/ old.strings # new.strings /\ change = << "strings", q, 0 >>
      \/ old.db # new.db /\ change = << "db", q, 0 >>
      \/ old.hexline # new.hexline /\ change = << "hexline", q, 0 >>
      \/ \E z \in ZoneIdx : old.zones[z] # new.zones[z] /\ change = << "content", q, z >>
  BY <1>4, RecordChangeIs
<1> QED BY <1>1, <1>3, <1>5

\* No record has come or gone.
LEMMA SameRecords ==
  ASSUME NEW c \in Content, Scans(c), NEW s \in Int, NEW e \in Int, Propped(c, s, e), NEW d,
         \A q \in Rec : HasRec(d, q) => HasRec(c, q),
         \A q \in Rec : HasRec(c, q) => Readable(d, q)
  PROVE  /\ DOMAIN State(d) = DOMAIN State(c)
         /\ \A q \in DOMAIN State(c) : q \in Rec /\ HasRec(c, q)
<1>1. \A q \in Rec : HasRec(c, q) => Readable(c, q)
  BY ProppedNumbers
<1>2. \A q \in Rec : Readable(c, q) <=> Readable(d, q)
  BY <1>1 DEF Readable
<1>3. {q \in Rec : Readable(d, q)} = {q \in Rec : Readable(c, q)}
  BY <1>2
<1>4. DOMAIN State(c) = {q \in Rec : Readable(c, q)} /\ DOMAIN State(d) = {q \in Rec : Readable(d, q)}
  BY DEF State
<1>5. \A q \in Rec : Readable(c, q) => HasRec(c, q)
  BY DEF Readable
<1> QED BY <1>3, <1>4, <1>5

\* The fields of the records beside the one that was written: only its own lines
\* below the index line differ.
LEMMA OtherFields ==
  ASSUME NEW c \in Content, Scans(c), NEW r \in Rec, HasRec(c, r), ~ Entangled(c, r),
         NEW s \in Int, NEW e \in Int, Propped(c, s, e), NEW d, NEW h, h = HeaderLine(c, r),
         \A n \in Int : n \notin h + 2 .. h + 6 => LineAt(d, n) = LineAt(c, n),
         NEW q \in Rec, HasRec(c, q), q # r, HeaderLine(d, q) = HeaderLine(c, q)
  PROVE  /\ NumbersOf(d, q) = NumbersOf(c, q)
         /\ LineAt(d, AsciiLine(d, q)) = LineAt(c, AsciiLine(c, q))
         /\ ~ Entangled(c, q) => StringSlots(d, q) = StringSlots(c, q)
<1> DEFINE g == HeaderLine(c, q)
<1>1. Loadable(c)
  BY DEF Scans
<1>2. h \in Headers(c) /\ h \in Nat /\ g \in Headers(c) /\ g \in Nat
  BY <1>1, TheRecord
<1>3. g # h
  <2>1. LineAt(c, g + 1) = IndexLine(q) /\ LineAt(c, h + 1) = IndexLine(r)
    BY <1>1, <1>2, TheRecord
  <2> QED BY <2>1 DEF IndexLine
<1>4. h # g + 1
  BY <1>2, ProppedNumbers
<1>5. g \notin h + 1 .. h + 6
  BY <1>2 DEF Entangled, String3Line
<1>6. g + 2 \notin h + 2 .. h + 6 /\ g + 3 \notin h + 2 .. h + 6
  BY <1>2, <1>3, <1>4, <1>5
<1>7. ~ Entangled(c, q) => \A n \in 4 .. 6 : g + n \notin h + 2 .. h + 6
  <2>1. ~ Entangled(c, q) => h \notin g + 1 .. g + 6
    BY <1>2 DEF Entangled, String3Line
  <2> QED BY <1>2, <1>3, <1>5, <2>1
<1>8. AsciiLine(c, q) = g + 2 /\ AsciiLine(d, q) = g + 2
  BY DEF AsciiLine
<1> HIDE DEF g
<1>9. LineAt(d, g + 2) = LineAt(c, g + 2) /\ LineAt(d, g + 3) = LineAt(c, g + 3)
  BY <1>2, <1>6
<1>10. g + 2 + 1 = g + 3
  BY <1>2
<1>11. NumbersOf(d, q) = NumbersOf(c, q)
  BY <1>8, <1>9, <1>10 DEF NumbersOf
<1>12. ASSUME ~ Entangled(c, q) PROVE StringSlots(d, q) = StringSlots(c, q)
  <2>1. ASSUME NEW i \in 1 .. 3 PROVE LineAt(d, g + 2 + 1 + i) = LineAt(c, g + 2 + 1 + i)
    <3>1. i + 3 \in 4 .. 6 /\ g + 2 + 1 + i = g + (i + 3) /\ g + (i + 3) \in Int
      BY <1>2
    <3>2. g + (i + 3) \notin h + 2 .. h + 6
      BY <1>7, <1>12, <3>1
    <3> QED BY <3>1, <3>2
  <2> QED BY <1>8, <2>1 DEF StringSlots
<1> QED BY <1>8, <1>9, <1>11, <1>12

\* A zone apart from the lines t .. u says what it said when the six lines of a
\* record that no other one begins in are written again.
LEMMA OtherContents ==
  ASSUME NEW c \in Content, Loadable(c), NEW r \in Rec, HasRec(c, r), ~ Entangled(c, r),
         NEW d \in Content, NEW h, h = HeaderLine(c, r),
         \A n \in Int : n \notin h + 2 .. h + 6 => LineAt(d, n) = LineAt(c, n),
         NEW t \in Int, NEW u \in Int, NEW q \in Rec, NEW y \in ZoneIdx, Apart(c, q, y, t, u),
         Kept(c, ZoneAt(c, q, y).end, t, u), ZoneAt(d, q, y) = ZoneAt(c, q, y)
  PROVE  Contents(d, q, y) = Contents(c, q, y)
<1> DEFINE p == ZoneAt(c, q, y)  a == p.start  b == p.end
<1>1. h \in Headers(c) /\ h \in Nat /\ h < Len(Lines(c)) /\ LineAt(c, h) = Marker
  BY TheRecord, HeaderInLines
<1>2. /\ p # NoZone /\ a \in Nat /\ b \in Nat /\ a <= b /\ b < Len(Lines(c))
      /\ RecordsApart(c, a, b)
  BY ApartFacts
<1>3. PICK n \in b .. Len(c) - 1 : LineAt(c, n) # Blank
  BY DEF Kept
<1>4. p = ZoneAt(c, q, y) /\ p = ZoneAt(d, q, y) /\ a = p.start /\ b = p.end
  OBVIOUS
<1>5. Kept(c, b, t, u)
  OBVIOUS
<1> HIDE DEF p, a, b
<1>6. h + 6 < a \/ h > b
  BY <1>1, <1>2 DEF RecordsApart
<1>7. Len(c) \in Nat /\ n \in Nat /\ b <= n
  BY <1>2, <1>3, EmptySeq DEF Content
<1>8. b < Len(Lines(d)) /\ Len(Lines(d)) \in Nat
  <2>1. Len(Lines(d)) \in Nat
    BY LinesType
  <2>2. CASE n \notin h + 2 .. h + 6
    <3>1. LineAt(d, n) # Blank
      BY <1>3, <1>7, <2>2
    <3>2. n < Len(Lines(d))
      BY <1>7, <3>1, WrittenLineCounts
    <3> QED BY <1>2, <1>7, <2>1, <3>2
  <2>3. CASE n \in h + 2 .. h + 6
    <3>1. b < h
      BY <1>1, <1>2, <1>6, <1>7, <2>3
    <3>2. h \notin h + 2 .. h + 6
      BY <1>1
    <3>3. LineAt(d, h) # Blank
      BY <1>1, <3>2 DEF Marker, Blank
    <3>4. h < Len(Lines(d))
      BY <1>1, <3>3, WrittenLineCounts
    <3> QED BY <1>1, <1>2, <2>1, <3>1, <3>4
  <2> QED BY <2>2, <2>3
<1>9. ASSUME NEW i \in 0 .. b - a PROVE LineAt(d, a + i) = LineAt(c, a + i)
  <2>1. a + i \in Int /\ a + i \notin h + 2 .. h + 6
    BY <1>1, <1>2, <1>6
  <2> QED BY <2>1
<1>10. b = a + (b - a)
  BY <1>2
<1>11. \A i \in 0 .. p.end - p.start : LineAt(d, p.start + i) = LineAt(c, p.start + i)
  BY <1>4, <1>9
<1>12. p.end = p.start + (p.end - p.start)
  BY <1>4, <1>10
<1>13. /\ p = ZoneAt(c, q, y) /\ p = ZoneAt(d, q, y) /\ p # NoZone
       /\ p.start \in Nat /\ p.end \in Nat /\ p.start <= p.end
       /\ p.end < Len(Lines(c)) /\ p.end < Len(Lines(d))
  BY <1>2, <1>4, <1>8
<1> HIDE DEF p
<1>14. MovedWithin(c, p, d, p)
  BY <1>11, <1>12, <1>13 DEF MovedWithin
<1> QED BY <1>13, <1>14, ContentsAlike

\* state-compare finds nothing but the field a write to a record named, the strings
\* that are hex-words of another record, and empty hex-words spelled out.
OwnOnly(c, d, ref, t, u) ==
  /\ DOMAIN State(d) = DOMAIN State(c)
  /\ \A q \in DOMAIN State(c) :
       LET own == q = ref.rec
           coordinates == own /\ ref.kind \in {"hexline", "zonehex"}
       IN  /\ q \in Rec
           /\ StringSlots(d, q) # StringSlots(c, q) => Entangled(c, q) \/ (own /\ ref.kind = "string")
           /\ NumbersOf(d, q) # NumbersOf(c, q) => own /\ ref.kind \in {"number", "numbers"}
           /\ LineAt(d, AsciiLine(d, q)) # LineAt(c, AsciiLine(c, q)) =>
                coordinates \/ (own /\ LineAt(c, AsciiLine(c, q)) = Blank)
           /\ \A y \in ZoneIdx :
                Contents(d, q, y) # Contents(c, q, y) =>
                  \/ coordinates
                  \/ ~ Apart(c, q, y, t, u)
                  \/ ~ Kept(c, ZoneAt(c, q, y).end, t, u)

\* What a rewrite of the six lines of one record needs for that: its own fields.
LEMMA OwnFieldsOnly ==
  ASSUME NEW c \in Content, Scans(c), NEW ref, ref.rec \in Rec, HasRec(c, ref.rec),
         ~ Entangled(c, ref.rec), NEW s \in Int, NEW e \in Int, Propped(c, s, e),
         NEW d \in Content, NEW h, h = HeaderLine(c, ref.rec),
         \A n \in Int : n \notin h + 2 .. h + 6 => LineAt(d, n) = LineAt(c, n),
         \A q \in Rec : HasRec(d, q) => HasRec(c, q),
         \A q \in Rec : HasRec(c, q) =>
           HasRec(d, q) /\ HeaderLine(d, q) = HeaderLine(c, q) /\ Readable(d, q),
         ref.kind # "string" => StringSlots(d, ref.rec) = StringSlots(c, ref.rec),
         ref.kind \notin {"number", "numbers"} => NumbersOf(d, ref.rec) = NumbersOf(c, ref.rec),
         ref.kind \notin {"hexline", "zonehex"} =>
           /\ \A y \in ZoneIdx : ZoneAt(d, ref.rec, y) = ZoneAt(c, ref.rec, y)
           /\ \/ LineAt(d, AsciiLine(d, ref.rec)) = LineAt(c, AsciiLine(c, ref.rec))
              \/ LineAt(c, AsciiLine(c, ref.rec)) = Blank,
         NEW t \in Int, NEW u \in Int
  PROVE  OwnOnly(c, d, ref, t, u)
<1> DEFINE r == ref.rec
<1>1. DOMAIN State(d) = DOMAIN State(c) /\ \A q \in DOMAIN State(c) : q \in Rec /\ HasRec(c, q)
  BY SameRecords
<1>2. ASSUME NEW q \in Rec, HasRec(c, q), q # r
      PROVE  /\ NumbersOf(d, q) = NumbersOf(c, q)
             /\ LineAt(d, AsciiLine(d, q)) = LineAt(c, AsciiLine(c, q))
             /\ ~ Entangled(c, q) => StringSlots(d, q) = StringSlots(c, q)
             /\ \A y \in ZoneIdx : ZoneAt(d, q, y) = ZoneAt(c, q, y)
  <2>1. HeaderLine(d, q) = HeaderLine(c, q)
    BY <1>2
  <2>2. /\ NumbersOf(d, q) = NumbersOf(c, q)
        /\ LineAt(d, AsciiLine(d, q)) = LineAt(c, AsciiLine(c, q))
        /\ ~ Entangled(c, q) => StringSlots(d, q) = StringSlots(c, q)
    BY <1>2, <2>1, OtherFields
  <2> QED BY <2>2 DEF ZoneAt
<1>3. ASSUME NEW q \in Rec, HasRec(c, q), NEW y \in ZoneIdx, Apart(c, q, y, t, u),
             Kept(c, ZoneAt(c, q, y).end, t, u), ZoneAt(d, q, y) = ZoneAt(c, q, y)
      PROVE  Contents(d, q, y) = Contents(c, q, y)
  <2>1. Loadable(c)
    BY DEF Scans
  <2> QED BY <1>3, <2>1, OtherContents
<1>4. ASSUME NEW q \in DOMAIN State(c)
      PROVE  /\ q \in Rec
             /\ StringSlots(d, q) # StringSlots(c, q) =>
                  Entangled(c, q) \/ (q = r /\ ref.kind = "string")
             /\ NumbersOf(d, q) # NumbersOf(c, q) => q = r /\ ref.kind \in {"number", "numbers"}
             /\ LineAt(d, AsciiLine(d, q)) # LineAt(c, AsciiLine(c, q)) =>
                  \/ q = r /\ ref.kind \in {"hexline", "zonehex"}
                  \/ q = r /\ LineAt(c, AsciiLine(c, q)) = Blank
             /\ \A y \in ZoneIdx :
                  Contents(d, q, y) # Contents(c, q, y) =>
                    \/ q = r /\ ref.kind \in {"hexline", "zonehex"}
                    \/ ~ Apart(c, q, y, t, u)
                    \/ ~ Kept(c, ZoneAt(c, q, y).end, t, u)
  <2>1. q \in Rec /\ HasRec(c, q)
    BY <1>1, <1>4
  <2>2. CASE q = r
    BY <1>3, <2>1, <2>2
  <2>3. CASE q # r
    BY <1>2, <1>3, <2>1, <2>3
  <2> QED BY <2>1, <2>2, <2>3
<1> QED BY <1>1, <1>4 DEF OwnOnly

\* A string, a number, the numbers or the coordinates of a zone: the other fields of
\* the record are written as they were read.
LEMMA FieldsNamed ==
  ASSUME TextsJoin, NEW c \in Content, NEW ref \in TargetRef, NEW v \in Content,
         NEW append \in BOOLEAN, CanSet(c, ref, v, append), NEW in,
         in = Incoming(c, ref, v, append),
         ref.kind \in {"string", "number", "numbers", "zonehex"},
         ref.kind = "string" => Len(in) = 1 /\ in[1] # Marker,
         ~ Entangled(c, ref.rec), NEW s \in Int, NEW e \in Int, Propped(c, s, e),
         ref.kind = "string" => HeaderLine(c, ref.rec) + 3 + ref.slot \in s .. e,
         NEW d, d = SetRef(c, ref, v, append), NEW t \in Int, NEW u \in Int
  PROVE  OwnOnly(c, d, ref, t, u)
<1> DEFINE r == ref.rec
           zs == SetZones(c, ref, v)
           num == SetNumbers(c, ref, v)
           strings == SetStrings(c, ref, in)
           h == HeaderLine(c, r)
<1>1. CanWriteRecord(c, r) /\ Scans(c) /\ r \in Rec
  BY DEF CanSet, Scanned, TargetRef
<1>2. /\ d = RecordWritten(c, r, zs, num, strings)
      /\ zs \in Zones /\ num \in Line /\ num.kind = "num"
      /\ strings \in [1 .. 3 -> Seq(Line)] /\ \A i \in 1 .. 3 : Len(strings[i]) = 1
  BY RecordSet
<1>3. HasRec(c, r)
  BY <1>1 DEF CanWriteRecord, Readable
<1>4. /\ StringSlots(c, r) \in [1 .. 3 -> Seq(Line)]
      /\ \A i \in 1 .. 3 : /\ StringSlots(c, r)[i][1] = LineAt(c, h + 3 + i)
                           /\ StringSlots(c, r)[i][1] # Marker
  BY <1>1, <1>3, OwnStrings
<1>5. StringSlots(c, r)[3][1] # Blank
  <2>1. h + 3 + 3 = String3Line(c, r) /\ 3 \in 1 .. 3
    BY <1>3, HeaderLineType DEF String3Line
  <2>2. LineAt(c, String3Line(c, r)) # Blank
    BY <1>1 DEF CanWriteRecord
  <2> QED BY <1>4, <2>1, <2>2
<1>6. /\ \A i \in 1 .. 3 : strings[i][1] # Marker
      /\ h + 6 \in s .. e \/ strings[3][1] # Blank
  <2>1. CASE ref.kind = "string"
    <3>1. strings = [StringSlots(c, r) EXCEPT ![ref.slot] = in] /\ ref.slot \in 1 .. 3
      BY <2>1 DEF SetStrings, TargetRef
    <3>2. in[1] # Marker /\ h + 3 + ref.slot \in s .. e
      BY <2>1
    <3>3. h \in Nat
      BY <1>3, HeaderLineType
    <3> HIDE DEF strings, h
    <3>4. \A i \in 1 .. 3 : strings[i][1] # Marker
      BY <1>4, <3>1, <3>2
    <3>5. ref.slot = 3 => h + 6 \in s .. e
      BY <3>2, <3>3
    <3>6. ref.slot # 3 => strings[3] = StringSlots(c, r)[3]
      BY <1>4, <3>1
    <3> QED BY <1>5, <3>4, <3>5, <3>6
  <2>2. CASE ref.kind # "string"
    BY <1>4, <1>5, <2>2 DEF SetStrings
  <2> QED BY <2>1, <2>2
<1>7. IsHexWords(LineAt(c, AsciiLine(c, r))) /\ AsciiLine(c, r) \in Nat
  BY <1>1, <1>3, HeaderLineType DEF CanWriteRecord
<1>8. ref.kind # "string" => strings = StringSlots(c, r)
  BY DEF SetStrings
<1>9. ref.kind \notin {"number", "numbers"} => num = NumbersOf(c, r)
  BY DEF SetNumbers
<1>10. ref.kind # "zonehex" => zs = ZonesIn(LineAt(c, AsciiLine(c, r)))
  BY DEF SetZones, ZonesOf
<1>11. ~ Entangled(c, r) /\ ref.rec = r /\ h = HeaderLine(c, r)
  OBVIOUS
<1> HIDE DEF r, zs, num, strings, h
<1>12. \A i \in 1 .. 3 : Len(strings[i]) = 1 /\ strings[i][1] # Marker
  BY <1>2, <1>6
<1>13. HeaderLine(c, r) + 6 \in s .. e \/ strings[3][1] # Blank
  BY <1>6, <1>11
<1>14. /\ d \in Content
       /\ \A q \in Rec : HasRec(d, q) => HasRec(c, q)
       /\ \A q \in Rec : HasRec(c, q) =>
            HasRec(d, q) /\ HeaderLine(d, q) = HeaderLine(c, q) /\ Readable(d, q)
       /\ \A n \in Int : LineAt(d, n) =
            IF n = HeaderLine(c, r) + 2 THEN HexLine(zs)
            ELSE IF n = HeaderLine(c, r) + 3 THEN num
            ELSE IF n \in HeaderLine(c, r) + 4 .. HeaderLine(c, r) + 6
                 THEN strings[n - (HeaderLine(c, r) + 3)][1]
            ELSE LineAt(c, n)
       /\ LineAt(d, AsciiLine(d, r)) = HexLine(zs)
       /\ LineAt(d, AsciiLine(d, r) + 1) = num
       /\ StringSlots(d, r) = strings
  BY <1>1, <1>2, <1>11, <1>12, <1>13, FieldsWritten
<1>15. h \in Nat
  BY <1>3, <1>11, HeaderLineType
<1>16. \A n \in Int : n \notin h + 2 .. h + 6 => LineAt(d, n) = LineAt(c, n)
  BY <1>11, <1>14, <1>15
<1>17. /\ ref.kind # "string" => StringSlots(d, ref.rec) = StringSlots(c, ref.rec)
       /\ ref.kind \notin {"number", "numbers"} => NumbersOf(d, ref.rec) = NumbersOf(c, ref.rec)
  BY <1>8, <1>9, <1>11, <1>14 DEF NumbersOf
<1>18. ASSUME ref.kind \notin {"hexline", "zonehex"}
       PROVE  /\ \A y \in ZoneIdx : ZoneAt(d, ref.rec, y) = ZoneAt(c, ref.rec, y)
              /\ \/ LineAt(d, AsciiLine(d, ref.rec)) = LineAt(c, AsciiLine(c, ref.rec))
                 \/ LineAt(c, AsciiLine(c, ref.rec)) = Blank
  <2> DEFINE line == LineAt(c, AsciiLine(c, r))
  <2>1. line \in Line /\ line.kind \in {"hex", "blank"}
    BY <1>7, LineAtType DEF IsHexWords, Content
  <2>2. zs = ZonesIn(line)
    BY <1>10, <1>18
  <2>3. line = Blank \/ HexLine(zs) = line
    <3> HIDE DEF line
    <3>1. CASE line.kind = "blank"
      BY <2>1, <3>1 DEF Line, Blank, Marker
    <3>2. CASE line.kind = "hex"
      BY <2>1, <2>2, <3>2 DEF Line, Blank, Marker, ZonesIn, HexLine
    <3> QED BY <2>1, <3>1, <3>2
  <2>4. ZonesIn(HexLine(zs)) = zs
    BY DEF ZonesIn, HexLine
  <2> QED BY <1>11, <1>14, <2>2, <2>3, <2>4 DEF ZoneAt
<1>19. /\ ref.rec \in Rec /\ HasRec(c, ref.rec) /\ ~ Entangled(c, ref.rec)
       /\ h = HeaderLine(c, ref.rec)
  BY <1>1, <1>3, <1>11
<1> QED BY <1>1, <1>14, <1>16, <1>17, <1>18, <1>19, OwnFieldsOnly

\* The hex-words as they stand: no other field is touched.
LEMMA HexWordsNamed ==
  ASSUME NEW c \in Content, NEW ref \in TargetRef, NEW v \in Content, NEW append,
         CanSet(c, ref, v, append), ref.kind = "hexline", Len(v) = 1, v[1] # Marker,
         ~ Entangled(c, ref.rec), NEW s \in Int, NEW e \in Int, Propped(c, s, e),
         NEW d, d = SetRef(c, ref, v, append), NEW t \in Int, NEW u \in Int
  PROVE  OwnOnly(c, d, ref, t, u)
<1> DEFINE r == ref.rec
           h == HeaderLine(c, r)
<1>1. v \in Seq(Line)
  BY DEF Content
<1>2. Scans(c) /\ Readable(c, r) /\ r \in Rec /\ HasRec(c, r) /\ ~ Entangled(c, r)
  BY DEF CanSet, Scanned, Readable, TargetRef
<1>3. d = Splice(c, AsciiLine(c, r), AsciiLine(c, r), v)
  BY DEF SetRef
<1>4. ref.rec = r /\ h = HeaderLine(c, r)
  OBVIOUS
<1> HIDE DEF r, h
<1>5. /\ d \in Content
      /\ \A q \in Rec : HasRec(d, q) => HasRec(c, q)
      /\ \A q \in Rec : HasRec(c, q) =>
           HasRec(d, q) /\ HeaderLine(d, q) = HeaderLine(c, q) /\ Readable(d, q)
      /\ \A n \in Int : LineAt(d, n) = IF n = AsciiLine(c, r) THEN v[1] ELSE LineAt(c, n)
  BY <1>1, <1>2, <1>3, HexLineWritten
<1>6. AsciiLine(c, r) = h + 2 /\ AsciiLine(d, r) = h + 2 /\ h \in Nat
  BY <1>2, <1>4, <1>5, HeaderLineType DEF AsciiLine
<1>7. \A n \in Int : n \notin h + 2 .. h + 6 => LineAt(d, n) = LineAt(c, n)
  BY <1>5, <1>6
<1>8. NumbersOf(d, r) = NumbersOf(c, r)
  <2>1. h + 2 + 1 \in Int /\ h + 2 + 1 # h + 2
    BY <1>6
  <2> QED BY <1>5, <1>6, <2>1 DEF NumbersOf
<1>9. StringSlots(d, r) = StringSlots(c, r)
  <2>1. \A i \in 1 .. 3 : h + 2 + 1 + i \in Int /\ h + 2 + 1 + i # h + 2
    BY <1>6
  <2> QED BY <1>5, <1>6, <2>1 DEF StringSlots
<1>10. /\ ref.rec \in Rec /\ HasRec(c, ref.rec) /\ ~ Entangled(c, ref.rec) /\ Scans(c)
       /\ h = HeaderLine(c, ref.rec)
       /\ StringSlots(d, ref.rec) = StringSlots(c, ref.rec)
       /\ NumbersOf(d, ref.rec) = NumbersOf(c, ref.rec)
  BY <1>2, <1>4, <1>8, <1>9
<1> QED BY <1>5, <1>7, <1>10, OwnFieldsOnly

\* d is sh with other hex-words in some of its records, where there were hex-words
\* or the empty line that stands for them.
Rewords(sh, d) ==
  \A n \in Int : \/ LineAt(d, n) = LineAt(sh, n)
                 \/ /\ LineAt(d, n).kind = "hex"
                    /\ LineAt(sh, n).kind \notin {"marker", "index"}
                    /\ n - 2 \in Headers(sh)

\* Hex-words written over hex-words, or over the empty line that stands for them,
\* leave a record where it is, and the lines apart from all records as they were.
LEMMA WordsWritten ==
  ASSUME NEW sh \in Content, NEW d \in Content, Rewords(sh, d),
         NEW q, NEW g \in Int, HeadersOf(sh, q) = {g}
  PROVE  /\ HasRec(d, q) /\ HeaderLine(d, q) = g /\ HeaderLine(sh, q) = g
         /\ \A n \in Int : LineAt(sh, n) # Blank => LineAt(d, n) # Blank
         /\ \A t, u \in Nat : RecordsApart(sh, t, u) =>
              \A n \in t .. u : LineAt(d, n) = LineAt(sh, n)
<1>1. LineAt(sh, g) = Marker /\ LineAt(sh, g + 1) = IndexLine(q)
  <2>1. g \in HeadersOf(sh, q)
    OBVIOUS
  <2> QED BY <2>1, HeadersByReading DEF HeadersOf
<1>2. LineAt(d, g) = LineAt(sh, g) /\ LineAt(d, g + 1) = LineAt(sh, g + 1)
  <2>1. g + 1 \in Int
    OBVIOUS
  <2> QED BY <1>1, <2>1 DEF Marker, IndexLine, Rewords
<1>3. \A n \in Int : \/ LineAt(d, n) = LineAt(sh, n)
                     \/ LineAt(d, n).kind \notin {"marker", "index"}
  BY DEF Rewords
<1>4. HasRec(d, q) /\ HeaderLine(d, q) = g
  BY <1>2, <1>3, RecordStays
<1>5. HeaderLine(sh, q) = g
  BY DEF HeaderLine
<1>6. \A n \in Int : LineAt(sh, n) # Blank => LineAt(d, n) # Blank
  BY DEF Blank, Rewords
<1>7. ASSUME NEW t \in Nat, NEW u \in Nat, RecordsApart(sh, t, u), NEW n \in t .. u
      PROVE  LineAt(d, n) = LineAt(sh, n)
  <2>1. \A f \in Headers(sh) : f \in Nat /\ (f + 6 < t \/ f > u)
    BY <1>7, HeaderInLines DEF RecordsApart
  <2>2. n - 2 \notin Headers(sh)
    BY <1>7, <2>1
  <2> QED BY <1>7, <2>2 DEF Rewords
<1> QED BY <1>4, <1>5, <1>6, <1>7

\* A line the edit leaves, with something on it, keeps what is above it in the file.
LEMMA KeptStays ==
  ASSUME NEW c \in Content, NEW s \in Nat, NEW e \in Nat, s <= e, NEW new \in Seq(Prose),
         HexWordsStay(c, s, e, new), NEW b \in Nat, b < s \/ b > e, Kept(c, b, s, e)
  PROVE  \E m \in Nat : /\ ShiftWord(b, e + 1, Len(new) - (e - s + 1)) <= m
                        /\ LineAt(SpliceAndShift(c, s, e, new), m) # Blank
<1> DEFINE delta == Len(new) - (e - s + 1)
           Sh(n) == ShiftWord(n, e + 1, delta)
<1>1. Unmarked(new) /\ new \in Seq(Line) /\ Len(new) \in Nat
  BY ProseIsTame, ProseSeq, LenProperties
<1>2. PICK n \in b .. Len(c) - 1 : n \notin s .. e /\ LineAt(c, n) # Blank
  BY DEF Kept
<1>3. n \in Nat /\ b <= n /\ (n < s \/ n > e)
  BY <1>2, EmptySeq DEF Content
<1>4. n < Len(Lines(c))
  BY <1>2, <1>3, WrittenLineCounts
<1>5. LineAt(SpliceAndShift(c, s, e, new), Sh(n)) =
        IF n - 2 \in Spared(c, s, e) /\ LineAt(c, n).kind = "hex"
        THEN ShiftHexLine(LineAt(c, n), e + 1, delta) ELSE LineAt(c, n)
  <2>1. s <= e + 1
    OBVIOUS
  <2> QED BY <1>1, <1>3, <1>4, <2>1, LineFollows
<1>6. LineAt(SpliceAndShift(c, s, e, new), Sh(n)) # Blank
  BY <1>2, <1>5 DEF ShiftHexLine, HexLine, Blank
<1>7. Sh(n) \in Nat /\ Sh(b) <= Sh(n)
  BY <1>1, <1>3 DEF ShiftWord
<1> QED BY <1>6, <1>7

\* The records of a file after an edit that met none.
LEMMA RecordsShifted ==
  ASSUME NEW c \in Content, NEW s \in Nat, NEW e \in Nat, s <= e,
         NEW new \in Seq(Prose), RecordsApart(c, s, e)
  PROVE  Headers(SpliceAndShift(c, s, e, new)) =
           {ShiftWord(g, e + 1, Len(new) - (e - s + 1)) : g \in Headers(c)}
<1>1. Unmarked(new) /\ new \in Seq(Line) /\ s <= e + 1 /\ e >= -1
  <2>1. Unmarked(new) /\ new \in Seq(Line)
    BY ProseIsTame, ProseSeq
  <2> QED BY <2>1
<1>2. Headers(SpliceAndShift(c, s, e, new)) = Headers(Splice(c, s, e, new))
  BY <1>1, EditKeepsHeaders
<1>3. Headers(Splice(c, s, e, new)) =
        {ShiftWord(g, e + 1, Len(new) - (e - s + 1)) : g \in Spared(c, s, e)}
  BY <1>1, SpliceMarkers
<1>4. Spared(c, s, e) = Headers(c)
  <2>1. \A g \in Headers(c) : g \in Nat /\ (g + 6 < s \/ g > e)
    BY HeaderInLines DEF RecordsApart
  <2> QED BY <2>1 DEF Spared
<1> QED BY <1>2, <1>3, <1>4

\* A zone apart from an edit says what it said: its lines move as one, none of them
\* becomes hex-words, and the line that keeps it in the file stays below it.
LEMMA ShiftedContents ==
  ASSUME NEW c \in Content, Loadable(c), NEW s \in Nat, NEW e \in Nat, s <= e,
         NEW new \in Seq(Prose), HexWordsStay(c, s, e, new), RecordsApart(c, s, e),
         NEW sh, sh = SpliceAndShift(c, s, e, new), NEW d \in Content, Rewords(sh, d),
         NEW q \in Rec, NEW y \in ZoneIdx, Apart(c, q, y, s, e),
         Kept(c, ZoneAt(c, q, y).end, s, e), s = 0 => new # << >>,
         ZonesIn(LineAt(d, AsciiLine(sh, q)))[y] = ZoneAt(sh, q, y)
  PROVE  Contents(d, q, y) = Contents(c, q, y)
<1> DEFINE p == ZoneAt(c, q, y)  a == p.start  b == p.end
           Sh(n) == ShiftWord(n, e + 1, Len(new) - (e - s + 1))
           o == ZoneAt(sh, q, y)  t == o.start  u == o.end
           h == HeaderLine(c, q)
           g == Sh(h)
<1>1. Indexed(c) /\ Tame(c, s, e, new) /\ new \in Seq(Line) /\ Len(new) \in Nat
  BY LoadableIsIndexed, ProseIsTame, ProseSeq, LenProperties
<1>2. /\ HasRec(c, q) /\ h \in Nat /\ (h + 6 < s \/ h > e)
      /\ p # NoZone /\ a \in Nat /\ b \in Nat /\ a <= b /\ b < Len(Lines(c))
      /\ ~ Meets(a, b, s, e) /\ (b < s \/ a > e) /\ RecordsApart(c, a, b)
  BY ApartFacts
<1>3. h + 2 < s \/ h > e
  <2> HIDE DEF h
  <2> QED BY <1>2
<1>4. /\ HeadersOf(sh, q) = {g}
      /\ o = ShiftPair(p, e + 1, Len(new) - (e - s + 1)) /\ o # NoZone /\ o.start \in Nat
      /\ o.end = o.start + (p.end - p.start)
      /\ \A i \in 0 .. p.end - p.start : LineAt(sh, o.start + i) = LineAt(c, p.start + i)
  <2>1. /\ HeaderLine(c, q) + 2 < s \/ HeaderLine(c, q) > e
        /\ ZoneAt(c, q, y) # NoZone
        /\ ZoneAt(c, q, y).start <= ZoneAt(c, q, y).end
        /\ ZoneAt(c, q, y).end < Len(Lines(c)) \/ e < Len(Lines(c))
        /\ ~ Meets(ZoneAt(c, q, y).start, ZoneAt(c, q, y).end, s, e)
        /\ RecordsApart(c, ZoneAt(c, q, y).start, ZoneAt(c, q, y).end)
    BY <1>2, <1>3
  <2>2. ~ (s = 0 /\ new = << >> /\ ZoneAt(c, q, y) = [start |-> e + 1, end |-> e + 1])
    OBVIOUS
  <2>3. HasRec(c, q) /\ s <= e + 1
    BY <1>2
  <2> QED BY <1>1, <2>1, <2>2, <2>3, PeerFollows
<1>5. Sh(a) = t /\ Sh(b) = u
  BY <1>4 DEF ShiftPair
<1>6. RecordsApart(sh, t, u)
  <2>1. Headers(sh) = {ShiftWord(f, e + 1, Len(new) - (e - s + 1)) : f \in Headers(c)}
    BY RecordsShifted
  <2>2. \A i, j \in Nat : i <= j /\ (j < s \/ i > e) /\ RecordsApart(c, i, j) =>
              RecordsApart(sh, ShiftWord(i, e + 1, Len(new) - (e - s + 1)),
                               ShiftWord(j, e + 1, Len(new) - (e - s + 1)))
    BY <1>1, <2>1, ApartMoves
  <2>3. RecordsApart(sh, Sh(a), Sh(b))
    <3> HIDE DEF a, b
    <3> QED BY <1>2, <2>2
  <2> QED BY <1>5, <2>3
<1>7. sh \in Content
  BY <1>1, SpliceAndShiftType
<1>8. g \in Nat
  <2>1. g \in HeadersOf(sh, q)
    BY <1>4
  <2>2. g \in Headers(sh)
    BY <2>1 DEF HeadersOf
  <2> HIDE DEF g
  <2> QED BY <1>7, <2>2, HeaderInLines
<1>9. \E m \in Nat : Sh(b) <= m /\ LineAt(sh, m) # Blank
  <2>1. Kept(c, b, s, e) /\ b \in Nat /\ (b < s \/ b > e)
    <3>1. Kept(c, b, s, e)
      OBVIOUS
    <3> HIDE DEF a, b
    <3> QED BY <1>2, <3>1
  <2> HIDE DEF b
  <2> QED BY <2>1, KeptStays
<1>10. t \in Nat /\ u = t + (b - a)
  BY <1>4
<1>11. \A i \in 0 .. b - a : LineAt(sh, t + i) = LineAt(c, a + i)
  BY <1>4
<1>12. AsciiLine(sh, q) = HeaderLine(sh, q) + 2 /\ ZoneAt(d, q, y) = ZonesIn(LineAt(d, HeaderLine(d, q) + 2))[y]
  BY DEF AsciiLine, ZoneAt
<1>13. p = ZoneAt(c, q, y) /\ o = ZoneAt(sh, q, y) /\ a = p.start /\ b = p.end
       /\ t = o.start /\ u = o.end
  OBVIOUS
<1> HIDE DEF p, a, b, Sh, o, t, u, h, g
<1>14. u \in Nat
  BY <1>2, <1>10
<1>15. /\ HeaderLine(d, q) = g /\ HeaderLine(sh, q) = g
       /\ \A n \in Int : LineAt(sh, n) # Blank => LineAt(d, n) # Blank
       /\ \A n \in t .. u : LineAt(d, n) = LineAt(sh, n)
  <2>1. g \in Int /\ HeadersOf(sh, q) = {g}
    BY <1>4, <1>8
  <2>2. /\ HeaderLine(d, q) = g /\ HeaderLine(sh, q) = g
        /\ \A n \in Int : LineAt(sh, n) # Blank => LineAt(d, n) # Blank
        /\ \A i, j \in Nat : RecordsApart(sh, i, j) =>
             \A n \in i .. j : LineAt(d, n) = LineAt(sh, n)
    BY <1>7, <2>1, WordsWritten
  <2> QED BY <1>6, <1>10, <1>14, <2>2
<1>16. o = ZoneAt(d, q, y)
  BY <1>12, <1>13, <1>15
<1>17. u < Len(Lines(d))
  <2>1. PICK m \in Nat : u <= m /\ LineAt(sh, m) # Blank
    BY <1>5, <1>9
  <2>2. m < Len(Lines(d))
    <3>1. LineAt(d, m) # Blank
      BY <1>15, <2>1
    <3> QED BY <3>1, WrittenLineCounts
  <2>3. Len(Lines(d)) \in Nat
    BY LinesType
  <2> QED BY <1>14, <2>1, <2>2, <2>3
<1>18. ASSUME NEW i \in 0 .. b - a PROVE LineAt(d, t + i) = LineAt(c, a + i)
  <2>1. t + i \in t .. u
    BY <1>2, <1>10
  <2> QED BY <1>11, <1>15, <2>1
<1>19. /\ p.start \in Nat /\ p.end \in Nat /\ p.start <= p.end /\ p.end < Len(Lines(c))
       /\ o.start \in Nat /\ o.end = o.start + (p.end - p.start) /\ o.end < Len(Lines(d))
       /\ \A i \in 0 .. p.end - p.start : LineAt(d, o.start + i) = LineAt(c, p.start + i)
       /\ p # NoZone /\ o # NoZone
  BY <1>2, <1>4, <1>10, <1>13, <1>17, <1>18
<1>20. p = ZoneAt(c, q, y)
  BY <1>13
<1>21. MovedWithin(c, p, d, o)
  BY <1>19 DEF MovedWithin
<1> QED BY <1>16, <1>20, <1>21, ContentsAlike

\* The numbers and strings of a record after an edit that met no record.
LEMMA FollowsFields ==
  ASSUME NEW c \in Content, Scans(c), NEW s \in Int, NEW e \in Int, Propped(c, s, e),
         NEW d \in Content, NEW f, Follows(c, d, f), NEW q \in Rec, HasRec(c, q)
  PROVE  /\ NumbersOf(d, q) = NumbersOf(c, q)
         /\ ~ Entangled(c, q) => StringSlots(d, q) = StringSlots(c, q)
<1> DEFINE h == HeaderLine(c, q)
           g == f[h]
<1>1. Loadable(c)
  BY DEF Scans
<1>2. h \in Headers(c) /\ h \in Nat
  BY <1>1, TheRecord
<1>3. HeaderLine(d, q) = g
  BY FollowsScans
<1>4. g \in Nat
  BY <1>2 DEF Follows, Finds
<1>5. \A n \in 1 .. 4 : h + n \notin Headers(c) => LineAt(d, g + n + 2) = LineAt(c, h + n + 2)
  BY <1>2 DEF Follows
<1>6. h + 1 \notin Headers(c)
  BY <1>2, ProppedNumbers
<1>7. AsciiLine(c, q) = h + 2 /\ AsciiLine(d, q) = g + 2
  BY <1>3 DEF AsciiLine
<1>8. ~ Entangled(c, q) => \A n \in 1 .. 4 : h + n \notin Headers(c)
  <2>1. \A n \in 1 .. 4 : h + n \in h + 1 .. h + 6
    BY <1>2
  <2> QED BY <2>1 DEF Entangled, String3Line
<1> HIDE DEF h, g
<1>9. NumbersOf(d, q) = NumbersOf(c, q)
  <2>1. g + 1 + 2 = g + 2 + 1 /\ h + 1 + 2 = h + 2 + 1
    BY <1>2, <1>4
  <2>2. 1 \in 1 .. 4
    OBVIOUS
  <2>3. LineAt(d, g + 1 + 2) = LineAt(c, h + 1 + 2)
    BY <1>5, <1>6, <2>2
  <2> QED BY <1>7, <2>1, <2>3 DEF NumbersOf
<1>10. ASSUME ~ Entangled(c, q) PROVE StringSlots(d, q) = StringSlots(c, q)
  <2>1. ASSUME NEW i \in 1 .. 3 PROVE LineAt(d, g + 2 + 1 + i) = LineAt(c, h + 2 + 1 + i)
    <3>1. i + 1 \in 1 .. 4 /\ g + (i + 1) + 2 = g + 2 + 1 + i /\ h + (i + 1) + 2 = h + 2 + 1 + i
      BY <1>2, <1>4
    <3>2. LineAt(d, g + (i + 1) + 2) = LineAt(c, h + (i + 1) + 2)
      BY <1>5, <1>8, <1>10, <3>1
    <3> QED BY <3>1, <3>2
  <2> QED BY <1>7, <2>1 DEF StringSlots
<1> QED BY <1>9, <1>10

\* An edit that leaves the number of lines moves no record and shifts no words.
LEMMA SameSizeWords ==
  ASSUME NEW c \in Content, Loadable(c), NEW s \in Nat, NEW e \in Nat, s <= e,
         NEW new \in Seq(Prose), Len(new) = e - s + 1, RecordsApart(c, s, e),
         NEW q \in Rec, HasRec(c, q)
  PROVE  /\ HeadersOf(SpliceAndShift(c, s, e, new), q) = {HeaderLine(c, q)}
         /\ HeaderLine(c, q) \in Nat
         /\ LineAt(SpliceAndShift(c, s, e, new), AsciiLine(c, q)) = LineAt(c, AsciiLine(c, q))
<1> DEFINE sh == SpliceAndShift(c, s, e, new)
           h == HeaderLine(c, q)
           line == LineAt(c, AsciiLine(c, q))
<1>1. Tame(c, s, e, new) /\ HexWordsStay(c, s, e, new)
  BY ProseIsTame DEF HexWordsStay
<1>2. h \in Headers(c) /\ h \in Nat
  BY TheRecord
<1>3. h + 6 < s \/ h > e
  BY <1>2 DEF RecordsApart
<1>4. h + 2 < s \/ h > e
  BY <1>2, <1>3
<1>5. Len(new) - (e - s + 1) = 0
  BY LenProperties, ProseSeq
<1>6. /\ HeadersOf(sh, q) = {ShiftWord(h, e + 1, Len(new) - (e - s + 1))}
      /\ HeaderLine(sh, q) = ShiftWord(h, e + 1, Len(new) - (e - s + 1))
      /\ LineAt(sh, AsciiLine(sh, q)) =
           IF line.kind = "hex" THEN ShiftHexLine(line, e + 1, Len(new) - (e - s + 1)) ELSE line
  <2>1. s <= e + 1
    OBVIOUS
  <2> QED BY <1>1, <1>4, <2>1, RecordFollows
<1>7. ShiftWord(h, e + 1, Len(new) - (e - s + 1)) = h
  BY <1>2, <1>5 DEF ShiftWord
<1>8. line \in Line
  BY <1>2, LineAtType DEF AsciiLine, Content
<1>9. line.kind = "hex" => ShiftHexLine(line, e + 1, Len(new) - (e - s + 1)) = line
  BY <1>5, <1>8, ShiftByNothing
<1>10. AsciiLine(sh, q) = AsciiLine(c, q)
  BY <1>6, <1>7 DEF AsciiLine
<1> QED BY <1>2, <1>6, <1>7, <1>9, <1>10

\* state-compare finds after an edit of lines l.from .. l.to nothing but the zones it
\* was aimed at, what it met, and the coordinates it moved.
EditOnly(c, d, l) ==
  /\ DOMAIN State(d) = DOMAIN State(c)
  /\ \A q \in DOMAIN State(c) :
       /\ q \in Rec
       /\ StringSlots(d, q) # StringSlots(c, q) => Entangled(c, q)
       /\ NumbersOf(d, q) = NumbersOf(c, q)
       /\ LineAt(d, AsciiLine(d, q)) # LineAt(c, AsciiLine(c, q)) =>
            \/ Resizes(l)
            \/ /\ \E y \in ZoneIdx : << q, y >> \in l.keys
               /\ LineAt(c, AsciiLine(c, q)) = Blank
       /\ \A y \in ZoneIdx :
            Contents(d, q, y) # Contents(c, q, y) =>
              \/ << q, y >> \in l.keys
              \/ ~ Apart(c, q, y, l.from, l.to)
              \/ ~ Kept(c, ZoneAt(c, q, y).end, l.from, l.to)
              \/ LaterSibling(c, l, << q, y >>)

\* replace_zone_content writes hex-words over the hex-words of its own record, and
\* no other line than the splice and the shift do.
LEMMA OwnWordsWritten ==
  ASSUME NEW c \in Content, Loadable(c), NEW r \in Rec, NEW z \in ZoneIdx, HasRec(c, r),
         NEW new \in Seq(Prose), CanReplace(c, AsciiLine(c, r), z, new),
         NEW s \in Nat, NEW e \in Nat, ZoneHere(c, AsciiLine(c, r), z) = [start |-> s, end |-> e],
         s <= e, HexWordsStay(c, s, e, new),
         Len(new) # e - s + 1 => AsciiLine(c, r) < s, RecordsApart(c, s, e)
  PROVE  /\ SpliceAndShift(c, s, e, new) \in Content
         /\ Replaced(c, AsciiLine(c, r), z, new) \in Content
         /\ Rewords(SpliceAndShift(c, s, e, new), Replaced(c, AsciiLine(c, r), z, new))
         /\ HeadersOf(SpliceAndShift(c, s, e, new), r) = {HeaderLine(c, r)}
         /\ LineAt(Replaced(c, AsciiLine(c, r), z, new), AsciiLine(c, r)) =
              HexLine([ZonesIn(LineAt(c, AsciiLine(c, r))) EXCEPT ![z] = Extent(s, Len(new))])
         /\ \A n \in Int : n # AsciiLine(c, r) =>
              LineAt(Replaced(c, AsciiLine(c, r), z, new), n)
                = LineAt(SpliceAndShift(c, s, e, new), n)
<1> DEFINE a     == AsciiLine(c, r)
           d     == SpliceAndShift(c, s, e, new)
           delta == Len(new) - (e - s + 1)
           h     == HeaderLine(c, r)
           zs    == [ZonesIn(LineAt(c, a)) EXCEPT ![z] = Extent(s, Len(new))]
           out   == UpdateLine(d, a, HexLine(zs))
<1>1. new \in Seq(Line) /\ Len(new) \in Nat /\ d \in Content
  BY ProseSeq, LenProperties, SpliceAndShiftType
<1>2. h \in Nat /\ a = h + 2 /\ (h + 6 < s \/ h > e) /\ h \in Headers(c)
  BY TheRecord DEF AsciiLine, RecordsApart
<1>3. a \in Nat /\ a < Len(Lines(c)) /\ IsHexWords(LineAt(c, a)) /\ a < Len(Lines(d))
  <2>1. a < Len(Lines(SpliceAndShift(c, ZoneHere(c, a, z).start, ZoneHere(c, a, z).end, new)))
    BY DEF CanReplace
  <2> QED BY <1>2, <2>1 DEF CanReplace
<1>4. ShiftWord(h, e + 1, delta) = h
  <2>1. Len(new) = e - s + 1 \/ a < s
    OBVIOUS
  <2> HIDE DEF h, a
  <2>2. delta = 0 \/ h < e + 1
    BY <1>1, <1>2, <2>1
  <2> HIDE DEF delta
  <2> QED BY <1>1, <1>2, <2>2 DEF ShiftWord
<1>5. HeadersOf(d, r) = {h}
  <2>1. HeadersOf(d, r) = {ShiftWord(h, e + 1, delta)}
    <3>1. Tame(c, s, e, new) /\ s <= e + 1 /\ (h + 2 < s \/ h > e)
      <4>1. Tame(c, s, e, new)
        BY ProseIsTame
      <4> HIDE DEF h
      <4> QED BY <1>2, <4>1
    <3> QED BY <3>1, RecordFollows
  <2> QED BY <1>4, <2>1
<1>6. h \in Headers(d)
  BY <1>5 DEF HeadersOf
<1>7. LineAt(d, a).kind \notin {"marker", "index"}
  <2>1. a - 2 = h
    <3> HIDE DEF a, h
    <3> QED BY <1>2
  <2>2. Tame(c, s, e, new) /\ a - 2 \in Headers(c)
    BY <1>2, <2>1, ProseIsTame
  <2> QED BY <1>3, <2>2, OwnLineFound
<1>8. HexLine(zs) \in Line
  <2>1. Extent(s, Len(new)) \in ZonePair
    BY <1>1, ExtentType
  <2>2. ZonesIn(LineAt(c, a)) \in Zones
    BY <1>3, ZonesThereType
  <2>3. zs \in Zones
    BY <2>1, <2>2 DEF Zones
  <2> QED BY <2>3, HexLineType
<1>9. Replaced(c, a, z, new) = out
  BY DEF Replaced
<1> HIDE DEF d, a, h, delta
<1>10. out \in Content
  <2> HIDE DEF zs
  <2> QED BY <1>1, <1>8, UpdateLineType
<1>11. ASSUME NEW n \in Int
       PROVE  LineAt(out, n) = IF n = a THEN HexLine(zs) ELSE LineAt(d, n)
  <2> HIDE DEF zs
  <2>1. LineAt(out, n) = IF n \in {a} /\ n \in 0 .. Len(Lines(d)) - 1
                         THEN [i \in {a} |-> HexLine(zs)][n] ELSE LineAt(d, n)
    <3>1. \A i \in {a} : [j \in {a} |-> HexLine(zs)][i] \in Line
      BY <1>8
    <3> QED BY <1>1, <3>1, UpdateLinesReads DEF UpdateLine
  <2>2. CASE n = a
    <3>1. n \in 0 .. Len(Lines(d)) - 1
      BY <1>1, <1>3, <2>2, LinesType
    <3> QED BY <2>1, <2>2, <3>1
  <2>3. CASE n # a
    BY <2>1, <2>3
  <2> QED BY <2>2, <2>3
<1> HIDE DEF out
<1>12. Rewords(d, out)
  <2>1. HexLine(zs).kind = "hex"
    BY DEF HexLine
  <2>2. a - 2 \in Headers(d)
    <3>1. a - 2 = h
      BY <1>2
    <3> QED BY <1>6, <3>1
  <2> HIDE DEF zs
  <2> QED BY <1>7, <1>11, <2>1, <2>2 DEF Rewords
<1>13. LineAt(out, a) = HexLine(zs) /\ \A n \in Int : n # a => LineAt(out, n) = LineAt(d, n)
  <2> HIDE DEF zs
  <2>1. a \in Int
    BY <1>3
  <2> QED BY <1>11, <2>1
<1>14. /\ d = SpliceAndShift(c, s, e, new) /\ a = AsciiLine(c, r) /\ h = HeaderLine(c, r)
       /\ zs = [ZonesIn(LineAt(c, AsciiLine(c, r))) EXCEPT ![z] = Extent(s, Len(new))]
  BY DEF d, a, h
<1> HIDE DEF zs
<1> QED BY <1>1, <1>5, <1>9, <1>10, <1>12, <1>13, <1>14

\* The hypotheses of replace_zone_content on lines s .. e that no record meets.
Replaces(c, r, z, s, e, new) ==
  /\ HasRec(c, r) /\ CanReplace(c, AsciiLine(c, r), z, new)
  /\ ZoneHere(c, AsciiLine(c, r), z) = [start |-> s, end |-> e]
  /\ s <= e /\ HexWordsStay(c, s, e, new)
  /\ Len(new) # e - s + 1 => AsciiLine(c, r) < s
  /\ RecordsApart(c, s, e)

\* The same, behind names: the edited text beside the one spliced and shifted.
OwnLine(c, sh, d, r, z, s, new) ==
  /\ Rewords(sh, d)
  /\ HeadersOf(sh, r) = {HeaderLine(c, r)}
  /\ LineAt(d, AsciiLine(c, r)) =
       HexLine([ZonesIn(LineAt(c, AsciiLine(c, r))) EXCEPT ![z] = Extent(s, Len(new))])
  /\ \A n \in Int : n # AsciiLine(c, r) => LineAt(d, n) = LineAt(sh, n)

LEMMA OwnLineWritten ==
  ASSUME NEW c \in Content, Loadable(c), NEW r \in Rec, NEW z \in ZoneIdx,
         NEW new \in Seq(Prose), NEW s \in Nat, NEW e \in Nat, Replaces(c, r, z, s, e, new)
  PROVE  /\ SpliceAndShift(c, s, e, new) \in Content
         /\ Replaced(c, AsciiLine(c, r), z, new) \in Content
         /\ OwnLine(c, SpliceAndShift(c, s, e, new), Replaced(c, AsciiLine(c, r), z, new),
                    r, z, s, new)
BY OwnWordsWritten DEF Replaces, OwnLine

\* The record being edited is another one than q: so are their hex-word lines.
LEMMA OtherAscii ==
  ASSUME NEW c \in Content, NEW q \in Rec, NEW r \in Rec, q # r, NEW g \in Int, NEW h \in Int,
         HeadersOf(c, q) = {g}, HeadersOf(c, r) = {h}
  PROVE  g + 2 # h + 2
<1>1. g \in HeadersOf(c, q) /\ h \in HeadersOf(c, r)
  OBVIOUS
<1>2. g # h
  BY <1>1 DEF HeadersOf, IndexLine
<1> QED BY <1>2

\* replace_zone_content on as many lines as there were leaves all hex-words.
LEMMA ReplacedKeepsWords ==
  ASSUME NEW c \in Content, Loadable(c), NEW r \in Rec, NEW z \in ZoneIdx,
         NEW new \in Seq(Prose), NEW s \in Nat, NEW e \in Nat, Replaces(c, r, z, s, e, new),
         Len(new) = e - s + 1, NEW q \in Rec, HasRec(c, q),
         NEW d, d = Replaced(c, AsciiLine(c, r), z, new)
  PROVE  LineAt(d, AsciiLine(d, q)) = LineAt(c, AsciiLine(c, q))
<1> DEFINE sh == SpliceAndShift(c, s, e, new)
           line == LineAt(c, AsciiLine(c, r))
           h == HeaderLine(c, r)
           g == HeaderLine(c, q)
<1>1. sh \in Content /\ d \in Content /\ OwnLine(c, sh, d, r, z, s, new)
  BY OwnLineWritten
<1>2. HasRec(c, r) /\ RecordsApart(c, s, e) /\ s <= e
  BY DEF Replaces
<1>3. HeadersOf(sh, q) = {g} /\ g \in Nat /\ LineAt(sh, AsciiLine(c, q)) = LineAt(c, AsciiLine(c, q))
  BY <1>2, SameSizeWords
<1>4. HeadersOf(sh, r) = {h} /\ h \in Nat
  BY <1>2, SameSizeWords
<1>5. HeaderLine(d, q) = g
  <2> HIDE DEF sh, g
  <2> QED BY <1>1, <1>3, WordsWritten DEF OwnLine
<1>6. AsciiLine(d, q) = AsciiLine(c, q) /\ AsciiLine(c, q) = g + 2 /\ AsciiLine(c, r) = h + 2
  BY <1>5 DEF AsciiLine
<1>7. CASE q # r
  <2>1. AsciiLine(c, q) # AsciiLine(c, r) /\ AsciiLine(c, q) \in Int
    <3> HIDE DEF sh, g, h
    <3> QED BY <1>1, <1>3, <1>4, <1>6, <1>7, OtherAscii
  <2> HIDE DEF sh
  <2> QED BY <1>1, <1>3, <1>6, <2>1 DEF OwnLine
<1>8. CASE q = r
  <2>1. ZonesIn(line)[z] = [start |-> s, end |-> e] /\ ZonesIn(line)[z] # NoZone
    BY DEF Replaces, CanReplace, ZoneHere
  <2>2. line.kind = "hex" /\ line \in Line
    <3>1. line.kind = "hex"
      BY <2>1 DEF ZonesIn
    <3>2. AsciiLine(c, r) \in Int
      BY <1>4, <1>6
    <3> QED BY <3>1, <3>2, LineAtType DEF Content
  <2>3. line = HexLine(ZonesIn(line)) /\ ZonesIn(line) \in Zones
    <3> HIDE DEF line
    <3>1. line \in [kind : {"hex"}, zones : Zones]
      BY <2>2 DEF Line, Blank, Marker
    <3> QED BY <3>1 DEF HexLine, ZonesIn
  <2>4. Extent(s, Len(new)) = [start |-> s, end |-> e]
    <3>1. Len(new) # 0 /\ s + Len(new) - 1 = e
      BY <1>2
    <3> QED BY <3>1 DEF Extent
  <2>5. [ZonesIn(line) EXCEPT ![z] = Extent(s, Len(new))] = ZonesIn(line)
    <3> HIDE DEF line
    <3> QED BY <2>1, <2>3, <2>4 DEF Zones
  <2>6. LineAt(d, AsciiLine(c, r)) = line
    BY <1>1, <2>3, <2>5 DEF OwnLine
  <2> QED BY <1>6, <1>8, <2>6
<1> QED BY <1>7, <1>8

\* Nor does it touch the text of a zone apart from it, but those it forgets.
LEMMA ReplacedKeepsContents ==
  ASSUME NEW c \in Content, Loadable(c), NEW r \in Rec, NEW z \in ZoneIdx,
         NEW new \in Seq(Prose), NEW s \in Nat, NEW e \in Nat, Replaces(c, r, z, s, e, new),
         NEW q \in Rec, NEW y \in ZoneIdx, << q, y >> # << r, z >>, Apart(c, q, y, s, e),
         Kept(c, ZoneAt(c, q, y).end, s, e),
         ~ (q = r /\ Len(new) # e - s + 1 /\ ZoneAt(c, q, y).start > e),
         NEW d, d = Replaced(c, AsciiLine(c, r), z, new)
  PROVE  Contents(d, q, y) = Contents(c, q, y)
<1> DEFINE sh == SpliceAndShift(c, s, e, new)
           line == LineAt(c, AsciiLine(c, r))
           h == HeaderLine(c, r)
           delta == Len(new) - (e - s + 1)
           g == ShiftWord(HeaderLine(c, q), e + 1, delta)
<1>1. sh \in Content /\ d \in Content /\ OwnLine(c, sh, d, r, z, s, new)
  BY OwnLineWritten
<1>2. HasRec(c, r) /\ RecordsApart(c, s, e) /\ s <= e /\ HexWordsStay(c, s, e, new)
  BY DEF Replaces
<1>3. Tame(c, s, e, new) /\ Len(new) \in Nat /\ new \in Seq(Line)
  BY ProseIsTame, ProseSeq, LenProperties
<1>4. /\ HasRec(c, q) /\ HeaderLine(c, q) \in Nat
      /\ HeaderLine(c, q) + 6 < s \/ HeaderLine(c, q) > e
      /\ ZoneAt(c, q, y) # NoZone /\ ZoneAt(c, q, y) \in ZonePair
      /\ ZoneAt(c, q, y).start \in Nat /\ ZoneAt(c, q, y).end \in Nat
      /\ ZoneAt(c, q, y).start <= ZoneAt(c, q, y).end
      /\ ZoneAt(c, q, y).end < s \/ ZoneAt(c, q, y).start > e
  BY ApartFacts
<1>5. /\ HeadersOf(sh, q) = {g} /\ HeaderLine(sh, q) = g
      /\ LineAt(sh, AsciiLine(sh, q)) =
           IF LineAt(c, AsciiLine(c, q)).kind = "hex"
           THEN ShiftHexLine(LineAt(c, AsciiLine(c, q)), e + 1, delta)
           ELSE LineAt(c, AsciiLine(c, q))
  <2>1. HeaderLine(c, q) + 2 < s \/ HeaderLine(c, q) > e
    BY <1>4
  <2>2. s <= e + 1
    BY <1>2
  <2> QED BY <1>2, <1>3, <1>4, <2>1, <2>2, RecordFollows
<1>6. g \in Nat /\ h \in Nat
  <2>1. h \in Nat
    BY <1>2, TheRecord
  <2>2. g \in Nat
    BY <1>3, <1>4 DEF ShiftWord
  <2> QED BY <2>1, <2>2
<1>7. s = 0 => new # << >>
  <2>1. SUFFICES ASSUME s = 0, new = << >> PROVE FALSE
    OBVIOUS
  <2>2. Len(new) # e - s + 1
    BY <1>2, <2>1
  <2>3. AsciiLine(c, r) < s
    BY <2>2 DEF Replaces
  <2> QED BY <1>6, <2>1, <2>3 DEF AsciiLine
<1>8. AsciiLine(sh, q) = g + 2 /\ AsciiLine(c, r) = h + 2
  BY <1>5 DEF AsciiLine
<1>9. ZonesIn(LineAt(d, AsciiLine(sh, q)))[y] = ZoneAt(sh, q, y)
  <2>1. CASE q # r
    <3>1. HeadersOf(sh, r) = {h}
      BY <1>1 DEF OwnLine
    <3>2. AsciiLine(sh, q) # AsciiLine(c, r) /\ AsciiLine(sh, q) \in Int
      <4> HIDE DEF sh, g, h
      <4> QED BY <1>1, <1>5, <1>6, <1>8, <2>1, <3>1, OtherAscii
    <3>3. LineAt(d, AsciiLine(sh, q)) = LineAt(sh, AsciiLine(sh, q))
      <4> HIDE DEF sh
      <4> QED BY <1>1, <3>2 DEF OwnLine
    <3> QED BY <3>3 DEF ZoneAt
  <2>2. CASE q = r
    <3>1. HeaderLine(sh, r) = h
      <4>1. HeadersOf(sh, r) = {h}
        BY <1>1 DEF OwnLine
      <4> QED BY <4>1 DEF HeaderLine
    <3>2. AsciiLine(sh, q) = AsciiLine(c, r)
      BY <1>8, <2>2, <3>1 DEF AsciiLine
    <3>3. y # z
      BY <2>2
    <3>4. line.kind = "hex" /\ line.zones = ZonesIn(line) /\ ZonesIn(line) \in Zones
      <4>1. line.kind = "hex"
        BY <1>4, <2>2 DEF ZoneAt, ZonesIn
      <4>2. ZonesIn(line) \in Zones
        BY <1>6, <1>8, <4>1, ZonesThereType DEF IsHexWords
      <4> QED BY <4>1, <4>2 DEF ZonesIn
    <3>5. ZonesIn(LineAt(d, AsciiLine(c, r)))[y] = ZonesIn(line)[y]
      <4>1. LineAt(d, AsciiLine(c, r)) = HexLine([ZonesIn(line) EXCEPT ![z] = Extent(s, Len(new))])
        BY <1>1 DEF OwnLine
      <4> HIDE DEF line
      <4> QED BY <3>3, <3>4, <4>1 DEF HexLine, ZonesIn, Zones
    <3>6. ZoneAt(sh, q, y) = ShiftPair(ZonesIn(line)[y], e + 1, delta)
      <4>1. LineAt(sh, AsciiLine(sh, q)) = ShiftHexLine(line, e + 1, delta)
        BY <1>5, <2>2, <3>4
      <4> HIDE DEF line, sh
      <4> QED BY <3>4, <4>1 DEF ZoneAt, ShiftHexLine, HexLine, ZonesIn
    <3>7. ShiftPair(ZonesIn(line)[y], e + 1, delta) = ZonesIn(line)[y]
      <4> DEFINE p == ZonesIn(line)[y]
      <4>1. p = ZoneAt(c, q, y)
        BY <2>2 DEF ZoneAt
      <4>2. p = [start |-> p.start, end |-> p.end] /\ p.start \in Nat /\ p.end \in Nat
        BY <1>4, <4>1 DEF ZonePair
      <4>3. (p.end < s /\ p.start < s) \/ Len(new) = e - s + 1
        BY <1>4, <2>2, <4>1
      <4> HIDE DEF p
      <4>4. ShiftWord(p.start, e + 1, delta) = p.start /\ ShiftWord(p.end, e + 1, delta) = p.end
        BY <1>2, <1>3, <4>2, <4>3 DEF ShiftWord
      <4>5. ShiftPair(p, e + 1, delta) = p
        BY <4>2, <4>4 DEF ShiftPair
      <4> QED BY <4>5 DEF p
    <3> QED BY <3>2, <3>5, <3>6, <3>7
  <2> QED BY <2>1, <2>2
<1>10. Rewords(sh, d)
  BY <1>1 DEF OwnLine
<1> HIDE DEF h, delta, g, line
<1>11. sh = SpliceAndShift(c, s, e, new)
  OBVIOUS
<1> HIDE DEF sh
<1> QED BY <1>1, <1>2, <1>7, <1>9, <1>10, <1>11, ShiftedContents

\* So state-compare names its zone, and nothing else that keeps clear of the edit.
LEMMA ReplacedNamed ==
  ASSUME NEW c \in Content, Scans(c), NEW r \in Rec, NEW z \in ZoneIdx,
         NEW new \in Seq(Prose), NEW s \in Nat, NEW e \in Nat, Replaces(c, r, z, s, e, new),
         Propped(c, s, e), NEW cmd \in ZoneCommands,
         NEW l, l = Report(cmd, {<< r, z >>}, s, e, new),
         NEW d, d = Replaced(c, AsciiLine(c, r), z, new)
  PROVE  EditOnly(c, d, l)
<1>1. Loadable(c) /\ d \in Content
  <2>1. Loadable(c)
    BY DEF Scans
  <2> QED BY <2>1, OwnLineWritten
<1>2. PICK f : Follows(c, d, f)
  <2>1. HasRec(c, r) /\ CanReplace(c, AsciiLine(c, r), z, new)
        /\ ZoneHere(c, AsciiLine(c, r), z) = [start |-> s, end |-> e]
        /\ HexWordsStay(c, s, e, new) /\ (Len(new) # e - s + 1 => AsciiLine(c, r) < s)
        /\ RecordsApart(c, s, e)
    BY DEF Replaces
  <2>2. s <= e + 1
    BY DEF Replaces
  <2> QED BY <1>1, <2>1, <2>2, ReplacedFollows
<1>3. /\ \A q \in Rec : HasRec(d, q) => HasRec(c, q)
      /\ \A q \in Rec : HasRec(c, q) => Readable(d, q)
  BY <1>1, <1>2, FollowsScans
<1>4. DOMAIN State(d) = DOMAIN State(c) /\ \A q \in DOMAIN State(c) : q \in Rec /\ HasRec(c, q)
  BY <1>3, SameRecords
<1>5. /\ l.keys = {<< r, z >>} /\ l.from = s /\ l.to = e /\ l.new = new /\ l.cmd = cmd
      /\ Resizes(l) <=> Len(new) # e - s + 1
  BY DEF Report, Resizes
<1>6. ASSUME NEW q \in DOMAIN State(c)
      PROVE  /\ q \in Rec /\ HasRec(c, q)
             /\ StringSlots(d, q) # StringSlots(c, q) => Entangled(c, q)
             /\ NumbersOf(d, q) = NumbersOf(c, q)
  BY <1>1, <1>2, <1>4, <1>6, FollowsFields
<1>7. ASSUME NEW q \in DOMAIN State(c)
      PROVE  LineAt(d, AsciiLine(d, q)) # LineAt(c, AsciiLine(c, q)) => Resizes(l)
  <2>1. CASE Resizes(l)
    BY <2>1
  <2>2. CASE Len(new) = e - s + 1
    BY <1>1, <1>6, <1>7, <2>2, ReplacedKeepsWords
  <2> QED BY <1>5, <2>1, <2>2
<1>8. ASSUME NEW q \in DOMAIN State(c), NEW y \in ZoneIdx
      PROVE  Contents(d, q, y) # Contents(c, q, y) =>
               \/ << q, y >> \in l.keys
               \/ ~ Apart(c, q, y, l.from, l.to)
               \/ ~ Kept(c, ZoneAt(c, q, y).end, l.from, l.to)
               \/ LaterSibling(c, l, << q, y >>)
  <2>1. SUFFICES ASSUME << q, y >> \notin l.keys, Apart(c, q, y, l.from, l.to),
                        Kept(c, ZoneAt(c, q, y).end, l.from, l.to),
                        ~ LaterSibling(c, l, << q, y >>)
                 PROVE  Contents(d, q, y) = Contents(c, q, y)
    OBVIOUS
  <2>2. q \in Rec
    BY <1>6, <1>8
  <2>3. << q, y >> # << r, z >>
    BY <1>5, <2>1
  <2>4. ~ (q = r /\ Len(new) # e - s + 1 /\ ZoneAt(c, q, y).start > e)
    <3>1. SUFFICES ASSUME q = r, Len(new) # e - s + 1, ZoneAt(c, q, y).start > e
                   PROVE  LaterSibling(c, l, << q, y >>)
      BY <2>1
    <3>2. l.cmd \in ZoneCommands /\ Resizes(l) /\ ZoneAt(c, q, y).start > l.to
      BY <1>5, <3>1
    <3>3. \E j \in l.keys : j[1] = q
      <4>1. << r, z >> \in l.keys /\ << r, z >>[1] = q
        BY <1>5, <3>1
      <4> QED BY <4>1
    <3> QED BY <3>2, <3>3 DEF LaterSibling
  <2>5. Apart(c, q, y, s, e) /\ Kept(c, ZoneAt(c, q, y).end, s, e)
    BY <1>5, <2>1
  <2> QED BY <1>1, <2>2, <2>3, <2>4, <2>5, ReplacedKeepsContents
<1> QED BY <1>4, <1>6, <1>7, <1>8 DEF EditOnly

(***************************************************************************)
(* hex-replace.                                                            *)
(***************************************************************************)
\* The pair of lines s .. e, read in the shifted text, was that pair before: a zone
\* apart from the lines does not take them for its own.
LEMMA HexReplacedRewords ==
  ASSUME NEW c \in Content, Loadable(c), NEW s \in Nat, NEW e \in Nat,
         NEW new \in Seq(Prose), CanHexReplace(c, s, e, new)
  PROVE  /\ SpliceAndShift(c, s, e, new) \in Content /\ HexReplaced(c, s, e, new) \in Content
         /\ Rewords(SpliceAndShift(c, s, e, new), HexReplaced(c, s, e, new))
<1> DEFINE sh == SpliceAndShift(c, s, e, new)
           d  == HexReplaced(c, s, e, new)
<1>1. new \in Seq(Line)
  BY ProseSeq
<1>2. sh \in Content /\ d \in Content
  BY <1>1, SpliceAndShiftType, HexReplacedType
<1>3. ASSUME NEW n \in Int
      PROVE  \/ LineAt(d, n) = LineAt(sh, n)
             \/ /\ LineAt(d, n).kind = "hex"
                /\ LineAt(sh, n).kind \notin {"marker", "index"}
                /\ n - 2 \in Headers(sh)
  <2>0.   \/ LineAt(HexReplaced(c, s, e, new), n) = LineAt(SpliceAndShift(c, s, e, new), n)
        \/ /\ n \in Nat /\ n - 2 \in Headers(SpliceAndShift(c, s, e, new))
           /\ IsHexWords(LineAt(SpliceAndShift(c, s, e, new), n))
           /\ \E z \in ZoneIdx :
                ZoneHere(SpliceAndShift(c, s, e, new), n, z) = [start |-> s, end |-> e]
           /\ LineAt(HexReplaced(c, s, e, new), n) =
                HexLine([z \in ZoneIdx |->
                           IF ZoneHere(SpliceAndShift(c, s, e, new), n, z)
                                = [start |-> s, end |-> e]
                           THEN Extent(s, Len(new))
                           ELSE ZoneHere(SpliceAndShift(c, s, e, new), n, z)])
    BY <1>1, HexReplacedReads
  <2>1. \/ LineAt(d, n) = LineAt(sh, n)
        \/ /\ n - 2 \in Headers(sh) /\ IsHexWords(LineAt(sh, n))
           /\ \E zs : LineAt(d, n) = HexLine(zs)
    BY <2>0
  <2> HIDE DEF sh, d
  <2> QED BY <2>1 DEF IsHexWords, HexLine
<1> HIDE DEF sh, d
<1>4. Rewords(sh, d)
  BY <1>3 DEF Rewords
<1> QED BY <1>2, <1>4 DEF sh, d

\* One hex-word line of a record after hex-replace.
LEMMA HexReplacedWords ==
  ASSUME NEW c \in Content, NEW s \in Nat, NEW e \in Nat, NEW new \in Seq(Prose),
         CanHexReplace(c, s, e, new), NEW n \in Int, NEW y \in ZoneIdx,
         ZonesIn(LineAt(SpliceAndShift(c, s, e, new), n))[y] # [start |-> s, end |-> e]
  PROVE  ZonesIn(LineAt(HexReplaced(c, s, e, new), n))[y]
           = ZonesIn(LineAt(SpliceAndShift(c, s, e, new), n))[y]
<1> DEFINE sh == SpliceAndShift(c, s, e, new)
           d  == HexReplaced(c, s, e, new)
           zs == [z \in ZoneIdx |-> IF ZoneHere(sh, n, z) = [start |-> s, end |-> e]
                                    THEN Extent(s, Len(new)) ELSE ZoneHere(sh, n, z)]
<1>1. new \in Seq(Line)
  BY ProseSeq
<1>2. LineAt(d, n) = LineAt(sh, n) \/ LineAt(d, n) = HexLine(zs)
  BY <1>1, HexReplacedReads
<1> HIDE DEF sh, d
<1>3. CASE LineAt(d, n) = LineAt(sh, n)
  BY <1>3 DEF sh, d
<1>4. CASE LineAt(d, n) = HexLine(zs)
  <2>1. ZoneHere(sh, n, y) = ZonesIn(LineAt(sh, n))[y]
    BY DEF ZoneHere
  <2>2. ZonesIn(LineAt(d, n)) = zs
    BY <1>4 DEF HexLine, ZonesIn
  <2>3. ZonesIn(LineAt(d, n))[y] = ZonesIn(LineAt(sh, n))[y]
    BY <2>1, <2>2 DEF sh
  <2> QED BY <2>3 DEF sh, d
<1> QED BY <1>2, <1>3, <1>4

\* A zone apart from the lines hex-replace wrote says what it said.
LEMMA HexReplacedKeepsContents ==
  ASSUME NEW c \in Content, Loadable(c), NEW s \in Nat, NEW e \in Nat, NEW new \in Seq(Prose),
         new # << >>, CanHexReplace(c, s, e, new), HexWordsStay(c, s, e, new),
         RecordsApart(c, s, e), NEW q \in Rec, NEW y \in ZoneIdx, Apart(c, q, y, s, e),
         Kept(c, ZoneAt(c, q, y).end, s, e), NEW d, d = HexReplaced(c, s, e, new)
  PROVE  Contents(d, q, y) = Contents(c, q, y)
<1> DEFINE sh == SpliceAndShift(c, s, e, new)
           delta == Len(new) - (e - s + 1)
           p == ZoneAt(c, q, y)
           line == LineAt(c, AsciiLine(c, q))
<1>1. sh \in Content /\ d \in Content /\ Rewords(sh, d)
  BY HexReplacedRewords
<1>2. s <= e
  BY DEF CanHexReplace
<1>3. Tame(c, s, e, new) /\ Len(new) \in Nat \ {0} /\ new \in Seq(Line)
  BY ProseIsTame, ProseSeq, LenProperties, EmptySeq
<1>4. /\ HasRec(c, q) /\ HeaderLine(c, q) \in Nat
      /\ HeaderLine(c, q) + 6 < s \/ HeaderLine(c, q) > e
      /\ p # NoZone /\ p \in ZonePair /\ p.start \in Nat /\ p.end \in Nat
      /\ p.start <= p.end /\ (p.end < s \/ p.start > e)
  BY ApartFacts
<1>5. /\ HeaderLine(sh, q) = ShiftWord(HeaderLine(c, q), e + 1, delta)
      /\ LineAt(sh, AsciiLine(sh, q)) =
           IF line.kind = "hex" THEN ShiftHexLine(line, e + 1, delta) ELSE line
  <2>1. HeaderLine(c, q) + 2 < s \/ HeaderLine(c, q) > e
    BY <1>4
  <2>2. s <= e + 1
    BY <1>2
  <2> QED BY <1>2, <1>3, <1>4, <2>1, <2>2, RecordFollows
<1>6. AsciiLine(sh, q) \in Int
  <2>1. HeaderLine(sh, q) \in Nat
    BY <1>3, <1>4, <1>5 DEF ShiftWord
  <2> QED BY <2>1 DEF AsciiLine
<1>7. line.kind = "hex"
  BY <1>4 DEF ZoneAt, ZonesIn
<1>8. ZoneAt(sh, q, y) = ShiftPair(p, e + 1, delta)
  <2>1. LineAt(sh, AsciiLine(sh, q)) = ShiftHexLine(line, e + 1, delta)
    BY <1>5, <1>7
  <2>2. p = line.zones[y]
    BY <1>7 DEF ZoneAt, ZonesIn
  <2> HIDE DEF line, sh, p
  <2> QED BY <2>1, <2>2 DEF ZoneAt, ShiftHexLine, HexLine, ZonesIn
<1>9. ZoneAt(sh, q, y) # [start |-> s, end |-> e]
  <2>1. ZoneAt(sh, q, y).start = ShiftWord(p.start, e + 1, delta)
    BY <1>8 DEF ShiftPair
  <2> HIDE DEF p, sh
  <2>2. ShiftWord(p.start, e + 1, delta) # s
    BY <1>2, <1>3, <1>4 DEF ShiftWord
  <2> QED BY <2>1, <2>2
<1>10. ZonesIn(LineAt(d, AsciiLine(sh, q)))[y] = ZoneAt(sh, q, y)
  <2> HIDE DEF p, line, delta
  <2>1. ZonesIn(LineAt(sh, AsciiLine(sh, q)))[y] # [start |-> s, end |-> e]
    BY <1>9 DEF ZoneAt
  <2>2. ZonesIn(LineAt(d, AsciiLine(sh, q)))[y] = ZonesIn(LineAt(sh, AsciiLine(sh, q)))[y]
    BY <1>6, <2>1, HexReplacedWords
  <2> QED BY <2>2 DEF ZoneAt
<1> HIDE DEF p, line, delta
<1>11. sh = SpliceAndShift(c, s, e, new)
  OBVIOUS
<1>12. Kept(c, ZoneAt(c, q, y).end, s, e)
  OBVIOUS
<1> HIDE DEF sh
<1> QED BY <1>1, <1>2, <1>10, <1>11, <1>12, ShiftedContents

\* Where as many lines come as go, hex-replace rewrites no hex-words, except that it
\* spells out empty ones when line 0 is replaced, whose pair is the empty zone's.
LEMMA HexReplacedKeepsWords ==
  ASSUME NEW c \in Content, Loadable(c), NEW s \in Nat, NEW e \in Nat, NEW new \in Seq(Prose),
         CanHexReplace(c, s, e, new), RecordsApart(c, s, e), Len(new) = e - s + 1,
         NEW q \in Rec, HasRec(c, q), NEW d, d = HexReplaced(c, s, e, new)
  PROVE  \/ LineAt(d, AsciiLine(d, q)) = LineAt(c, AsciiLine(c, q))
         \/ /\ LineAt(c, AsciiLine(c, q)) = Blank
            /\ \E y \in ZoneIdx : ZoneAt(c, q, y) = [start |-> s, end |-> e]
<1> DEFINE sh == SpliceAndShift(c, s, e, new)
           a == AsciiLine(c, q)
           line == LineAt(c, a)
           here == [start |-> s, end |-> e]
           g == HeaderLine(c, q)
<1>1. sh \in Content /\ d \in Content /\ Rewords(sh, d)
  BY HexReplacedRewords
<1>2. s <= e /\ new \in Seq(Line)
  BY ProseSeq DEF CanHexReplace
<1>3. HeadersOf(sh, q) = {g} /\ g \in Nat /\ LineAt(sh, a) = line
  BY <1>2, SameSizeWords
<1>4. HeaderLine(d, q) = g
  <2> HIDE DEF sh, g
  <2> QED BY <1>1, <1>3, WordsWritten
<1>5. AsciiLine(d, q) = a /\ a \in Int
  BY <1>3, <1>4 DEF AsciiLine
<1>6. \A z \in ZoneIdx : ZoneHere(sh, a, z) = ZonesIn(line)[z]
  BY <1>3 DEF ZoneHere
<1>7. Extent(s, Len(new)) = here
  <2>1. Len(new) # 0 /\ s + Len(new) - 1 = e
    BY <1>2
  <2> QED BY <2>1 DEF Extent
<1>8. \/ LineAt(d, a) = LineAt(sh, a)
      \/ /\ IsHexWords(LineAt(sh, a))
         /\ \E z \in ZoneIdx : ZoneHere(sh, a, z) = here
         /\ LineAt(d, a) = HexLine([z \in ZoneIdx |->
                              IF ZoneHere(sh, a, z) = here
                              THEN Extent(s, Len(new)) ELSE ZoneHere(sh, a, z)])
  BY <1>2, <1>5, HexReplacedReads
<1>9. CASE LineAt(d, a) = LineAt(sh, a)
  BY <1>3, <1>5, <1>9
<1>10. CASE /\ IsHexWords(LineAt(sh, a))
            /\ \E z \in ZoneIdx : ZoneHere(sh, a, z) = here
            /\ LineAt(d, a) = HexLine([z \in ZoneIdx |->
                              IF ZoneHere(sh, a, z) = here
                              THEN Extent(s, Len(new)) ELSE ZoneHere(sh, a, z)])
  <2>1. LineAt(d, a) = HexLine([z \in ZoneIdx |-> ZonesIn(line)[z]])
    <3> HIDE DEF sh, a, line, here
    <3>1. [z \in ZoneIdx |-> IF ZoneHere(sh, a, z) = here
                             THEN Extent(s, Len(new)) ELSE ZoneHere(sh, a, z)]
            = [z \in ZoneIdx |-> ZonesIn(line)[z]]
      BY <1>6, <1>7
    <3> QED BY <1>10, <3>1
  <2>2. IsHexWords(line) /\ line \in Line
    BY <1>3, <1>5, <1>10, LineAtType DEF Content
  <2>3. CASE line.kind = "hex"
    <3> HIDE DEF line
    <3>1. line \in [kind : {"hex"}, zones : Zones]
      BY <2>2, <2>3 DEF Line, Blank, Marker
    <3>2. HexLine([z \in ZoneIdx |-> ZonesIn(line)[z]]) = line
      <4>1. [z \in ZoneIdx |-> line.zones[z]] = line.zones /\ line = [kind |-> "hex", zones |-> line.zones]
        BY <3>1 DEF Zones
      <4>2. ZonesIn(line) = line.zones
        BY <2>3 DEF ZonesIn
      <4> QED BY <4>1, <4>2 DEF HexLine
    <3>3. LineAt(d, a) = line
      BY <2>1, <3>2
    <3> QED BY <1>5, <3>3 DEF line
  <2>4. CASE line.kind = "blank"
    <3>1. line = Blank
      <4> HIDE DEF line
      <4> QED BY <2>2, <2>4 DEF Line, Blank, Marker
    <3>2. \E y \in ZoneIdx : ZoneAt(c, q, y) = here
      BY <1>6, <1>10 DEF ZoneAt
    <3> QED BY <3>1, <3>2
  <2> QED BY <2>2, <2>3, <2>4 DEF IsHexWords
<1> QED BY <1>8, <1>9, <1>10

\* So hex-replace, for state-compare, changes the zones of its lines and moves words.
LEMMA HexReplacedNamed ==
  ASSUME NEW c \in Content, Scans(c), NEW s \in Nat, NEW e \in Nat, NEW new \in Seq(Prose),
         new # << >>, CanHexReplace(c, s, e, new), HexWordsStay(c, s, e, new),
         RecordsApart(c, s, e), Propped(c, s, e),
         NEW l, l.from = s, l.to = e, l.new = new,
         \A q \in Rec, y \in ZoneIdx :
           HasRec(c, q) /\ ZoneAt(c, q, y) = [start |-> s, end |-> e] => << q, y >> \in l.keys,
         NEW d, d = HexReplaced(c, s, e, new)
  PROVE  EditOnly(c, d, l)
<1>1. Loadable(c) /\ d \in Content
  <2>1. Loadable(c)
    BY DEF Scans
  <2> QED BY <2>1, HexReplacedRewords
<1>2. PICK f : Follows(c, d, f)
  BY <1>1, HexReplacedFollows
<1>3. /\ \A q \in Rec : HasRec(d, q) => HasRec(c, q)
      /\ \A q \in Rec : HasRec(c, q) => Readable(d, q)
  BY <1>1, <1>2, FollowsScans
<1>4. DOMAIN State(d) = DOMAIN State(c) /\ \A q \in DOMAIN State(c) : q \in Rec /\ HasRec(c, q)
  BY <1>3, SameRecords
<1>5. Resizes(l) <=> Len(new) # e - s + 1
  BY DEF Resizes
<1>6. ASSUME NEW q \in DOMAIN State(c)
      PROVE  /\ q \in Rec /\ HasRec(c, q)
             /\ StringSlots(d, q) # StringSlots(c, q) => Entangled(c, q)
             /\ NumbersOf(d, q) = NumbersOf(c, q)
  BY <1>1, <1>2, <1>4, <1>6, FollowsFields
<1>7. ASSUME NEW q \in DOMAIN State(c)
      PROVE  LineAt(d, AsciiLine(d, q)) # LineAt(c, AsciiLine(c, q)) =>
               \/ Resizes(l)
               \/ /\ \E y \in ZoneIdx : << q, y >> \in l.keys
                  /\ LineAt(c, AsciiLine(c, q)) = Blank
  <2>1. CASE Resizes(l)
    BY <2>1
  <2>2. CASE Len(new) = e - s + 1
    <3>1. \/ LineAt(d, AsciiLine(d, q)) = LineAt(c, AsciiLine(c, q))
          \/ /\ LineAt(c, AsciiLine(c, q)) = Blank
             /\ \E y \in ZoneIdx : ZoneAt(c, q, y) = [start |-> s, end |-> e]
      BY <1>1, <1>6, <1>7, <2>2, HexReplacedKeepsWords
    <3> QED BY <1>6, <1>7, <3>1
  <2> QED BY <1>5, <2>1, <2>2
<1>8. ASSUME NEW q \in DOMAIN State(c), NEW y \in ZoneIdx
      PROVE  Contents(d, q, y) # Contents(c, q, y) =>
               \/ << q, y >> \in l.keys
               \/ ~ Apart(c, q, y, l.from, l.to)
               \/ ~ Kept(c, ZoneAt(c, q, y).end, l.from, l.to)
               \/ LaterSibling(c, l, << q, y >>)
  <2>1. CASE Apart(c, q, y, s, e) /\ Kept(c, ZoneAt(c, q, y).end, s, e)
    <3>1. q \in Rec
      BY <1>6, <1>8
    <3> QED BY <1>1, <2>1, <3>1, HexReplacedKeepsContents
  <2> QED BY <2>1
<1> QED BY <1>4, <1>6, <1>7, <1>8 DEF EditOnly

(***************************************************************************)
(* Whatever state-compare prints after a write is what the write may do.   *)
(***************************************************************************)
LEMMA OwnOnlyCompared ==
  ASSUME NEW ref, ref.kind \in IndexKinds, OwnOnly(doc, doc', ref, last'.from, last'.to),
         NEW change \in Changes(State(doc), State(doc'))
  PROVE  MayChange(ref, change)
<1> DEFINE c == doc
           d == doc'
           t == last'.from
           u == last'.to
<1>1. DOMAIN State(d) = DOMAIN State(c)
  BY DEF OwnOnly
<1>2. PICK q \in DOMAIN State(c) :
           \/ StringSlots(d, q) # StringSlots(c, q) /\ change = << "strings", q, 0 >>
           \/ NumbersOf(d, q) # NumbersOf(c, q) /\ change = << "db", q, 0 >>
           \/ /\ LineAt(d, AsciiLine(d, q)) # LineAt(c, AsciiLine(c, q))
              /\ change = << "hexline", q, 0 >>
           \/ \E y \in ZoneIdx :
                Contents(d, q, y) # Contents(c, q, y) /\ change = << "content", q, y >>
  BY <1>1, ChangesNamed
<1>3. /\ StringSlots(d, q) # StringSlots(c, q) =>
           Entangled(c, q) \/ (q = ref.rec /\ ref.kind = "string")
      /\ NumbersOf(d, q) # NumbersOf(c, q) => q = ref.rec /\ ref.kind \in {"number", "numbers"}
      /\ LineAt(d, AsciiLine(d, q)) # LineAt(c, AsciiLine(c, q)) =>
           \/ q = ref.rec /\ ref.kind \in {"hexline", "zonehex"}
           \/ q = ref.rec /\ LineAt(c, AsciiLine(c, q)) = Blank
      /\ \A y \in ZoneIdx : Contents(d, q, y) # Contents(c, q, y) =>
           \/ q = ref.rec /\ ref.kind \in {"hexline", "zonehex"}
           \/ ~ Apart(c, q, y, t, u)
           \/ ~ Kept(c, ZoneAt(c, q, y).end, t, u)
  BY DEF OwnOnly
<1>4. CASE StringSlots(d, q) # StringSlots(c, q) /\ change = << "strings", q, 0 >>
  BY <1>3, <1>4 DEF MayChange
<1>5. CASE NumbersOf(d, q) # NumbersOf(c, q) /\ change = << "db", q, 0 >>
  BY <1>3, <1>5 DEF MayChange
<1>6. CASE /\ LineAt(d, AsciiLine(d, q)) # LineAt(c, AsciiLine(c, q))
           /\ change = << "hexline", q, 0 >>
  BY <1>3, <1>6 DEF MayChange
<1>7. CASE \E y \in ZoneIdx :
             Contents(d, q, y) # Contents(c, q, y) /\ change = << "content", q, y >>
  BY <1>3, <1>7 DEF MayChange
<1> QED BY <1>2, <1>4, <1>5, <1>6, <1>7

LEMMA EditOnlyCompared ==
  ASSUME NEW ref, EditOnly(doc, doc', last'), NEW change \in Changes(State(doc), State(doc'))
  PROVE  MayChange(ref, change)
<1> DEFINE c == doc
           d == doc'
           l == last'
<1>1. DOMAIN State(d) = DOMAIN State(c)
  BY DEF EditOnly
<1>2. PICK q \in DOMAIN State(c) :
           \/ StringSlots(d, q) # StringSlots(c, q) /\ change = << "strings", q, 0 >>
           \/ NumbersOf(d, q) # NumbersOf(c, q) /\ change = << "db", q, 0 >>
           \/ /\ LineAt(d, AsciiLine(d, q)) # LineAt(c, AsciiLine(c, q))
              /\ change = << "hexline", q, 0 >>
           \/ \E y \in ZoneIdx :
                Contents(d, q, y) # Contents(c, q, y) /\ change = << "content", q, y >>
  BY <1>1, ChangesNamed
<1>3. /\ StringSlots(d, q) # StringSlots(c, q) => Entangled(c, q)
      /\ NumbersOf(d, q) = NumbersOf(c, q)
      /\ LineAt(d, AsciiLine(d, q)) # LineAt(c, AsciiLine(c, q)) =>
           \/ Resizes(l)
           \/ /\ \E y \in ZoneIdx : << q, y >> \in l.keys
              /\ LineAt(c, AsciiLine(c, q)) = Blank
      /\ \A y \in ZoneIdx : Contents(d, q, y) # Contents(c, q, y) =>
           \/ << q, y >> \in l.keys
           \/ ~ Apart(c, q, y, l.from, l.to)
           \/ ~ Kept(c, ZoneAt(c, q, y).end, l.from, l.to)
           \/ LaterSibling(c, l, << q, y >>)
  BY DEF EditOnly
<1>4. CASE StringSlots(d, q) # StringSlots(c, q) /\ change = << "strings", q, 0 >>
  BY <1>3, <1>4 DEF MayChange
<1>6. CASE /\ LineAt(d, AsciiLine(d, q)) # LineAt(c, AsciiLine(c, q))
           /\ change = << "hexline", q, 0 >>
  BY <1>3, <1>6 DEF MayChange
<1>7. CASE \E y \in ZoneIdx :
             Contents(d, q, y) # Contents(c, q, y) /\ change = << "content", q, y >>
  BY <1>3, <1>7 DEF MayChange
<1> QED BY <1>2, <1>3, <1>4, <1>6, <1>7

\* A field of a record, whichever: the file around it stands.
LEMMA FieldCompared ==
  ASSUME TextsJoin, doc \in Content, NEW ref \in TargetRef, NEW v \in Content,
         NEW append \in BOOLEAN, CanSet(doc, ref, v, append), Wrote(ref, v, append),
         doc' = SetRef(doc, ref, v, append),
         ref.kind \in {"string", "number", "numbers", "zonehex", "hexline"},
         ref.kind \in {"string", "hexline"} =>
           Len(Incoming(doc, ref, v, append)) = 1 /\ Incoming(doc, ref, v, append)[1] # Marker,
         ~ Entangled(doc, ref.rec), StillPropped(ref),
         NEW change \in Changes(State(doc), State(doc'))
  PROVE  MayChange(ref, change)
<1> DEFINE in == Incoming(doc, ref, v, append)
           at == AsciiLine(doc, ref.rec) + 1 + ref.slot
<1>1. /\ last'.from = Len(doc) /\ last'.to = Len(doc) - 1
      /\ Len(doc) \in Nat
  <2>1. ref.kind # "zone" /\ ref.kind # "lines"
    OBVIOUS
  <2>2. Ran("ref-set", {}, Len(doc), Len(doc) - 1, << >>)
    BY <2>1 DEF Wrote
  <2> QED BY <2>2, EmptySeq DEF Ran, Report, Content
<1>2. ref.kind \in IndexKinds
  BY DEF IndexKinds
<1>3. CASE ref.kind = "hexline"
  <2>1. in = v
    BY <1>3 DEF Incoming
  <2>2. Propped(doc, Len(doc), Len(doc) - 1)
    BY <1>1, <1>3 DEF StillPropped
  <2>3. Len(doc) \in Int /\ Len(doc) - 1 \in Int
    BY <1>1
  <2>4. Len(v) = 1 /\ v[1] # Marker
    BY <1>3, <2>1
  <2>5. \A t, u \in Int : OwnOnly(doc, SetRef(doc, ref, v, append), ref, t, u)
    BY <1>3, <2>2, <2>3, <2>4, HexWordsNamed
  <2>6. OwnOnly(doc, doc', ref, last'.from, last'.to)
    BY <1>1, <2>3, <2>5
  <2> QED BY <1>2, <2>6, OwnOnlyCompared
<1>4. CASE ref.kind \in {"string", "number", "numbers", "zonehex"}
  <2>1. ref.kind = "string" => Len(in) = 1 /\ in[1] # Marker
    OBVIOUS
  <2>2. \E s, e \in Int : /\ Propped(doc, s, e)
                          /\ ref.kind = "string" => HeaderLine(doc, ref.rec) + 3 + ref.slot \in s .. e
    <3>1. CASE ref.kind = "string"
      <4>1. HeaderLine(doc, ref.rec) \in Nat
        BY <3>1, HeaderLineType DEF CanSet, Scanned, Readable
      <4>2. ref.slot \in Nat
        BY <3>1 DEF TargetRef
      <4>3. at = HeaderLine(doc, ref.rec) + 3 + ref.slot
        BY <4>1, <4>2 DEF AsciiLine
      <4>4. Propped(doc, at, at)
        BY <3>1 DEF StillPropped
      <4> HIDE DEF at
      <4>5. at \in Int /\ at \in at .. at
        BY <4>1, <4>2, <4>3
      <4> QED BY <4>3, <4>4, <4>5
    <3>2. CASE ref.kind # "string"
      <4>1. Propped(doc, Len(doc), Len(doc) - 1)
        BY <1>1, <3>2 DEF StillPropped
      <4>2. Len(doc) \in Int /\ Len(doc) - 1 \in Int
        BY <1>1
      <4> QED BY <3>2, <4>1, <4>2
    <3> QED BY <3>1, <3>2
  <2>3. PICK s \in Int, e \in Int :
              /\ Propped(doc, s, e)
              /\ ref.kind = "string" => HeaderLine(doc, ref.rec) + 3 + ref.slot \in s .. e
    BY <2>2
  <2>4. \A t, u \in Int : OwnOnly(doc, SetRef(doc, ref, v, append), ref, t, u)
    BY <1>4, <2>1, <2>3, FieldsNamed
  <2>5. OwnOnly(doc, doc', ref, last'.from, last'.to)
    BY <1>1, <2>4
  <2> QED BY <1>2, <2>5, OwnOnlyCompared
<1> QED BY <1>3, <1>4

\* The text of a zone.
LEMMA ZoneCompared ==
  ASSUME TextsJoin, doc \in Content, NEW ref \in TargetRef, NEW v \in Content,
         NEW append \in BOOLEAN, CanSet(doc, ref, v, append), Wrote(ref, v, append),
         doc' = SetRef(doc, ref, v, append), ref.kind = "zone",
         CanState(doc), StraightEdit(doc, last'), NoRecordIn(doc, last'.from, last'.to),
         last'.from <= last'.to, StillPropped(ref),
         NEW change \in Changes(State(doc), State(doc'))
  PROVE  MayChange(ref, change)
<1> DEFINE new == Lines(Incoming(doc, ref, v, append))
           r == ref.rec
           z == ref.slot
           p == ZoneAt(doc, r, z)
           s == p.start
           e == p.end
           key == {<< r, z >>}
<1>1. last' = Report("zone-replace", key, s, e, new)
  BY DEF Wrote, Ran, RangeNamed
<1>2. /\ last'.cmd = "zone-replace" /\ last'.from = s /\ last'.to = e /\ last'.new = new
      /\ << r, z >> \in last'.keys
  BY <1>1 DEF Report
<1>3. /\ r \in Rec /\ z \in ZoneIdx /\ HasRec(doc, r) /\ Scans(doc) /\ Loadable(doc)
      /\ CanReplace(doc, AsciiLine(doc, r), z, new)
  BY DEF TargetRef, CanSet, Scanned, Readable, Scans
<1>4. p \in ZonePair
  BY <1>3, ZoneNamedType
<1>5. s \in Nat /\ e \in Nat /\ p = [start |-> s, end |-> e]
  <2> HIDE DEF p
  <2> QED BY <1>4 DEF ZonePair
<1>6. ZoneHere(doc, AsciiLine(doc, r), z) = [start |-> s, end |-> e]
  BY <1>5 DEF ZoneHere, ZoneAt
<1>7. doc' = Replaced(doc, AsciiLine(doc, r), z, new)
  BY DEF SetRef
<1>8. "zone-replace" \in ZoneCommands
  BY DEF ZoneCommands
<1>9. Propped(doc, s, e)
  BY <1>2 DEF StillPropped
<1> HIDE DEF p, s, e, key, new
<1>10. /\ new \in Seq(Prose) /\ s <= e /\ NoRecordIn(doc, s, e)
  BY <1>2 DEF StraightEdit
<1>11. HexWordsStay(doc, s, e, new)
  BY <1>2 DEF StraightEdit, Resizes, HexWordsStay
<1>12. Len(new) # e - s + 1 => AsciiLine(doc, r) < s
  <2>1. \A k \in last'.keys : Len(new) # e - s + 1 => AsciiLine(doc, k[1]) < s
    BY <1>2, <1>8 DEF StraightEdit, Resizes
  <2> QED BY <1>2, <2>1
<1>13. RecordsApart(doc, s, e)
  <2>1. s \in Int /\ e \in Int
    BY <1>5
  <2> QED BY <1>3, <1>10, <2>1, NoRecordIsApart
<1>14. Replaces(doc, r, z, s, e, new)
  BY <1>3, <1>6, <1>10, <1>11, <1>12, <1>13 DEF Replaces
<1>15. last' = Report("zone-replace", {<< r, z >>}, s, e, new)
  BY <1>1 DEF key
<1>16. EditOnly(doc, doc', last')
  <2> HIDE DEF r, z
  <2> QED BY <1>3, <1>5, <1>7, <1>8, <1>9, <1>10, <1>14, <1>15, ReplacedNamed
<1> QED BY <1>16, EditOnlyCompared

\* Lines of the file.
LEMMA LinesCompared ==
  ASSUME TextsJoin, doc \in Content, NEW ref \in TargetRef, NEW v \in Content,
         NEW append \in BOOLEAN, CanSet(doc, ref, v, append), Wrote(ref, v, append),
         doc' = SetRef(doc, ref, v, append), ref.kind = "lines",
         CanState(doc), StraightEdit(doc, last'), NoRecordIn(doc, last'.from, last'.to),
         StillPropped(ref), NEW change \in Changes(State(doc), State(doc'))
  PROVE  MayChange(ref, change)
<1> DEFINE new == Lines(Incoming(doc, ref, v, append))
           s == ref.start
           e == ref.end
           keys == {k \in Key : HasRec(doc, k[1]) /\ ZoneAt(doc, k[1], k[2]) = [start |-> s, end |-> e]}
<1>1. last' = Report("hex-replace", keys, s, e, new)
  BY DEF Wrote, Ran, RangeNamed
<1>2. /\ last'.cmd = "hex-replace" /\ last'.from = s /\ last'.to = e /\ last'.new = new
      /\ last'.keys = keys
  BY <1>1 DEF Report
<1>3. \A q \in Rec, y \in ZoneIdx :
        HasRec(doc, q) /\ ZoneAt(doc, q, y) = [start |-> s, end |-> e] => << q, y >> \in last'.keys
  BY <1>2 DEF Key
<1>4. s \in Nat /\ e \in Nat /\ CanHexReplace(doc, s, e, new)
  BY DEF TargetRef, CanSet
<1>5. Scans(doc) /\ Loadable(doc)
  BY DEF CanState, Scans
<1>6. doc' = HexReplaced(doc, s, e, new)
  BY DEF SetRef
<1>7. Propped(doc, s, e)
  BY <1>2 DEF StillPropped
<1> HIDE DEF keys, new, s, e
<1>8. new \in Seq(Prose) /\ new # << >> /\ NoRecordIn(doc, s, e)
  BY <1>2 DEF StraightEdit
<1>9. HexWordsStay(doc, s, e, new)
  BY <1>2 DEF StraightEdit, Resizes, HexWordsStay
<1>10. RecordsApart(doc, s, e)
  <2>1. s \in Int /\ e \in Int
    BY <1>4
  <2> QED BY <1>5, <1>8, <2>1, NoRecordIsApart
<1>11. EditOnly(doc, doc', last')
  BY <1>2, <1>3, <1>4, <1>5, <1>6, <1>7, <1>8, <1>9, <1>10, HexReplacedNamed
<1> QED BY <1>11, EditOnlyCompared

\* Only RefCopy ends a job with one write.
LEMMA StepComparesTheTarget == ASSUME TextsJoin PROVE RefsWhole /\ [RefsNext]_refVars => [Compared]_refVars
<1> DEFINE in == Incoming(doc, job'.to, job'.value, job'.append)
<1> SUFFICES ASSUME RefsWhole, RefsNext, job'.phase = "done", job.phase # "cleared",
                    CanState(doc), CanState(doc'),
                    StraightEdit(doc, last'), NoRecordIn(doc, last'.from, last'.to),
                    job'.to.kind = "zone" => last'.from <= last'.to,
                    job'.to.kind \in {"string", "hexline"} => Len(in) = 1 /\ in[1] # Marker,
                    job'.to.kind \in IndexKinds \ {"zone"} => ~ Entangled(doc, job'.to.rec),
                    StillPropped(job'.to),
                    NEW change \in Changes(State(doc), State(doc'))
             PROVE  MayChange(job'.to, change)
  BY DEF Compared
<1>0. doc \in Content
  BY DEF RefsWhole
<1>1. ASSUME NEW from \in Sources, NEW ref \in Targets, NEW append \in BOOLEAN,
             RefCopy(from, ref, append)
      PROVE  MayChange(job'.to, change)
  <2> DEFINE v == ReadRef(doc, from)
  <2>1. /\ CanRead(doc, from) /\ CanSet(doc, ref, v, append) /\ Wrote(ref, v, append)
        /\ doc' = SetRef(doc, ref, v, append)
        /\ job' = Job("done", from, ref, ref, v, append)
    BY <1>1 DEF RefCopy, Write
  <2>2. job'.to = ref /\ job'.value = v /\ job'.append = append
    BY <2>1 DEF Job
  <2>3. from \in SourceRef /\ ref \in TargetRef
    BY ReferenceAssumption
  <2>4. v \in Content
    BY <1>0, <2>1, <2>3, ReadType
  <2> HIDE DEF v
  <2>5. in = Incoming(doc, ref, v, append)
    BY <2>2
  <2>6. StillPropped(ref)
    BY <2>2
  <2>7. CASE ref.kind \in {"string", "number", "numbers", "zonehex", "hexline"}
    <3>1. ref.kind \in {"string", "hexline"} =>
            Len(Incoming(doc, ref, v, append)) = 1 /\ Incoming(doc, ref, v, append)[1] # Marker
      BY <2>2, <2>5
    <3>2. ~ Entangled(doc, ref.rec)
      BY <2>2, <2>7 DEF IndexKinds
    <3> HIDE DEF in
    <3>3. MayChange(ref, change)
      BY <1>0, <2>1, <2>3, <2>4, <2>6, <2>7, <3>1, <3>2, FieldCompared
    <3> QED BY <2>2, <3>3
  <2> HIDE DEF in
  <2>8. CASE ref.kind = "zone"
    <3>1. last'.from <= last'.to
      BY <2>2, <2>8
    <3>2. MayChange(ref, change)
      BY <1>0, <2>1, <2>3, <2>4, <2>6, <2>8, <3>1, ZoneCompared
    <3> QED BY <2>2, <3>2
  <2>9. CASE ref.kind = "lines"
    <3>1. MayChange(ref, change)
      BY <1>0, <2>1, <2>3, <2>4, <2>6, <2>9, LinesCompared
    <3> QED BY <2>2, <3>1
  <2> QED BY <2>3, <2>7, <2>8, <2>9 DEF TargetRef
<1>2. ASSUME NEW from \in Sources, NEW to \in Targets, NEW append \in BOOLEAN,
             MoveClears(from, to, append)
      PROVE  FALSE
  BY <1>2 DEF MoveClears, Job
<1>3. ~ MoveSets /\ ~ MoveFails /\ ~ MoveDies
  BY DEF MoveSets, MoveFails, MoveDies
<1>4. /\ ~ IndexZoneEdit /\ ~ Undo
      /\ \A other \in Layouts, r, q \in Rec, z, y \in ZoneIdx : ~ IndexZoneTransfer(other, r, z, q, y)
      /\ \A r \in Rec, z \in ZoneIdx, p \in Ranges : ~ ZoneSet(r, z, p)
  BY DEF IndexZoneEdit, Undo, IndexZoneTransfer, ZoneSet, NoJob
<1> QED BY <1>1, <1>2, <1>3, <1>4 DEF RefsNext

\* A state taken before a ref-set or ref-copy and one taken after it differ in what
\* the reference names, in the zones it meets and in the coordinates it moves, for
\* every file, reference and value (cmd_state_compare against what set_ref_value
\* wrote): no other field, no other record, no zone that keeps clear of the lines.
THEOREM StateCompareNames == ASSUME TextsJoin PROVE RefsSpec => StateCompareNamesTheTarget
<1>1. RefsInit => RefsWhole
  BY WholeAtFirst
<1>2. RefsWhole /\ [RefsNext]_refVars => RefsWhole'
  BY StepIsWhole
<1>3. RefsWhole /\ [RefsNext]_refVars => [Compared]_refVars
  BY StepComparesTheTarget
<1> QED BY <1>1, <1>2, <1>3, PTL DEF RefsSpec, StateCompareNamesTheTarget

(***************************************************************************)
(* A move and the one edit of its two ends.                                *)
(***************************************************************************)
\* Every set of numbers has a least one.
LEMMA LeastNatural ==
  ASSUME NEW T, T \subseteq Nat, T # {}
  PROVE  \E m \in T : \A k \in T : m <= k
<1> DEFINE Below(n) == {k \in Nat : k < n}
           U == {Below(n) : n \in T}
<1>1. \A n \in Nat : IsFiniteSet(Below(n))
  <2> TAKE n \in Nat
  <2>1. IsFiniteSet(0 .. n - 1) BY FS_Interval
  <2>2. Below(n) = 0 .. n - 1 OBVIOUS
  <2> QED BY <2>1, <2>2
<1>2. U \subseteq FiniteSubsetsOf(Nat) BY <1>1 DEF FiniteSubsetsOf
<1>3. U # {} OBVIOUS
<1>4. IsWellFoundedOn(StrictSubsetOrdering(Nat), FiniteSubsetsOf(Nat))
  BY FS_StrictSubsetOrderingWellFounded
<1>5. PICK x \in U : \A y \in U : ~ (<< y, x >> \in StrictSubsetOrdering(Nat))
  <2> HIDE DEF U
  <2> QED BY <1>2, <1>3, <1>4, WFMin
<1>6. PICK m \in T : x = Below(m) BY <1>5
<1>7. ASSUME NEW k \in T, k < m PROVE FALSE
  <2>1. Below(k) \in U /\ m \in Nat /\ k \in Nat OBVIOUS
  <2>2. Below(k) \subseteq Below(m) /\ k \in Below(m) /\ k \notin Below(k) BY <1>7, <2>1
  <2>3. Below(k) \subseteq Nat /\ Below(m) \subseteq Nat OBVIOUS
  <2>4. << Below(k), Below(m) >> \in StrictSubsetOrdering(Nat)
    BY <2>2, <2>3 DEF StrictSubsetOrdering
  <2> QED BY <1>5, <1>6, <2>1, <2>4
<1> QED BY <1>7

(***************************************************************************)
(* Payload.                                                                *)
(***************************************************************************)
Bare(line) == IF line.kind = "hex" THEN Blank ELSE line

\* Two texts with the same lines, coordinates and the empty end aside.
Alike(c, d) == \A i \in Nat : Bare(LineAt(c, i)) = Bare(LineAt(d, i))

\* The payload of c is its first n lines.
EndsAt(c, n) ==
  /\ \A i \in Nat : Bare(LineAt(c, i)) # Blank => i < n
  /\ n = 0 \/ Bare(LineAt(c, n - 1)) # Blank

\* Every text has a payload.
LEMMA EndIsSomewhere ==
  ASSUME NEW c \in Seq(Line)
  PROVE  \E n \in Nat : EndsAt(c, n)
<1> DEFINE T == {n \in Nat : \A i \in Nat : Bare(LineAt(c, i)) # Blank => i < n}
<1>1. Len(c) \in Nat BY LenProperties
<1>2. Len(c) \in T
  <2>1. ASSUME NEW i \in Nat, ~ (i < Len(c)) PROVE Bare(LineAt(c, i)) = Blank
    <3>1. LineAt(c, i) = Blank BY <1>1, <2>1 DEF LineAt
    <3> QED BY <3>1 DEF Bare
  <2> QED BY <1>1, <2>1
<1>3. \E m \in T : \A k \in T : m <= k
  <2>1. T \subseteq Nat /\ T # {} BY <1>2
  <2> HIDE DEF T
  <2> QED BY <2>1, LeastNatural
<1>4. PICK m \in T : \A k \in T : m <= k BY <1>3
<1>5. m = 0 \/ Bare(LineAt(c, m - 1)) # Blank
  <2>1. SUFFICES ASSUME m # 0, Bare(LineAt(c, m - 1)) = Blank PROVE FALSE OBVIOUS
  <2>2. m - 1 \in Nat BY <2>1
  <2>3. ASSUME NEW i \in Nat, Bare(LineAt(c, i)) # Blank PROVE i < m - 1
    <3>1. i < m BY <2>3
    <3>2. i # m - 1 BY <2>1, <2>3
    <3> QED BY <2>2, <3>1, <3>2
  <2>4. m - 1 \in T BY <2>2, <2>3
  <2>5. m \in Nat OBVIOUS
  <2> HIDE DEF T
  <2>6. m <= m - 1 BY <1>4, <2>4
  <2> QED BY <2>5, <2>6
<1> QED BY <1>5 DEF EndsAt

\* And only one.
LEMMA PayloadIs ==
  ASSUME NEW c \in Seq(Line), NEW n \in Nat, EndsAt(c, n)
  PROVE  Payload(c) = [i \in 1 .. n |-> Bare(LineAt(c, i - 1))]
<1> DEFINE bare == [i \in 1 .. Len(c) |-> IF c[i].kind = "hex" THEN Blank ELSE c[i]]
           used == {i \in 1 .. Len(c) : bare[i] # Blank}
           Is(x) == (\A i \in used : i <= x) /\ (x = 0 \/ x \in used)
<1>1. Len(c) \in Nat BY LenProperties
<1>2. \A i \in 1 .. Len(c) : bare[i] = Bare(LineAt(c, i - 1))
  <2> TAKE i \in 1 .. Len(c)
  <2>1. LineAt(c, i - 1) = c[i] BY <1>1 DEF LineAt
  <2> QED BY <2>1 DEF Bare
<1>3. \A i \in Nat : i >= Len(c) => Bare(LineAt(c, i)) = Blank
  <2> TAKE i \in Nat
  <2> HAVE i >= Len(c)
  <2>1. LineAt(c, i) = Blank BY <1>1 DEF LineAt
  <2> QED BY <2>1 DEF Bare
<1>4. Payload(c) = SubSeq(bare, 1, CHOOSE x \in 0 .. Len(c) : Is(x)) BY DEF Payload
<1>5. n <= Len(c)
  <2>1. CASE n = 0 BY <1>1, <2>1
  <2>2. CASE n # 0
    <3>1. n - 1 \in Nat /\ Bare(LineAt(c, n - 1)) # Blank BY <2>2 DEF EndsAt
    <3>2. ~ (n - 1 >= Len(c)) BY <1>3, <3>1
    <3> QED BY <1>1, <3>1, <3>2
  <2> QED BY <2>1, <2>2
<1> DEFINE b == bare
<1>6. \A i \in 1 .. Len(c) : i \in used <=> Bare(LineAt(c, i - 1)) # Blank BY <1>2
<1>7. used \subseteq 1 .. Len(c) OBVIOUS
<1> HIDE DEF bare
<1> HIDE DEF used
<1>8. Is(n)
  <2>1. ASSUME NEW i \in used PROVE i <= n
    <3>1. i \in 1 .. Len(c) /\ i - 1 \in Nat BY <1>1, <1>7
    <3>2. Bare(LineAt(c, i - 1)) # Blank BY <1>6, <3>1
    <3>3. i - 1 < n BY <3>1, <3>2 DEF EndsAt
    <3> QED BY <1>1, <3>1, <3>3
  <2>2. n = 0 \/ n \in used
    <3>1. n # 0 => n \in 1 .. Len(c) BY <1>1, <1>5
    <3> QED BY <1>6, <3>1 DEF EndsAt
  <2> QED BY <2>1, <2>2
<1>9. ASSUME NEW x \in 0 .. Len(c), Is(x) PROVE x = n
  <2>1. x = 0 \/ x \in used BY <1>9
  <2>2. n = 0 \/ n \in used BY <1>8
  <2>3. x = 0 \/ x <= n BY <1>8, <2>1
  <2>4. n = 0 \/ n <= x BY <1>9, <2>2
  <2> QED BY <1>1, <2>3, <2>4
<1>10. (CHOOSE x \in 0 .. Len(c) : Is(x)) = n
  <2>1. n \in 0 .. Len(c) BY <1>1, <1>5
  <2> HIDE DEF Is
  <2> QED BY <1>8, <1>9, <2>1
<1> HIDE DEF Is
<1>11. Payload(c) = SubSeq(b, 1, n) BY <1>4, <1>10
<1>12. SubSeq(b, 1, n) = [i \in 1 .. n |-> b[i]] BY DEF SubSeq
<1>13. \A i \in 1 .. n : b[i] = Bare(LineAt(c, i - 1)) BY <1>1, <1>2, <1>5
<1> QED BY <1>11, <1>12, <1>13

\* So it is the same in two texts that are alike.
LEMMA PayloadAlike ==
  ASSUME NEW c \in Seq(Line), NEW d \in Seq(Line), Alike(c, d)
  PROVE  Payload(c) = Payload(d)
<1>1. PICK n \in Nat : EndsAt(c, n) BY EndIsSomewhere
<1>2. EndsAt(d, n)
  <2>1. n # 0 => n - 1 \in Nat OBVIOUS
  <2> QED BY <1>1, <2>1 DEF EndsAt, Alike
<1>3. Payload(c) = [i \in 1 .. n |-> Bare(LineAt(c, i - 1))] BY <1>1, PayloadIs
<1>4. Payload(d) = [i \in 1 .. n |-> Bare(LineAt(d, i - 1))] BY <1>2, PayloadIs
<1>5. \A i \in 1 .. n : Bare(LineAt(c, i - 1)) = Bare(LineAt(d, i - 1))
  <2> TAKE i \in 1 .. n
  <2>1. i - 1 \in Nat OBVIOUS
  <2> QED BY <2>1 DEF Alike
<1> QED BY <1>3, <1>4, <1>5

(***************************************************************************)
(* The text of one simultaneous edit.                                      *)
(***************************************************************************)
LEMMA JoinedReads ==
  ASSUME NEW x \in Seq(Line), NEW y \in Seq(Line), NEW i \in Nat
  PROVE  /\ x \o y \in Seq(Line) /\ Len(x \o y) = Len(x) + Len(y)
         /\ LineAt(x \o y, i) = IF i < Len(x) THEN LineAt(x, i) ELSE LineAt(y, i - Len(x))
<1>1. Len(x) \in Nat /\ Len(y) \in Nat BY LenProperties
<1>2. /\ x \o y \in Seq(Line) /\ Len(x \o y) = Len(x) + Len(y)
      /\ \A k \in 1 .. Len(x) + Len(y) : (x \o y)[k] = IF k <= Len(x) THEN x[k] ELSE y[k - Len(x)]
  BY ConcatProperties
<1>3. CASE i < Len(x)
  <2>1. i + 1 \in 1 .. Len(x) + Len(y) /\ i + 1 <= Len(x) BY <1>1, <1>3
  <2>2. (x \o y)[i + 1] = x[i + 1] BY <1>2, <2>1
  <2>3. i \in 0 .. Len(x \o y) - 1 /\ i \in 0 .. Len(x) - 1 BY <1>1, <1>2, <1>3
  <2> QED BY <1>2, <1>3, <2>2, <2>3 DEF LineAt
<1>4. CASE Len(x) <= i /\ i < Len(x) + Len(y)
  <2>1. i + 1 \in 1 .. Len(x) + Len(y) /\ ~ (i + 1 <= Len(x)) BY <1>1, <1>4
  <2>2. (x \o y)[i + 1] = y[i + 1 - Len(x)] BY <1>2, <2>1
  <2>3. i \in 0 .. Len(x \o y) - 1 /\ i - Len(x) \in 0 .. Len(y) - 1 /\ ~ (i < Len(x))
        /\ i + 1 - Len(x) = i - Len(x) + 1
    BY <1>1, <1>2, <1>4
  <2> QED BY <1>2, <2>2, <2>3 DEF LineAt
<1>5. CASE Len(x) + Len(y) <= i
  <2>1. i \notin 0 .. Len(x \o y) - 1 /\ i - Len(x) \notin 0 .. Len(y) - 1 /\ ~ (i < Len(x))
    BY <1>1, <1>2, <1>5
  <2> QED BY <1>2, <2>1 DEF LineAt
<1> QED BY <1>1, <1>3, <1>4, <1>5

\* A piece of a text, and the whole from four of them.
LEMMA PieceReads ==
  ASSUME NEW ls \in Seq(Line), NEW a \in Nat, NEW b \in Nat, a <= b, b <= Len(ls), NEW i \in Nat
  PROVE  /\ SubSeq(ls, a + 1, b) \in Seq(Line) /\ Len(SubSeq(ls, a + 1, b)) = b - a
         /\ LineAt(SubSeq(ls, a + 1, b), i) = IF i < b - a THEN LineAt(ls, a + i) ELSE Blank
<1> DEFINE cut == SubSeq(ls, a + 1, b)
<1>1. Len(ls) \in Nat BY LenProperties
<1>2. \A k \in a + 1 .. b : ls[k] \in Line BY <1>1, ElementOfSeq
<1>3. /\ cut \in Seq(Line) /\ Len(cut) = IF a + 1 <= b THEN b - (a + 1) + 1 ELSE 0
      /\ \A k \in 1 .. b - (a + 1) + 1 : cut[k] = ls[a + 1 + k - 1]
  BY <1>2, SubSeqProperties
<1> HIDE DEF cut
<1>4. Len(cut) = b - a BY <1>3
<1>5. CASE i < b - a
  <2>1. i + 1 \in 1 .. b - (a + 1) + 1 /\ a + 1 + (i + 1) - 1 = a + i + 1 BY <1>5
  <2>2. cut[i + 1] = ls[a + i + 1] BY <1>3, <2>1, SMTT(30)
  <2>3. i \in 0 .. Len(cut) - 1 /\ a + i \in 0 .. Len(ls) - 1 BY <1>1, <1>4, <1>5
  <2> QED BY <1>5, <2>2, <2>3 DEF LineAt
<1>6. CASE ~ (i < b - a)
  <2>1. i \notin 0 .. Len(cut) - 1 BY <1>4, <1>6
  <2> QED BY <1>6, <2>1 DEF LineAt
<1> QED BY <1>3, <1>4, <1>5, <1>6 DEF cut

\* Four pieces, one behind the other.
Pieces(all, w, x, y, z) ==
  /\ all \in Seq(Line)
  /\ \A i \in Nat :
       /\ i < Len(w) => LineAt(all, i) = LineAt(w, i)
       /\ i < Len(x) => LineAt(all, Len(w) + i) = LineAt(x, i)
       /\ i < Len(y) => LineAt(all, Len(w) + Len(x) + i) = LineAt(y, i)
       /\ LineAt(all, Len(w) + Len(x) + Len(y) + i) = LineAt(z, i)

LEMMA FourPieces ==
  ASSUME NEW w \in Seq(Line), NEW x \in Seq(Line), NEW y \in Seq(Line), NEW z \in Seq(Line)
  PROVE  Pieces(w \o x \o y \o z, w, x, y, z)
<1> DEFINE wx == w \o x  wxy == wx \o y
<1>1. Len(w) \in Nat /\ Len(x) \in Nat /\ Len(y) \in Nat /\ Len(z) \in Nat BY LenProperties
<1>2. wx \in Seq(Line) /\ Len(wx) = Len(w) + Len(x) BY ConcatProperties
<1>3. \A k \in Nat : LineAt(wx, k) = IF k < Len(w) THEN LineAt(w, k) ELSE LineAt(x, k - Len(w))
  BY JoinedReads
<1> HIDE DEF wx
<1>4. wxy \in Seq(Line) /\ Len(wxy) = Len(w) + Len(x) + Len(y)
  <2>1. wx \o y \in Seq(Line) /\ Len(wx \o y) = Len(wx) + Len(y) BY <1>2, ConcatProperties
  <2> QED BY <1>1, <1>2, <2>1
<1>5. \A k \in Nat : LineAt(wxy, k) = IF k < Len(wx) THEN LineAt(wx, k) ELSE LineAt(y, k - Len(wx))
  BY <1>2, JoinedReads
<1> HIDE DEF wxy
<1> DEFINE all == wxy \o z
<1>6. all \in Seq(Line) BY <1>4, ConcatProperties
<1>7. \A k \in Nat : LineAt(all, k) = IF k < Len(wxy) THEN LineAt(wxy, k) ELSE LineAt(z, k - Len(wxy))
  BY <1>4, JoinedReads
<1> HIDE DEF all
<1>s. SUFFICES ASSUME NEW i \in Nat
      PROVE  /\ i < Len(w) => LineAt(all, i) = LineAt(w, i)
             /\ i < Len(x) => LineAt(all, Len(w) + i) = LineAt(x, i)
             /\ i < Len(y) => LineAt(all, Len(w) + Len(x) + i) = LineAt(y, i)
             /\ LineAt(all, Len(w) + Len(x) + Len(y) + i) = LineAt(z, i)
  BY <1>6 DEF Pieces, all, wxy, wx
<1>8. i < Len(w) => LineAt(all, i) = LineAt(w, i)
  <2> HAVE i < Len(w)
  <2>1. i < Len(wx) /\ i < Len(wxy) BY <1>1, <1>2, <1>4
  <2> QED BY <1>3, <1>5, <1>7, <2>1
<1>9. i < Len(x) => LineAt(all, Len(w) + i) = LineAt(x, i)
  <2> HAVE i < Len(x)
  <2> DEFINE k == Len(w) + i
  <2>1. k \in Nat /\ k < Len(wx) /\ k < Len(wxy) /\ ~ (k < Len(w)) /\ k - Len(w) = i
    BY <1>1, <1>2, <1>4
  <2> HIDE DEF k
  <2>2. LineAt(all, k) = LineAt(x, i) BY <1>3, <1>5, <1>7, <2>1
  <2> QED BY <2>2 DEF k
<1>10. i < Len(y) => LineAt(all, Len(w) + Len(x) + i) = LineAt(y, i)
  <2> HAVE i < Len(y)
  <2> DEFINE k == Len(w) + Len(x) + i
  <2>1. k \in Nat /\ ~ (k < Len(wx)) /\ k < Len(wxy) /\ k - Len(wx) = i BY <1>1, <1>2, <1>4
  <2> HIDE DEF k
  <2>2. LineAt(all, k) = LineAt(y, i) BY <1>5, <1>7, <2>1
  <2> QED BY <2>2 DEF k
<1>11. LineAt(all, Len(w) + Len(x) + Len(y) + i) = LineAt(z, i)
  <2> DEFINE k == Len(w) + Len(x) + Len(y) + i
  <2>1. k \in Nat /\ ~ (k < Len(wxy)) /\ k - Len(wxy) = i BY <1>1, <1>2, <1>4
  <2> HIDE DEF k
  <2>2. LineAt(all, k) = LineAt(z, i) BY <1>7, <2>1
  <2> QED BY <2>2 DEF k
<1> QED BY <1>8, <1>9, <1>10, <1>11

\* Where line k of a text is when lines s have gone, and then when m lines stand in
\* for the lines t of it.
Up(s, k) == IF k < s.start THEN k ELSE k - (s.end - s.start + 1)
Place(s, t, m, k) ==
  IF Up(s, k) < Up(s, t.start) THEN Up(s, k) ELSE Up(s, k) + m - (t.end - t.start + 1)
Outside(p, k) == k < p.start \/ p.end < k

\* d is c after both edits, coordinates aside.
BothEdits(c, s, t, new, d) ==
  /\ \A k \in Nat : Outside(s, k) /\ Outside(t, k) =>
       Bare(LineAt(d, Place(s, t, Len(new), k))) = Bare(LineAt(c, k))
  /\ \A j \in Nat : j < Len(new) => Bare(LineAt(d, Up(s, t.start) + j)) = Bare(new[j + 1])

TwoRanges(s, t) ==
  /\ s \in ZonePair /\ t \in ZonePair /\ s.start <= s.end /\ t.start <= t.end
  /\ s.end < t.start \/ t.end < s.start

Covered(s, t, m, i) ==
  \/ \E k \in Nat : Outside(s, k) /\ Outside(t, k) /\ Place(s, t, m, k) = i
  \/ \E j \in Nat : j < m /\ i = Up(s, t.start) + j

\* Behind both edits stands an old line or a new one.
LEMMA PlacesCover ==
  ASSUME NEW s, NEW t, TwoRanges(s, t), NEW m \in Nat, NEW i \in Nat
  PROVE  Covered(s, t, m, i)
<1> USE DEF Covered
<1> DEFINE n == s.end - s.start + 1
           l == t.end - t.start + 1
           Is(k) == k \in Nat /\ Outside(s, k) /\ Outside(t, k) /\ Place(s, t, m, k) = i
<1>1. /\ s.start \in Nat /\ s.end \in Nat /\ t.start \in Nat /\ t.end \in Nat
      /\ s.start <= s.end /\ t.start <= t.end
  BY DEF TwoRanges, ZonePair
<1>2. CASE s.end < t.start
  <2>1. Up(s, t.start) = t.start - n BY <1>1, <1>2 DEF Up
  <2>2. CASE i < s.start
    <3>1. Is(i) BY <1>1, <1>2, <2>1, <2>2 DEF Outside, Place, Up
    <3> QED BY <3>1
  <2>3. CASE s.start <= i /\ i < t.start - n
    <3>1. Is(i + n) BY <1>1, <1>2, <2>1, <2>3 DEF Outside, Place, Up
    <3> QED BY <3>1
  <2>4. CASE t.start - n <= i /\ i < t.start - n + m
    <3>1. i - (t.start - n) \in Nat /\ i - (t.start - n) < m BY <1>1, <1>2, <2>4
    <3>2. i = Up(s, t.start) + (i - (t.start - n)) BY <1>1, <2>1
    <3> QED BY <3>1, <3>2
  <2>5. CASE t.start - n + m <= i
    <3>1. Is(i - m + l + n) BY <1>1, <1>2, <2>1, <2>5 DEF Outside, Place, Up
    <3> QED BY <3>1
  <2> QED BY <1>1, <1>2, <2>2, <2>3, <2>4, <2>5
<1>3. CASE t.end < s.start
  <2>1. Up(s, t.start) = t.start BY <1>1, <1>3 DEF Up
  <2>2. CASE i < t.start
    <3>1. Is(i) BY <1>1, <1>3, <2>1, <2>2 DEF Outside, Place, Up
    <3> QED BY <3>1
  <2>3. CASE t.start <= i /\ i < t.start + m
    <3>1. i - t.start \in Nat /\ i - t.start < m BY <1>1, <2>3
    <3>2. i = Up(s, t.start) + (i - t.start) BY <1>1, <2>1
    <3> QED BY <3>1, <3>2
  <2>4. CASE t.start + m <= i /\ i - m + l < s.start
    <3>1. Is(i - m + l) BY <1>1, <1>3, <2>1, <2>4 DEF Outside, Place, Up
    <3> QED BY <3>1
  <2>5. CASE t.start + m <= i /\ s.start <= i - m + l
    <3>1. Is(i - m + l + n) BY <1>1, <1>3, <2>1, <2>5 DEF Outside, Place, Up
    <3> QED BY <3>1
  <2> QED BY <1>1, <1>3, <2>2, <2>3, <2>4, <2>5
<1> QED BY <1>2, <1>3 DEF TwoRanges

\* So the two edits leave one text, whatever coordinates stand in it.
LEMMA BothEditsAlike ==
  ASSUME NEW c, NEW s, NEW t, TwoRanges(s, t), NEW new \in Seq(Line), NEW d, NEW other,
         BothEdits(c, s, t, new, d), BothEdits(c, s, t, new, other)
  PROVE  Alike(d, other)
<1> SUFFICES ASSUME NEW i \in Nat PROVE Bare(LineAt(d, i)) = Bare(LineAt(other, i))
  BY DEF Alike
<1> DEFINE m == Len(new)
<1>1. m \in Nat BY LenProperties
<1>2. CASE \E k \in Nat : Outside(s, k) /\ Outside(t, k) /\ Place(s, t, m, k) = i
  BY <1>2 DEF BothEdits
<1>3. CASE \E j \in Nat : j < m /\ i = Up(s, t.start) + j
  BY <1>3 DEF BothEdits
<1> HIDE DEF m
<1>4. Covered(s, t, m, i) BY <1>1, PlacesCover
<1> QED BY <1>2, <1>3, <1>4 DEF Covered

\* The lines above b, those between a and b, and those below a.
LEMMA TopReads ==
  ASSUME NEW ls \in Seq(Line), NEW b \in Nat, b <= Len(ls)
  PROVE  /\ SubSeq(ls, 1, b) \in Seq(Line) /\ Len(SubSeq(ls, 1, b)) = b
         /\ \A i \in Nat : i < b => LineAt(SubSeq(ls, 1, b), i) = LineAt(ls, i)
<1> DEFINE o == 0
<1>1. b - o = b /\ \A i \in Nat : o + i = i OBVIOUS
<1>2. o \in Nat /\ o + 1 = 1 /\ o <= b OBVIOUS
<1> HIDE DEF o
<1>3. \A i \in Nat : /\ SubSeq(ls, o + 1, b) \in Seq(Line) /\ Len(SubSeq(ls, o + 1, b)) = b - o
                     /\ LineAt(SubSeq(ls, o + 1, b), i)
                          = IF i < b - o THEN LineAt(ls, o + i) ELSE Blank
  BY <1>2, PieceReads
<1> QED BY <1>1, <1>2, <1>3

\* The pieces MovedAtOnce is made of: below the first edit, and below both.
LEMMA MiddleReads ==
  ASSUME NEW ls \in Seq(Line), NEW a \in Nat, NEW b \in Nat, a < b, b <= Len(ls)
  PROVE  /\ SubSeq(ls, a + 2, b) \in Seq(Line) /\ Len(SubSeq(ls, a + 2, b)) = b - (a + 1)
         /\ \A i \in Nat : i < b - (a + 1) =>
              LineAt(SubSeq(ls, a + 2, b), i) = LineAt(ls, a + 1 + i)
<1> DEFINE o == a + 1
<1>2. o \in Nat /\ o + 1 = a + 2 /\ o <= b OBVIOUS
<1> HIDE DEF o
<1>3. \A i \in Nat : /\ SubSeq(ls, o + 1, b) \in Seq(Line) /\ Len(SubSeq(ls, o + 1, b)) = b - o
                     /\ LineAt(SubSeq(ls, o + 1, b), i)
                          = IF i < b - o THEN LineAt(ls, o + i) ELSE Blank
  BY <1>2, PieceReads
<1> QED BY <1>2, <1>3 DEF o

LEMMA BottomReads ==
  ASSUME NEW ls \in Seq(Line), NEW a \in Nat, a < Len(ls)
  PROVE  /\ SubSeq(ls, a + 2, Len(ls)) \in Seq(Line)
         /\ \A i \in Nat : LineAt(SubSeq(ls, a + 2, Len(ls)), i) = LineAt(ls, a + 1 + i)
<1> DEFINE o == a + 1  b == Len(ls)
<1>1. b \in Nat BY LenProperties
<1>2. o \in Nat /\ o + 1 = a + 2 /\ o <= b BY <1>1
<1>4. \A i \in Nat : ~ (i < b - o) => LineAt(ls, o + i) = Blank BY <1>1 DEF LineAt
<1> HIDE DEF o
<1>5. b <= Len(ls) BY <1>1
<1> HIDE DEF b
<1>3. \A i \in Nat : /\ SubSeq(ls, o + 1, b) \in Seq(Line)
                     /\ LineAt(SubSeq(ls, o + 1, b), i)
                          = IF i < b - o THEN LineAt(ls, o + i) ELSE Blank
  BY <1>1, <1>2, <1>5, PieceReads
<1> QED BY <1>2, <1>3, <1>4 DEF o, b

\* MovedAtOnce is both edits, whichever range stands first.
LEMMA AtOnceSourceFirst ==
  ASSUME NEW c \in Content, NEW s, NEW t, TwoRanges(s, t), s.end < t.start,
         t.end < Len(Lines(c)), NEW new \in Seq(Line)
  PROVE  /\ MovedAtOnce(c, s, t, new) \in Seq(Line)
         /\ BothEdits(c, s, t, new, MovedAtOnce(c, s, t, new))
<1> DEFINE ls == Lines(c)
           a == s.start  b == s.end  f == t.start  g == t.end  m == Len(new)
           w == SubSeq(ls, 1, a)
           x == SubSeq(ls, b + 2, f)
           z == SubSeq(ls, g + 2, Len(ls))
           all == w \o x \o new \o z
           pl(k) == Place(s, t, Len(new), k)
<1>1. /\ a \in Nat /\ b \in Nat /\ f \in Nat /\ g \in Nat /\ a <= b /\ f <= g /\ b < f
  BY DEF TwoRanges, ZonePair
<1>2. ls \in Seq(Line) /\ Len(ls) \in Nat /\ g < Len(ls) /\ m \in Nat BY LinesType, LenProperties
<1>3. MovedAtOnce(c, s, t, new) = all BY DEF MovedAtOnce
<1>4. \A k \in Int : LineAt(ls, k) = LineAt(c, k) BY LinesReadsAlike
<1>5. \A k \in Nat : pl(k) = LET up == IF k < a THEN k ELSE k - (b - a + 1)
                                 to == IF f < a THEN f ELSE f - (b - a + 1)
                             IN  IF up < to THEN up ELSE up + m - (g - f + 1)
  BY DEF Place, Up
<1>6. Up(s, t.start) = IF f < a THEN f ELSE f - (b - a + 1) BY DEF Up
<1>7. \A k \in Nat : (Outside(s, k) <=> k < a \/ b < k) /\ (Outside(t, k) <=> k < f \/ g < k)
  BY DEF Outside
<1>8. \A j \in Nat : j < m => LineAt(new, j) = new[j + 1] BY <1>2 DEF LineAt
<1> HIDE DEF ls, a, b, f, g, pl
<1>9. /\ w \in Seq(Line) /\ Len(w) = a
      /\ \A i \in Nat : i < a => LineAt(w, i) = LineAt(ls, i)
  <2>1. a <= Len(ls) BY <1>1, <1>2
  <2> QED BY <1>1, <1>2, <2>1, TopReads
<1>10. /\ x \in Seq(Line) /\ Len(x) = f - (b + 1)
       /\ \A i \in Nat : i < f - (b + 1) => LineAt(x, i) = LineAt(ls, b + 1 + i)
  <2>1. f <= Len(ls) BY <1>1, <1>2
  <2> QED BY <1>1, <1>2, <2>1, MiddleReads
<1>11. z \in Seq(Line) /\ \A i \in Nat : LineAt(z, i) = LineAt(ls, g + 1 + i)
  BY <1>1, <1>2, BottomReads
<1> HIDE DEF w, x, z
<1>12. Pieces(all, w, x, new, z) BY <1>9, <1>10, <1>11, FourPieces
<1> HIDE DEF all
<1>13. /\ all \in Seq(Line)
       /\ \A i \in Nat :
            /\ i < a => LineAt(all, i) = LineAt(w, i)
            /\ i < f - (b + 1) => LineAt(all, a + i) = LineAt(x, i)
            /\ i < m => LineAt(all, a + (f - (b + 1)) + i) = LineAt(new, i)
            /\ LineAt(all, a + (f - (b + 1)) + m + i) = LineAt(z, i)
  BY <1>9, <1>10, <1>12 DEF Pieces
<1> HIDE DEF m
<1>14. ASSUME NEW k \in Nat, Outside(s, k), Outside(t, k)
       PROVE  LineAt(all, pl(k)) = LineAt(c, k)
  <2>1. CASE k < a
    <3>1. pl(k) = k BY <1>1, <1>2, <1>5, <2>1
    <3> QED BY <1>4, <1>9, <1>13, <2>1, <3>1
  <2>2. CASE b < k /\ k < f
    <3> DEFINE i == k - (b + 1)
    <3>1. i \in Nat /\ i < f - (b + 1) /\ b + 1 + i = k BY <1>1, <2>2
    <3>2. pl(k) = a + i BY <1>1, <1>2, <1>5, <2>2
    <3> HIDE DEF i
    <3>3. LineAt(all, a + i) = LineAt(ls, b + 1 + i) BY <1>10, <1>13, <3>1
    <3> QED BY <1>4, <3>1, <3>2, <3>3
  <2>3. CASE g < k
    <3> DEFINE i == k - (g + 1)
    <3>1. i \in Nat /\ g + 1 + i = k BY <1>1, <2>3
    <3>4. pl(k) = (k - (b - a + 1)) + m - (g - f + 1)
      <4>1. ~ (k < a) BY <1>1, <2>3
      <4>2. ~ (k - (b - a + 1) < (IF f < a THEN f ELSE f - (b - a + 1))) BY <1>1, <2>3
      <4> QED BY <1>5, <4>1, <4>2
    <3>5. (k - (b - a + 1)) + m - (g - f + 1) = a + (f - (b + 1)) + m + i BY <1>1, <1>2
    <3>2. pl(k) = a + (f - (b + 1)) + m + i BY <3>4, <3>5
    <3> HIDE DEF i
    <3>3. LineAt(all, a + (f - (b + 1)) + m + i) = LineAt(ls, g + 1 + i) BY <1>11, <1>13, <3>1
    <3> QED BY <1>4, <3>1, <3>2, <3>3
  <2> QED BY <1>1, <1>7, <1>14, <2>1, <2>2, <2>3
<1>15. ASSUME NEW j \in Nat, j < m
       PROVE  LineAt(all, Up(s, t.start) + j) = new[j + 1]
  <2>1. Up(s, t.start) + j = a + (f - (b + 1)) + j BY <1>1, <1>6
  <2> QED BY <1>8, <1>13, <1>15, <2>1
<1>16. BothEdits(c, s, t, new, all) BY <1>14, <1>15 DEF BothEdits, pl, m
<1> QED BY <1>3, <1>13, <1>16

LEMMA AtOnceTargetFirst ==
  ASSUME NEW c \in Content, NEW s, NEW t, TwoRanges(s, t), t.end < s.start,
         s.end < Len(Lines(c)), NEW new \in Seq(Line)
  PROVE  /\ MovedAtOnce(c, s, t, new) \in Seq(Line)
         /\ BothEdits(c, s, t, new, MovedAtOnce(c, s, t, new))
<1> DEFINE ls == Lines(c)
           a == s.start  b == s.end  f == t.start  g == t.end  m == Len(new)
           w == SubSeq(ls, 1, f)
           x == SubSeq(ls, g + 2, a)
           z == SubSeq(ls, b + 2, Len(ls))
           all == w \o new \o x \o z
           pl(k) == Place(s, t, Len(new), k)
<1>1. /\ a \in Nat /\ b \in Nat /\ f \in Nat /\ g \in Nat /\ a <= b /\ f <= g /\ g < a
  BY DEF TwoRanges, ZonePair
<1>2. ls \in Seq(Line) /\ Len(ls) \in Nat /\ b < Len(ls) /\ m \in Nat BY LinesType, LenProperties
<1>3. MovedAtOnce(c, s, t, new) = all
  <2>1. ~ (b < f) BY <1>1
  <2> QED BY <2>1 DEF MovedAtOnce
<1>4. \A k \in Int : LineAt(ls, k) = LineAt(c, k) BY LinesReadsAlike
<1>5. \A k \in Nat : pl(k) = LET up == IF k < a THEN k ELSE k - (b - a + 1)
                                 to == IF f < a THEN f ELSE f - (b - a + 1)
                             IN  IF up < to THEN up ELSE up + m - (g - f + 1)
  BY DEF Place, Up
<1>6. Up(s, t.start) = IF f < a THEN f ELSE f - (b - a + 1) BY DEF Up
<1>7. \A k \in Nat : (Outside(s, k) <=> k < a \/ b < k) /\ (Outside(t, k) <=> k < f \/ g < k)
  BY DEF Outside
<1>8. \A j \in Nat : j < m => LineAt(new, j) = new[j + 1] BY <1>2 DEF LineAt
<1> HIDE DEF ls, a, b, f, g, pl
<1>9. /\ w \in Seq(Line) /\ Len(w) = f
      /\ \A i \in Nat : i < f => LineAt(w, i) = LineAt(ls, i)
  <2>1. f <= Len(ls) BY <1>1, <1>2
  <2> QED BY <1>1, <1>2, <2>1, TopReads
<1>10. /\ x \in Seq(Line) /\ Len(x) = a - (g + 1)
       /\ \A i \in Nat : i < a - (g + 1) => LineAt(x, i) = LineAt(ls, g + 1 + i)
  <2>1. a <= Len(ls) BY <1>1, <1>2
  <2> QED BY <1>1, <1>2, <2>1, MiddleReads
<1>11. z \in Seq(Line) /\ \A i \in Nat : LineAt(z, i) = LineAt(ls, b + 1 + i)
  BY <1>1, <1>2, BottomReads
<1> HIDE DEF w, x, z
<1>12. Pieces(all, w, new, x, z) BY <1>9, <1>10, <1>11, FourPieces
<1> HIDE DEF all
<1>13. /\ all \in Seq(Line)
       /\ \A i \in Nat :
            /\ i < f => LineAt(all, i) = LineAt(w, i)
            /\ i < m => LineAt(all, f + i) = LineAt(new, i)
            /\ i < a - (g + 1) => LineAt(all, f + m + i) = LineAt(x, i)
            /\ LineAt(all, f + m + (a - (g + 1)) + i) = LineAt(z, i)
  BY <1>9, <1>10, <1>12 DEF Pieces
<1> HIDE DEF m
<1>14. ASSUME NEW k \in Nat, Outside(s, k), Outside(t, k)
       PROVE  LineAt(all, pl(k)) = LineAt(c, k)
  <2>1. CASE k < f
    <3>1. pl(k) = k BY <1>1, <1>2, <1>5, <2>1
    <3> QED BY <1>4, <1>9, <1>13, <2>1, <3>1
  <2>2. CASE g < k /\ k < a
    <3> DEFINE i == k - (g + 1)
    <3>1. i \in Nat /\ i < a - (g + 1) /\ g + 1 + i = k BY <1>1, <2>2
    <3>2. pl(k) = f + m + i BY <1>1, <1>2, <1>5, <2>2
    <3> HIDE DEF i
    <3>3. LineAt(all, f + m + i) = LineAt(ls, g + 1 + i) BY <1>10, <1>13, <3>1
    <3> QED BY <1>4, <3>1, <3>2, <3>3
  <2>3. CASE b < k
    <3> DEFINE i == k - (b + 1)
    <3>1. i \in Nat /\ b + 1 + i = k BY <1>1, <2>3
    <3>4. pl(k) = (k - (b - a + 1)) + m - (g - f + 1)
      <4>1. ~ (k < a) BY <1>1, <2>3
      <4>2. ~ (k - (b - a + 1) < (IF f < a THEN f ELSE f - (b - a + 1))) BY <1>1, <2>3
      <4> QED BY <1>5, <4>1, <4>2
    <3>5. (k - (b - a + 1)) + m - (g - f + 1) = f + m + (a - (g + 1)) + i BY <1>1, <1>2
    <3>2. pl(k) = f + m + (a - (g + 1)) + i BY <3>4, <3>5
    <3> HIDE DEF i
    <3>3. LineAt(all, f + m + (a - (g + 1)) + i) = LineAt(ls, b + 1 + i) BY <1>11, <1>13, <3>1
    <3> QED BY <1>4, <3>1, <3>2, <3>3
  <2> QED BY <1>1, <1>7, <1>14, <2>1, <2>2, <2>3
<1>15. ASSUME NEW j \in Nat, j < m
       PROVE  LineAt(all, Up(s, t.start) + j) = new[j + 1]
  <2>1. Up(s, t.start) + j = f + j BY <1>1, <1>6
  <2> QED BY <1>8, <1>13, <1>15, <2>1
<1>16. BothEdits(c, s, t, new, all) BY <1>14, <1>15 DEF BothEdits, pl, m
<1> QED BY <1>3, <1>13, <1>16

(***************************************************************************)
(* What a write leaves of the lines around it.                             *)
(***************************************************************************)
\* d is the text cut, with other hex-words.
Reworded(cut, d) ==
  \A i \in Nat : \/ LineAt(d, i) = LineAt(cut, i)
                 \/ LineAt(d, i).kind = "hex" /\ IsHexWords(LineAt(cut, i))

\* apply_line_deltas only writes hex-words.
LEMMA ShiftReworded ==
  ASSUME NEW c \in Content, NEW s \in Nat, NEW e \in Nat, NEW new \in Seq(Line)
  PROVE  Reworded(Splice(c, s, e, new), SpliceAndShift(c, s, e, new))
<1> DEFINE cut == Splice(c, s, e, new)
           d   == SpliceAndShift(c, s, e, new)
<1>1. ASSUME NEW i \in Nat
      PROVE  \/ LineAt(d, i) = LineAt(cut, i)
             \/ LineAt(d, i).kind = "hex" /\ IsHexWords(LineAt(cut, i))
  <2>1. i \in Int /\ e \in Int /\ e >= -1 OBVIOUS
  <2>2. LineAt(d, i) = IF i - 2 \in Headers(cut) /\ LineAt(cut, i).kind = "hex"
                       THEN ShiftHexLine(LineAt(cut, i), e + 1, Len(new) - (e - s + 1))
                       ELSE LineAt(cut, i)
    BY <2>1, SpliceAndShiftReads
  <2> HIDE DEF cut, d
  <2> QED BY <2>2 DEF ShiftHexLine, HexLine, IsHexWords
<1> QED BY <1>1 DEF Reworded

\* So does what hex-replace does behind the splice.
LEMMA HexReplacedReworded ==
  ASSUME NEW c \in Content, NEW s \in Nat, NEW e \in Nat, NEW new \in Seq(Line),
         CanHexReplace(c, s, e, new)
  PROVE  Reworded(Splice(c, s, e, new), HexReplaced(c, s, e, new))
<1> DEFINE cut == Splice(c, s, e, new)
           sh  == SpliceAndShift(c, s, e, new)
           d   == HexReplaced(c, s, e, new)
<1>1. Reworded(cut, sh) BY ShiftReworded
<1>2. ASSUME NEW i \in Nat
      PROVE  \/ LineAt(d, i) = LineAt(sh, i)
             \/ LineAt(d, i).kind = "hex" /\ IsHexWords(LineAt(sh, i))
  <2>0. i \in Int OBVIOUS
  <2>1. \/ LineAt(d, i) = LineAt(sh, i)
        \/ /\ i \in Nat /\ i - 2 \in Headers(sh)
           /\ IsHexWords(LineAt(sh, i))
           /\ \E z \in ZoneIdx : ZoneHere(sh, i, z) = [start |-> s, end |-> e]
           /\ LineAt(d, i) =
                HexLine([z \in ZoneIdx |->
                           IF ZoneHere(sh, i, z) = [start |-> s, end |-> e]
                           THEN Extent(s, Len(new)) ELSE ZoneHere(sh, i, z)])
    BY <2>0, HexReplacedReads
  <2>2. \/ LineAt(d, i) = LineAt(sh, i)
        \/ IsHexWords(LineAt(sh, i)) /\ \E zs : LineAt(d, i) = HexLine(zs)
    BY <2>1
  <2> HIDE DEF sh, d
  <2> QED BY <2>2 DEF HexLine
<1> HIDE DEF cut, sh, d
<1>3. ASSUME NEW i \in Nat
      PROVE  \/ LineAt(d, i) = LineAt(cut, i)
             \/ LineAt(d, i).kind = "hex" /\ IsHexWords(LineAt(cut, i))
  <2>1. \/ LineAt(sh, i) = LineAt(cut, i)
        \/ LineAt(sh, i).kind = "hex" /\ IsHexWords(LineAt(cut, i))
    BY <1>1 DEF Reworded
  <2> QED BY <1>2, <2>1
<1> QED BY <1>3 DEF Reworded, cut, d

\* replace_zone_content with its record above the zone: the hex-word line is where
\* it was, and the only one written.
LEMMA ReplacedIs ==
  ASSUME NEW c \in Content, NEW a \in Nat, NEW z \in ZoneIdx, NEW new \in Seq(Line),
         CanReplace(c, a, z, new), NEW p, p = ZoneHere(c, a, z),
         a < p.start, p.start <= p.end, NEW n \in Int
  PROVE  /\ p \in ZonePair /\ p # NoZone
         /\ LineAt(Splice(c, p.start, p.end, new), a) = LineAt(c, a)
         /\ LineAt(Replaced(c, a, z, new), n) =
              IF n = a
              THEN HexLine([ZonesIn(LineAt(c, a)) EXCEPT ![z] = Extent(p.start, Len(new))])
              ELSE LineAt(SpliceAndShift(c, p.start, p.end, new), n)
<1> DEFINE sh   == SpliceAndShift(c, p.start, p.end, new)
           zs   == [ZonesIn(LineAt(c, a)) EXCEPT ![z] = Extent(p.start, Len(new))]
           line == [i \in {a} |-> HexLine(zs)]
<1>1. /\ a < Len(Lines(c)) /\ IsHexWords(LineAt(c, a)) /\ p # NoZone
      /\ a < Len(Lines(sh))
  BY DEF CanReplace
<1>2. a \in Int OBVIOUS
<1>3. ZonesIn(LineAt(c, a)) \in Zones /\ p \in ZonePair BY <1>1, <1>2, ZoneHereType
<1>4. p.start \in Nat /\ p.end \in Nat /\ Len(new) \in Nat BY <1>3, LenProperties DEF ZonePair
<1>5. Extent(p.start, Len(new)) \in ZonePair BY <1>4, ExtentType
<1>6. zs \in Zones BY <1>3, <1>5 DEF Zones
<1>7. sh \in Content BY <1>4, SpliceAndShiftType
<1>8. LineAt(Splice(c, p.start, p.end, new), a) = LineAt(c, a)
  <2> DEFINE s == p.start  e == p.end
  <2>1. s \in Nat /\ e \in Int /\ s <= e + 1 /\ a < s BY <1>4
  <2> HIDE DEF s, e
  <2>2. LineAt(Splice(c, s, e, new), ShiftWord(a, e + 1, Len(new) - (e - s + 1))) = LineAt(c, a)
    BY <1>1, <2>1, SpliceFollows
  <2>3. ShiftWord(a, e + 1, Len(new) - (e - s + 1)) = a BY <2>1 DEF ShiftWord
  <2> QED BY <2>2, <2>3 DEF s, e
<1>9. Replaced(c, a, z, new) = UpdateLines(sh, {a}, line) BY DEF Replaced, UpdateLine
<1>10. \A i \in {a} : line[i] \in Line BY <1>6, HexLineType
<1>11. a \in 0 .. Len(Lines(sh)) - 1 BY <1>1, <1>7, LinesType
<1> HIDE DEF sh
<1>12. LineAt(UpdateLines(sh, {a}, line), n) =
         IF n \in {a} /\ n \in 0 .. Len(Lines(sh)) - 1 THEN line[n] ELSE LineAt(sh, n)
  <2> HIDE DEF line
  <2> QED BY <1>7, <1>10, UpdateLinesReads
<1>13. LineAt(UpdateLines(sh, {a}, line), n) = IF n = a THEN HexLine(zs) ELSE LineAt(sh, n)
  BY <1>11, <1>12
<1> QED BY <1>1, <1>3, <1>8, <1>9, <1>13 DEF sh

\* And replace_zone_content, whose record stands above its zone.
LEMMA ReplacedReworded ==
  ASSUME NEW c \in Content, NEW a \in Nat, NEW z \in ZoneIdx, NEW new \in Seq(Line),
         CanReplace(c, a, z, new), NEW p, p = ZoneHere(c, a, z),
         a < p.start, p.start <= p.end
  PROVE  Reworded(Splice(c, p.start, p.end, new), Replaced(c, a, z, new))
<1> DEFINE cut == Splice(c, p.start, p.end, new)
           sh  == SpliceAndShift(c, p.start, p.end, new)
           d   == Replaced(c, a, z, new)
           zs  == [ZonesIn(LineAt(c, a)) EXCEPT ![z] = Extent(p.start, Len(new))]
<1>1. \A n \in Int : /\ p \in ZonePair
                     /\ LineAt(cut, a) = LineAt(c, a)
                     /\ LineAt(d, n) = IF n = a THEN HexLine(zs) ELSE LineAt(sh, n)
  <2> TAKE n \in Int
  <2> HIDE DEF cut, sh, d
  <2> QED BY ReplacedIs DEF cut, sh, d
<1>2. IsHexWords(LineAt(c, a)) BY DEF CanReplace
<1>3. Reworded(cut, sh)
  <2>1. p \in ZonePair
    <3>1. 0 \in Int OBVIOUS
    <3> QED BY <1>1, <3>1
  <2>2. p.start \in Nat /\ p.end \in Nat BY <2>1 DEF ZonePair
  <2> QED BY <2>2, ShiftReworded
<1> HIDE DEF cut, sh, d, zs
<1>4. ASSUME NEW i \in Nat
      PROVE  \/ LineAt(d, i) = LineAt(cut, i)
             \/ LineAt(d, i).kind = "hex" /\ IsHexWords(LineAt(cut, i))
  <2>1. i \in Int OBVIOUS
  <2>2. CASE i = a
    <3>1. LineAt(d, i) = HexLine(zs) /\ LineAt(cut, i) = LineAt(c, a) BY <1>1, <2>1, <2>2
    <3> QED BY <1>2, <3>1 DEF HexLine
  <2>3. CASE i # a
    <3>1. LineAt(d, i) = LineAt(sh, i) BY <1>1, <2>1, <2>3
    <3> QED BY <1>3, <3>1 DEF Reworded
  <2> QED BY <2>2, <2>3
<1> QED BY <1>4 DEF Reworded, cut, d

\* Lines or a zone below its record: what set_ref_value leaves but for hex-words is
\* the splice.
Rewrites(c, ref, p, new, d) ==
  /\ new \in Seq(Line)
  /\ p \in ZonePair /\ p.start \in Nat /\ p.end \in Nat
  /\ Reworded(Splice(c, p.start, p.end, new), d)
  /\ d \in Content
  /\ ref.kind = "zone" =>
       /\ ref.rec \in Rec /\ ref.slot \in ZoneIdx /\ Loadable(c) /\ HasRec(c, ref.rec)
       /\ AsciiLine(c, ref.rec) \in Nat
       /\ CanReplace(c, AsciiLine(c, ref.rec), ref.slot, new)
       /\ p = ZoneHere(c, AsciiLine(c, ref.rec), ref.slot) /\ p # NoZone
       /\ d = Replaced(c, AsciiLine(c, ref.rec), ref.slot, new)
  /\ ref.kind = "lines" =>
       /\ CanHexReplace(c, p.start, p.end, new) /\ p.end < Len(Lines(c))
       /\ d = HexReplaced(c, p.start, p.end, new)

\* So this is all set_ref_value changes for the two kinds of a move.
LEMMA SetReworded ==
  ASSUME TextsJoin, NEW c \in Content, NEW ref \in TargetRef, NEW v \in Content,
         NEW append \in BOOLEAN, CanSet(c, ref, v, append), ref.kind \in {"zone", "lines"},
         NEW p, p = RangeNamed(c, ref), p.start <= p.end,
         ref.kind = "zone" => AsciiLine(c, ref.rec) < p.start,
         NEW new, new = Lines(Incoming(c, ref, v, append))
  PROVE  Rewrites(c, ref, p, new, SetRef(c, ref, v, append))
<1> USE DEF Rewrites
<1> DEFINE in == Incoming(c, ref, v, append)
           d  == SetRef(c, ref, v, append)
           r  == ref.rec
           z  == ref.slot
           a  == AsciiLine(c, ref.rec)
<1>1. in \in Content BY IncomingType
<1>2. new \in Seq(Line) BY <1>1, LinesType
<1>3. d \in Content BY SetType
<1>4. CASE ref.kind = "zone"
  <2>1. r \in Rec /\ z \in ZoneIdx BY <1>4 DEF TargetRef
  <2>2. /\ Scanned(c, r) /\ CanReplace(c, a, z, new) /\ d = Replaced(c, a, z, new)
    BY <1>4 DEF CanSet, SetRef
  <2>3. Loadable(c) /\ HasRec(c, r) BY <2>2 DEF Scanned, Scans, Readable
  <2>4. a \in Nat BY <2>3, HeaderLineType
  <2>5. p = ZoneHere(c, a, z) BY <1>4 DEF RangeNamed, ZoneAt, ZoneHere
  <2>6. p # NoZone BY <2>2, <2>5 DEF CanReplace
  <2>7. p \in ZonePair
    <3>1. IsHexWords(LineAt(c, a)) BY <2>2 DEF CanReplace
    <3>2. a \in Int BY <2>4
    <3>3. ZonesIn(LineAt(c, a)) \in Zones BY <3>1, <3>2, ZonesThereType
    <3> QED BY <2>1, <2>5, <3>3 DEF ZoneHere, Zones
  <2>8. p.start \in Nat /\ p.end \in Nat BY <2>7 DEF ZonePair
  <2>9. a < p.start BY <1>4
  <2> HIDE DEF a, d, r, z
  <2>10. Reworded(Splice(c, p.start, p.end, new), Replaced(c, a, z, new))
    BY <1>2, <2>1, <2>2, <2>4, <2>5, <2>9, ReplacedReworded
  <2> QED BY <1>2, <1>3, <1>4, <2>1, <2>2, <2>3, <2>4, <2>5, <2>6, <2>7, <2>8, <2>10 DEF a, d, r, z
<1>5. CASE ref.kind = "lines"
  <2>1. ref.start \in Nat /\ ref.end \in Nat BY <1>5 DEF TargetRef
  <2>2. p = [start |-> ref.start, end |-> ref.end] BY <1>5 DEF RangeNamed
  <2>3. p \in ZonePair /\ p.start \in Nat /\ p.end \in Nat /\ p.start = ref.start /\ p.end = ref.end
    BY <2>1, <2>2 DEF ZonePair
  <2>4. CanHexReplace(c, ref.start, ref.end, new) /\ d = HexReplaced(c, ref.start, ref.end, new)
    BY <1>5 DEF CanSet, SetRef
  <2>5. p.end < Len(Lines(c)) BY <2>3, <2>4 DEF CanHexReplace
  <2> HIDE DEF d
  <2>6. Reworded(Splice(c, p.start, p.end, new), HexReplaced(c, p.start, p.end, new))
    BY <1>2, <2>3, <2>4, HexReplacedReworded
  <2> QED BY <1>2, <1>3, <1>5, <2>3, <2>4, <2>5, <2>6 DEF d
<1> QED BY <1>4, <1>5

(***************************************************************************)
(* The first write of a move: lines s are gone.                            *)
(***************************************************************************)
LEMMA UpMoves ==
  ASSUME NEW s \in ZonePair, s.start <= s.end, NEW j \in Nat, NEW k \in Nat,
         Outside(s, j), Outside(s, k)
  PROVE  /\ Up(s, k) \in Nat /\ Up(s, j) \in Nat
         /\ j < k <=> Up(s, j) < Up(s, k)
         /\ j <= k /\ (k < s.start \/ s.end < j) => Up(s, k) = Up(s, j) + (k - j)
         /\ ShiftWord(k, s.end + 1, 0 - (s.end - s.start + 1)) = Up(s, k)
<1> DEFINE a == s.start  b == s.end
<1>1. a \in Nat /\ b \in Nat /\ a <= b BY DEF ZonePair
<1>2. (j < a \/ b < j) /\ (k < a \/ b < k) BY DEF Outside
<1>3. /\ Up(s, k) = IF k < a THEN k ELSE k - (b - a + 1)
      /\ Up(s, j) = IF j < a THEN j ELSE j - (b - a + 1)
  BY DEF Up
<1> HIDE DEF a, b
<1>4. Up(s, k) \in Nat /\ Up(s, j) \in Nat BY <1>1, <1>2, <1>3
<1>5. j < k <=> Up(s, j) < Up(s, k) BY <1>1, <1>2, <1>3
<1>6. j <= k /\ (k < a \/ b < j) => Up(s, k) = Up(s, j) + (k - j) BY <1>1, <1>2, <1>3
<1>7. ShiftWord(k, b + 1, 0 - (b - a + 1)) = Up(s, k) BY <1>1, <1>2, <1>3 DEF ShiftWord
<1> QED BY <1>4, <1>5, <1>6, <1>7 DEF a, b

\* Read again, or other hex-words.
Same(x, y) == x = y \/ (x.kind = "hex" /\ IsHexWords(y))

\* Read again, a line has the payload it had.
LEMMA SameIsBare ==
  ASSUME NEW x, NEW y, y \in Line, Same(x, y)
  PROVE  /\ Bare(x) = Bare(y)
         /\ y # Blank => x # Blank
         /\ x.kind \in {"text", "blank"} => x = y
<1>1. Blank.kind = "blank" BY DEF Blank
<1>2. y.kind = "blank" => y = Blank BY DEF Line, Marker
<1> QED BY <1>1, <1>2 DEF Same, Bare, IsHexWords

\* Every other line of c is found in d, where lines s are gone.
Lifted(c, s, d) == \A k \in Nat : Outside(s, k) => Same(LineAt(d, Up(s, k)), LineAt(c, k))

\* Clearing the source lifts the lines behind it.
LEMMA FirstWrite ==
  ASSUME NEW c \in Content, NEW s \in ZonePair, s.start <= s.end, s.end < Len(Lines(c)),
         NEW d, Reworded(Splice(c, s.start, s.end, << >>), d),
         NEW k \in Nat, Outside(s, k)
  PROVE  Up(s, k) \in Nat /\ Same(LineAt(d, Up(s, k)), LineAt(c, k))
<1> DEFINE a == s.start  b == s.end  new == << >>  o == 0
<1>1. a \in Nat /\ b \in Nat /\ a <= b /\ b \in Int /\ a <= b + 1 BY DEF ZonePair
<1>2. new \in Seq(Line) /\ Len(new) = o BY EmptySeq
<1>3. k < a \/ k > b BY DEF Outside
<1>4. Up(s, k) \in Nat /\ ShiftWord(k, b + 1, o - (b - a + 1)) = Up(s, k) BY UpMoves
<1>5. b < Len(Lines(c)) OBVIOUS
<1> HIDE DEF a, b, new, o
<1>6. LineAt(Splice(c, a, b, new), ShiftWord(k, b + 1, Len(new) - (b - a + 1))) = LineAt(c, k)
  BY <1>1, <1>2, <1>3, <1>5, SpliceFollows
<1>7. LineAt(Splice(c, a, b, new), Up(s, k)) = LineAt(c, k) BY <1>2, <1>4, <1>6
<1>8. Reworded(Splice(c, a, b, new), d) BY DEF a, b, new
<1> QED BY <1>4, <1>7, <1>8 DEF Reworded, Same

(***************************************************************************)
(* The second write: the value takes the place of lines t, wherever the    *)
(* first has moved them.                                                   *)
(***************************************************************************)
\* A line outside the edit, past the end of the file too.
ReadsAround(d, f, g, new, k) ==
  /\ ShiftWord(k, g + 1, Len(new) - (g - f + 1)) \in Nat
  /\ LineAt(Splice(d, f, g, new), ShiftWord(k, g + 1, Len(new) - (g - f + 1))) = LineAt(d, k)

\* The lines a splice leaves alone.
LEMMA AroundReads ==
  ASSUME NEW d \in Content, NEW f \in Nat, NEW g \in Nat, f <= g, f <= Len(Lines(d)),
         NEW new \in Seq(Line), NEW k \in Nat, k < f \/ k > g
  PROVE  ReadsAround(d, f, g, new, k)
<1> USE DEF ReadsAround
<1> DEFINE m == Len(new)
           l == Len(Lines(d))
           at == ShiftWord(k, g + 1, m - (g - f + 1))
<1>1. m \in Nat /\ l \in Nat /\ f <= l BY LenProperties, LinesType
<1>0. at = IF k < f THEN k ELSE k + m - (g - f + 1)
  <2> HIDE DEF m
  <2> QED BY <1>1 DEF ShiftWord
<1>2. g \in Int /\ f <= g + 1 OBVIOUS
<1>3. at \in Nat
  <2> HIDE DEF m, at
  <2> QED BY <1>0, <1>1
<1>4. CASE k < l \/ g < l
  <2>1. LineAt(Splice(d, f, g, new), ShiftWord(k, g + 1, m - (g - f + 1))) = LineAt(d, k)
    BY <1>2, <1>4, SpliceFollows
  <2> QED BY <1>3, <2>1
<1>5. CASE l <= k /\ l <= g
  <2>1. k > g
    <3> HIDE DEF l, m
    <3> QED BY <1>1, <1>5
  <2> DEFINE e == l - 1
             n == k - g + e
  <2>2. Splice(d, f, g, new) = Splice(d, IF f < l THEN f ELSE l, l - 1, new)
    BY <1>2, <1>5, SplicePast
  <2>3. (IF f < l THEN f ELSE l) = f BY <1>1
  <2>4. e \in Int /\ f <= e + 1 /\ e < l /\ n \in Int /\ n > e /\ n >= l /\ n \in Nat
    <3> HIDE DEF l
    <3> QED BY <1>1, <2>1
  <2>5. Splice(d, f, g, new) = Splice(d, f, e, new) BY <2>2, <2>3
  <2>6. at = n + (m - (e - f + 1))
    <3>1. at = k + m - (g - f + 1) BY <1>0, <2>1
    <3> HIDE DEF m, l, at
    <3> QED BY <1>1, <2>1, <3>1
  <2>7. LineAt(Splice(d, f, e, new), n + (m - (e - f + 1))) = LineAt(d, n)
    <3> HIDE DEF e, n
    <3> QED BY <2>4, SpliceReads
  <2>8. \A i \in Nat : i >= l => LineAt(d, i) = Blank
    <3> TAKE i \in Nat
    <3> HAVE i >= l
    <3>1. i \in Int /\ LineAt(Lines(d), i) = LineAt(d, i) BY LinesReadsAlike
    <3>2. ~ (i \in 0 .. l - 1) BY <1>1
    <3> QED BY <3>1, <3>2 DEF LineAt
  <2>9. LineAt(d, n) = Blank /\ LineAt(d, k) = Blank BY <1>5, <2>4, <2>8
  <2> QED BY <1>3, <2>5, <2>6, <2>7, <2>9
<1> QED BY <1>1, <1>4, <1>5

\* A second splice, of the lines the target is at by then, completes both edits.
LEMMA SecondWrite ==
  ASSUME NEW c \in Content, NEW s, NEW t, TwoRanges(s, t), NEW d \in Content,
         Lifted(c, s, d),
         NEW f, f = Up(s, t.start), NEW g, g = Up(s, t.end), f <= Len(Lines(d)),
         NEW new \in Seq(Line), NEW other, Reworded(Splice(d, f, g, new), other)
  PROVE  BothEdits(c, s, t, new, other)
<1> DEFINE cut == Splice(d, f, g, new)
           m   == Len(new)
<1>1. /\ s \in ZonePair /\ t \in ZonePair /\ s.start <= s.end /\ t.start <= t.end
      /\ s.start \in Nat /\ s.end \in Nat /\ t.start \in Nat /\ t.end \in Nat
      /\ s.end < t.start \/ t.end < s.start
  BY DEF TwoRanges, ZonePair
<1>2. Outside(s, t.start) /\ Outside(s, t.end)
      /\ (t.end < s.start \/ s.end < t.start)
  BY <1>1 DEF Outside
<1>3. f \in Nat /\ g \in Nat /\ g = f + (t.end - t.start)
  BY <1>1, <1>2, UpMoves
<1>4. f <= g /\ f \in Nat /\ g \in Nat BY <1>1, <1>3
<1>5. m \in Nat BY LenProperties
<1>6. cut \in Content
  <2>1. g \in Int /\ g >= -1 BY <1>3
  <2> QED BY <1>3, <2>1, SpliceType
<1>7. \A i \in Nat : Bare(LineAt(other, i)) = Bare(LineAt(cut, i))
  <2> TAKE i \in Nat
  <2>1. LineAt(cut, i) \in Line
    <3> HIDE DEF cut
    <3> QED BY <1>6, LineAtType DEF Content
  <2>2. Same(LineAt(other, i), LineAt(cut, i)) BY DEF Reworded, Same
  <2> HIDE DEF cut
  <2> QED BY <2>1, <2>2, SameIsBare
<1>8. ASSUME NEW k \in Nat, Outside(s, k), Outside(t, k)
      PROVE  Bare(LineAt(other, Place(s, t, Len(new), k))) = Bare(LineAt(c, k))
  <2> DEFINE u  == Up(s, k)
             at == ShiftWord(u, g + 1, m - (g - f + 1))
  <2>1. u \in Nat /\ (k < t.start <=> u < f) /\ (t.end < k <=> g < u)
    BY <1>1, <1>2, <1>8, UpMoves
  <2>2. u < f \/ u > g BY <1>1, <1>3, <1>8, <2>1 DEF Outside
  <2>3. Place(s, t, Len(new), k) = at
    <3>1. g - f + 1 = t.end - t.start + 1
      <4> DEFINE x == t.start  y == t.end
      <4>1. x \in Nat /\ y \in Nat /\ f \in Nat /\ g = f + (y - x) BY <1>1, <1>3
      <4> HIDE DEF x, y
      <4>2. g - f + 1 = y - x + 1 BY <4>1
      <4> QED BY <4>2 DEF x, y
    <3>2. Place(s, t, Len(new), k) = IF u < f THEN u ELSE u + m - (g - f + 1)
      BY <3>1 DEF Place
    <3>3. u \in Nat BY <2>1
    <3> HIDE DEF u, m
    <3> QED BY <1>4, <1>5, <2>2, <3>2, <3>3 DEF ShiftWord
  <2>4. at \in Nat /\ LineAt(cut, at) = LineAt(d, u)
    <3>1. u \in Nat BY <2>1
    <3> HIDE DEF u
    <3>2. ReadsAround(d, f, g, new, u) BY <1>4, <2>2, <3>1, AroundReads
    <3> QED BY <3>2 DEF ReadsAround
  <2>5. LineAt(c, k) \in Line
    <3>1. k \in Int OBVIOUS
    <3> QED BY <3>1, LineAtType DEF Content
  <2>6. Bare(LineAt(d, u)) = Bare(LineAt(c, k)) BY <1>8, <2>5, SameIsBare DEF Lifted
  <2> HIDE DEF at, u, cut
  <2> QED BY <1>7, <2>3, <2>4, <2>6
<1>9. ASSUME NEW j \in Nat, j < Len(new)
      PROVE  Bare(LineAt(other, Up(s, t.start) + j)) = Bare(new[j + 1])
  <2>1. j \in 0 .. Len(new) - 1 BY <1>5, <1>9
  <2>2. f <= g + 1 /\ g \in Int BY <1>3, <1>4
  <2>3. LineAt(cut, f + j) = new[j + 1] BY <1>3, <2>1, <2>2, NewLineReads
  <2>4. f + j \in Nat BY <1>3
  <2> HIDE DEF cut
  <2> QED BY <1>7, <2>3, <2>4
<1> QED BY <1>8, <1>9 DEF BothEdits

(***************************************************************************)
(* A move between lines or zones that lie apart.                           *)
(***************************************************************************)
LEMMA RangeType ==
  ASSUME NEW c \in Content, NEW ref \in TargetRef, ref.kind \in {"zone", "lines"},
         ref.kind = "zone" => HasRec(c, ref.rec)
  PROVE  RangeNamed(c, ref) \in ZonePair
<1>1. CASE ref.kind = "zone"
  <2>1. ref.rec \in Rec /\ ref.slot \in ZoneIdx BY <1>1 DEF TargetRef
  <2>2. HasRec(c, ref.rec) BY <1>1
  <2>3. ZoneAt(c, ref.rec, ref.slot) \in ZonePair BY <2>1, <2>2, ZoneWordsType
  <2> QED BY <1>1, <2>3 DEF RangeNamed
<1>2. CASE ref.kind = "lines"
  BY <1>2 DEF TargetRef, RangeNamed, ZonePair
<1> QED BY <1>1, <1>2

\* What StraightMove says of the two ranges.
LEMMA StraightFacts ==
  ASSUME NEW c \in Content, NEW from \in TargetRef, NEW aim \in TargetRef,
         StraightMove(c, from, aim),
         NEW s, s = RangeNamed(c, from), NEW t, t = RangeNamed(c, aim)
  PROVE  /\ TwoRanges(s, t) /\ s \in ZonePair /\ t \in ZonePair
         /\ s.start <= s.end /\ t.start <= t.end
         /\ s # NoZone /\ t # NoZone
         /\ s.end < Len(Lines(c)) /\ t.end < Len(Lines(c))
         /\ Outside(s, t.start) /\ Outside(s, t.end)
         /\ from.kind \in {"zone", "lines"} /\ aim.kind \in {"zone", "lines"}
         /\ NoRecordIn(c, s.start, s.end)
         /\ from.kind = "zone" => HasRec(c, from.rec) /\ AsciiLine(c, from.rec) < s.start
         /\ aim.kind = "zone" =>
              /\ HasRec(c, aim.rec) /\ AsciiLine(c, aim.rec) < t.start
              /\ Kept(c, t.start - 1, s.start, s.end)
              /\ from.kind = "zone" /\ from.rec = aim.rec => t.start < s.start
<1>1. /\ {from.kind, aim.kind} \subseteq {"zone", "lines"}
      /\ \A p \in {s, t} : p.start <= p.end /\ p.end < Len(Lines(c)) /\ p # NoZone
                           /\ NoRecordIn(c, p.start, p.end)
      /\ ~ Meets(s.start, s.end, t.start, t.end)
      /\ \A ref \in {from, aim} :
           ref.kind = "zone" =>
             HasRec(c, ref.rec) /\ AsciiLine(c, ref.rec) < RangeNamed(c, ref).start
      /\ aim.kind = "zone" => Kept(c, t.start - 1, s.start, s.end)
      /\ from.kind = "zone" /\ aim.kind = "zone" /\ from.rec = aim.rec => t.start < s.start
  BY DEF StraightMove
<1>2. from.kind \in {"zone", "lines"} /\ aim.kind \in {"zone", "lines"} BY <1>1
<1>3. s \in ZonePair /\ t \in ZonePair BY <1>1, <1>2, RangeType
<1>4. /\ s.start \in Nat /\ s.end \in Nat /\ t.start \in Nat /\ t.end \in Nat
      /\ s.start <= s.end /\ t.start <= t.end
  BY <1>1, <1>3 DEF ZonePair
<1>5. s.end < t.start \/ t.end < s.start
  <2>1. ~ (s.start <= t.end /\ t.start <= s.end) BY <1>1 DEF Meets
  <2> DEFINE a == s.start  b == s.end  e == t.start  f == t.end
  <2>2. a \in Nat /\ b \in Nat /\ e \in Nat /\ f \in Nat /\ ~ (a <= f /\ e <= b)
    BY <1>4, <2>1
  <2> HIDE DEF a, b, e, f
  <2>3. b < e \/ f < a BY <2>2
  <2> QED BY <2>3 DEF a, b, e, f
<1>6. TwoRanges(s, t) BY <1>3, <1>4, <1>5 DEF TwoRanges
<1>7. Outside(s, t.start) /\ Outside(s, t.end)
  <2> DEFINE a == s.start  b == s.end  e == t.start  f == t.end
  <2>1. a \in Nat /\ b \in Nat /\ e \in Nat /\ f \in Nat /\ a <= b /\ e <= f /\ (b < e \/ f < a)
    BY <1>4, <1>5
  <2> HIDE DEF a, b, e, f
  <2>2. (e < a \/ b < e) /\ (f < a \/ b < f) BY <2>1
  <2> QED BY <2>2 DEF Outside, a, b, e, f
<1> QED BY <1>1, <1>2, <1>3, <1>6, <1>7

\* Two line numbers on one side of the lines taken away.
LEMMA PairMoves ==
  ASSUME NEW s \in ZonePair, s.start <= s.end, NEW t \in ZonePair,
         Outside(s, t.start), Outside(s, t.end)
  PROVE  ShiftPair(t, s.end + 1, 0 - (s.end - s.start + 1))
           = [start |-> Up(s, t.start), end |-> Up(s, t.end)]
<1>1. t.start \in Nat /\ t.end \in Nat BY DEF ZonePair
<1>2. /\ ShiftWord(t.start, s.end + 1, 0 - (s.end - s.start + 1)) = Up(s, t.start)
      /\ ShiftWord(t.end, s.end + 1, 0 - (s.end - s.start + 1)) = Up(s, t.end)
  BY <1>1, UpMoves
<1> QED BY <1>2 DEF ShiftPair

\* The hex-words of a record that no line taken away belongs to.
LEMMA WordsMove ==
  ASSUME NEW c \in Content, NEW s \in ZonePair, s.start <= s.end, s.end < Len(Lines(c)),
         NEW h \in Headers(c), h + 6 < s.start \/ h > s.end,
         LineAt(c, h + 2).kind = "hex"
  PROVE  /\ Up(s, h) \in Nat /\ Up(s, h + 2) = Up(s, h) + 2 /\ Up(s, h + 1) = Up(s, h) + 1
         /\ LineAt(SpliceAndShift(c, s.start, s.end, << >>), Up(s, h) + 2)
              = ShiftHexLine(LineAt(c, h + 2), s.end + 1, 0 - (s.end - s.start + 1))
<1> DEFINE a == s.start  b == s.end  new == << >>  o == 0
           u == Up(s, h)
           cut == Splice(c, a, b, new)
<1>1. /\ a \in Nat /\ b \in Nat /\ a <= b /\ b \in Int /\ a <= b + 1 /\ b >= -1
      /\ b < Len(Lines(c))
  BY DEF ZonePair
<1>2. new \in Seq(Line) /\ Len(new) = o BY EmptySeq
<1>3. h \in Nat /\ LineAt(c, h) = Marker BY HeaderInLines
<1>4. h + 6 < a \/ h > b OBVIOUS
<1>5. Outside(s, h) /\ Outside(s, h + 1) /\ Outside(s, h + 2)
  <2>1. /\ h < a \/ b < h
        /\ h + 1 < a \/ b < h + 1
        /\ h + 2 < a \/ b < h + 2
    <3> HIDE DEF a, b
    <3> QED BY <1>1, <1>3, <1>4
  <2> QED BY <2>1 DEF Outside
<1>6. u \in Nat /\ Up(s, h + 1) = u + 1 /\ Up(s, h + 2) = u + 2
  <2> DEFINE j == h + 1  k == h + 2
  <2>1. /\ h \in Nat /\ j \in Nat /\ k \in Nat /\ h <= j /\ h <= k /\ j - h = 1 /\ k - h = 2
        /\ j < a \/ b < h
        /\ k < a \/ b < h
    <3> HIDE DEF a, b
    <3> QED BY <1>1, <1>3, <1>4
  <2>2. Outside(s, h) /\ Outside(s, j) /\ Outside(s, k) BY <1>5
  <2> HIDE DEF j, k
  <2>3. u \in Nat /\ Up(s, j) = u + (j - h) /\ Up(s, k) = u + (k - h)
    BY <2>1, <2>2, UpMoves
  <2> QED BY <2>1, <2>3 DEF j, k
<1>7. /\ ShiftWord(h, b + 1, o - (b - a + 1)) = u
      /\ ShiftWord(h + 2, b + 1, o - (b - a + 1)) = u + 2
  <2>1. h + 2 \in Nat BY <1>3
  <2>2. ShiftWord(h, b + 1, o - (b - a + 1)) = Up(s, h) BY <1>3, <1>5, UpMoves
  <2>3. ShiftWord(h + 2, b + 1, o - (b - a + 1)) = Up(s, h + 2) BY <1>5, <2>1, UpMoves
  <2> QED BY <1>6, <2>2, <2>3
<1>8. LineAt(cut, u) = Marker /\ LineAt(cut, u + 2) = LineAt(c, h + 2)
  <2>1. /\ h < a \/ h > b
        /\ h + 2 < a \/ h + 2 > b
        /\ h + 2 \in Nat
    <3> HIDE DEF a, b
    <3> QED BY <1>1, <1>3, <1>4
  <2> HIDE DEF a, b, new, o, u
  <2>2. LineAt(Splice(c, a, b, new), ShiftWord(h, b + 1, Len(new) - (b - a + 1))) = LineAt(c, h)
    BY <1>1, <1>2, <1>3, <2>1, SpliceFollows, SMTT(30)
  <2> DEFINE k == h + 2
  <2>3. k \in Nat /\ (k < a \/ k > b) BY <2>1
  <2> HIDE DEF k
  <2>4. LineAt(Splice(c, a, b, new), ShiftWord(k, b + 1, Len(new) - (b - a + 1))) = LineAt(c, k)
    BY <1>1, <1>2, <2>3, SpliceFollows, SMTT(30)
  <2> QED BY <1>2, <1>3, <1>7, <2>2, <2>4 DEF k, cut
<1>9. cut \in Content
  <2> HIDE DEF a, b, new
  <2> QED BY <1>1, <1>2, SpliceType DEF cut
<1>10. u \in Headers(cut)
  <2>1. u \in Int BY <1>6
  <2> HIDE DEF u, cut
  <2> QED BY <1>8, <1>9, <2>1, HeadersByReading
<1>11. LineAt(SpliceAndShift(c, a, b, new), u + 2) =
         ShiftHexLine(LineAt(c, h + 2), b + 1, o - (b - a + 1))
  <2> DEFINE n == u + 2
  <2>1. n \in Int /\ n - 2 = u BY <1>6
  <2>2. LineAt(cut, n) = LineAt(c, h + 2) /\ LineAt(c, h + 2).kind = "hex" BY <1>8
  <2> HIDE DEF a, b, new, o, u, n
  <2>3. LineAt(SpliceAndShift(c, a, b, new), n) =
          IF n - 2 \in Headers(Splice(c, a, b, new)) /\ LineAt(Splice(c, a, b, new), n).kind = "hex"
          THEN ShiftHexLine(LineAt(Splice(c, a, b, new), n), b + 1, Len(new) - (b - a + 1))
          ELSE LineAt(Splice(c, a, b, new), n)
    BY <1>1, <1>2, <2>1, SpliceAndShiftReads
  <2> QED BY <1>2, <1>10, <2>1, <2>2, <2>3 DEF cut, n
<1> QED BY <1>6, <1>11

\* The record of a target zone lies above or below the lines taken away, and is
\* found again.
FoundAgain(c, r, y, s, t, d, h) ==
  /\ h \in Headers(c) /\ h \in Nat /\ (h + 6 < s.start \/ h > s.end)
  /\ LineAt(c, h + 1) = IndexLine(r)
  /\ LineAt(c, h + 2).kind = "hex" /\ ZonesIn(LineAt(c, h + 2))[y] = t
  /\ HasRec(d, r) /\ AsciiLine(d, r) = Up(s, h) + 2
  /\ AsciiLine(d, r) < Up(s, t.start)

\* The record of the target is found again, lifted like any other line.
LEMMA TargetRecordMoves ==
  ASSUME NEW c \in Content, NEW from \in TargetRef, NEW aim \in TargetRef,
         StraightMove(c, from, aim), aim.kind = "zone",
         NEW s, s = RangeNamed(c, from), NEW t, t = RangeNamed(c, aim),
         NEW d \in Content, Loadable(d), Lifted(c, s, d),
         NEW h, h = HeaderLine(c, aim.rec)
  PROVE  FoundAgain(c, aim.rec, aim.slot, s, t, d, h)
<1> USE DEF FoundAgain
<1> DEFINE r == aim.rec
           a == s.start
           b == s.end
           u == Up(s, h)
<1>1. /\ TwoRanges(s, t) /\ s \in ZonePair /\ t \in ZonePair /\ s.start <= s.end /\ t # NoZone
      /\ s.end < Len(Lines(c)) /\ Outside(s, t.start)
      /\ NoRecordIn(c, s.start, s.end)
      /\ HasRec(c, r) /\ AsciiLine(c, r) < t.start
  BY StraightFacts
<1>2. a \in Nat /\ b \in Nat /\ a <= b /\ t.start \in Nat BY <1>1 DEF ZonePair
<1>3. r \in Rec /\ aim.slot \in ZoneIdx BY DEF TargetRef
<1>4. h \in Headers(c) /\ LineAt(c, h + 1) = IndexLine(r)
  <2>1. h \in HeadersOf(c, r) BY <1>1 DEF HasRec, HeaderLine
  <2> QED BY <2>1 DEF HeadersOf
<1>5. h \in Nat /\ LineAt(c, h) = Marker BY <1>4, HeaderInLines
<1>6. h + 6 < a \/ h > b
  <2>1. ~ (h <= b /\ a <= h + 6) BY <1>1, <1>3 DEF NoRecordIn, Meets, String3Line
  <2> HIDE DEF a, b
  <2> QED BY <1>2, <1>5, <2>1
<1>7. ZoneAt(c, r, aim.slot) = t BY DEF RangeNamed
<1>8. LineAt(c, h + 2).kind = "hex" /\ ZonesIn(LineAt(c, h + 2))[aim.slot] = t
  <2>1. AsciiLine(c, r) = h + 2 BY DEF AsciiLine
  <2>2. ZoneAt(c, r, aim.slot) # NoZone BY <1>1, <1>7
  <2>3. LineAt(c, AsciiLine(c, r)).kind = "hex" BY <1>1, <1>3, <2>2, ZoneAtType
  <2> QED BY <1>7, <2>1, <2>3 DEF ZoneAt
<1>9. u \in Nat /\ Up(s, h + 2) = u + 2 /\ Up(s, h + 1) = u + 1
  <2>1. h + 6 < s.start \/ h > s.end BY <1>6
  <2> HIDE DEF a, b, u
  <2> QED BY <1>1, <1>4, <1>8, <2>1, WordsMove DEF u
<1>10. /\ Outside(s, h) /\ Outside(s, h + 1) /\ Outside(s, h + 2)
       /\ h + 1 \in Nat /\ h + 2 \in Nat
  <2>1. /\ h < a \/ b < h
        /\ h + 1 < a \/ b < h + 1
        /\ h + 2 < a \/ b < h + 2
        /\ h + 1 \in Nat /\ h + 2 \in Nat
    <3> HIDE DEF a, b
    <3> QED BY <1>2, <1>5, <1>6
  <2> QED BY <2>1 DEF Outside
<1>11. LineAt(d, u) = Marker /\ LineAt(d, u + 1) = IndexLine(r)
  <2>1. Same(LineAt(d, u), Marker) BY <1>5, <1>10 DEF Lifted
  <2>2. Same(LineAt(d, u + 1), IndexLine(r)) BY <1>4, <1>9, <1>10 DEF Lifted
  <2> QED BY <2>1, <2>2 DEF Same, IsHexWords, Marker, IndexLine
<1>12. u \in Headers(d)
  <2>1. u \in Int BY <1>9
  <2> HIDE DEF u
  <2> QED BY <1>11, <2>1, HeadersByReading
<1>13. HasRec(d, r) /\ HeaderLine(d, r) = u
  <2>1. HasRec(d, r) BY <1>11, <1>12 DEF HasRec, HeadersOf
  <2> HIDE DEF u
  <2>2. LineAt(d, u + 1) = IndexLine(r) <=> u = HeaderLine(d, r)
    BY <1>3, <1>12, <2>1, TheRecord
  <2> QED BY <1>11, <2>1, <2>2
<1>14. u + 2 < Up(s, t.start)
  <2> DEFINE j == h + 2  k == t.start
  <2>1. j \in Nat /\ k \in Nat /\ j < k /\ Outside(s, j) /\ Outside(s, k) /\ Up(s, j) = u + 2
    BY <1>1, <1>2, <1>9, <1>10 DEF AsciiLine
  <2> HIDE DEF j, k
  <2>2. Up(s, j) < Up(s, k) BY <1>1, <2>1, UpMoves
  <2> QED BY <2>1, <2>2 DEF k
<1>15. AsciiLine(d, r) = u + 2 BY <1>13 DEF AsciiLine
<1> QED BY <1>4, <1>5, <1>6, <1>8, <1>13, <1>14, <1>15

\* Zone y of the record at h has its two words shifted.
WordsShifted(c, s, d, h, y) ==
  ZonesIn(LineAt(d, Up(s, h) + 2))[y]
    = ShiftPair(ZonesIn(LineAt(c, h + 2))[y], s.end + 1, 0 - (s.end - s.start + 1))

\* hex-replace moves the hex-words along, unless they named the lines it deletes.
LEMMA WordsAfterLines ==
  ASSUME NEW c \in Content, NEW s \in ZonePair, s.start <= s.end, s.end < Len(Lines(c)),
         CanHexReplace(c, s.start, s.end, << >>),
         NEW d, d = HexReplaced(c, s.start, s.end, << >>),
         NEW h \in Headers(c), h + 6 < s.start \/ h > s.end,
         NEW y \in ZoneIdx, LineAt(c, h + 2).kind = "hex",
         ZonesIn(LineAt(d, Up(s, h) + 2))[y] # NoZone
  PROVE  WordsShifted(c, s, d, h, y)
<1> USE DEF WordsShifted
<1> DEFINE a == s.start  b == s.end  new == << >>  o == 0
           n == Up(s, h) + 2
           sh == SpliceAndShift(c, a, b, new)
           line == LineAt(c, h + 2)
           moved == ShiftHexLine(line, b + 1, 0 - (b - a + 1))
<1>1. a \in Nat /\ b \in Nat /\ new \in Seq(Line) /\ Len(new) = o BY EmptySeq DEF ZonePair
<1>2. n \in Int /\ LineAt(sh, n) = moved BY WordsMove
<1>3. ZonesIn(moved)[y] = ShiftPair(ZonesIn(line)[y], b + 1, 0 - (b - a + 1))
  BY DEF ZonesIn, ShiftHexLine, HexLine
<1>4. \/ LineAt(d, n) = LineAt(sh, n)
      \/ LineAt(d, n) =
           HexLine([z \in ZoneIdx |->
                      IF ZoneHere(sh, n, z) = [start |-> a, end |-> b]
                      THEN Extent(a, Len(new)) ELSE ZoneHere(sh, n, z)])
  <2>1. CanHexReplace(c, a, b, new) /\ d = HexReplaced(c, a, b, new) /\ n \in Int BY <1>2
  <2> HIDE DEF a, b, new, n, o
  <2>2. \/ LineAt(HexReplaced(c, a, b, new), n) = LineAt(SpliceAndShift(c, a, b, new), n)
        \/ /\ n \in Nat /\ n - 2 \in Headers(SpliceAndShift(c, a, b, new))
           /\ IsHexWords(LineAt(SpliceAndShift(c, a, b, new), n))
           /\ \E z \in ZoneIdx :
                ZoneHere(SpliceAndShift(c, a, b, new), n, z) = [start |-> a, end |-> b]
           /\ LineAt(HexReplaced(c, a, b, new), n) =
                HexLine([z \in ZoneIdx |->
                           IF ZoneHere(SpliceAndShift(c, a, b, new), n, z)
                                = [start |-> a, end |-> b]
                           THEN Extent(a, Len(new))
                           ELSE ZoneHere(SpliceAndShift(c, a, b, new), n, z)])
    BY <1>1, <2>1, HexReplacedReads
  <2> QED BY <2>1, <2>2
<1>5. Extent(a, Len(new)) = NoZone BY <1>1 DEF Extent, NoZone
<1>6. ZonesIn(LineAt(sh, n))[y] = ZoneHere(sh, n, y) BY DEF ZoneHere
<1> HIDE DEF a, b, new, n, sh, moved, line
<1>7. CASE LineAt(d, n) = LineAt(sh, n)
  BY <1>2, <1>3, <1>7 DEF n, a, b, line
<1>8. CASE LineAt(d, n) =
             HexLine([z \in ZoneIdx |->
                        IF ZoneHere(sh, n, z) = [start |-> a, end |-> b]
                        THEN Extent(a, Len(new)) ELSE ZoneHere(sh, n, z)])
  <2>1. ZonesIn(LineAt(d, n))[y] = IF ZoneHere(sh, n, y) = [start |-> a, end |-> b]
                                   THEN NoZone ELSE ZoneHere(sh, n, y)
    BY <1>5, <1>8 DEF ZonesIn, HexLine
  <2>2. ZonesIn(LineAt(d, n))[y] # NoZone BY DEF n
  <2>3. ZonesIn(LineAt(d, n))[y] = ZonesIn(LineAt(sh, n))[y] BY <1>6, <2>1, <2>2
  <2> QED BY <1>2, <1>3, <2>3 DEF n, a, b, line
<1> QED BY <1>4, <1>7, <1>8

\* ReplacedIs, every line at once.
OneMoreLine(c, a, z, p, new, d) ==
  \A n \in Int :
    LineAt(d, n) = IF n = a
                   THEN HexLine([ZonesIn(LineAt(c, a)) EXCEPT ![z] = Extent(p.start, Len(new))])
                   ELSE LineAt(SpliceAndShift(c, p.start, p.end, new), n)

LEMMA ReplacedIsThat ==
  ASSUME NEW c \in Content, NEW a \in Nat, NEW z \in ZoneIdx, NEW new \in Seq(Line),
         CanReplace(c, a, z, new), NEW p, p = ZoneHere(c, a, z),
         a < p.start, p.start <= p.end
  PROVE  OneMoreLine(c, a, z, p, new, Replaced(c, a, z, new))
BY ReplacedIs DEF OneMoreLine

\* replace_zone_content moves them along too, but for the record of the zone itself.
LEMMA WordsAfterZone ==
  ASSUME NEW c \in Content, NEW s \in ZonePair, s.start <= s.end, s.end < Len(Lines(c)),
         NEW a \in Nat, NEW z \in ZoneIdx, CanReplace(c, a, z, << >>),
         s = ZoneHere(c, a, z), a < s.start,
         NEW d, d = Replaced(c, a, z, << >>),
         NEW h \in Headers(c), h + 6 < s.start \/ h > s.end,
         NEW y \in ZoneIdx, LineAt(c, h + 2).kind = "hex",
         NEW t \in ZonePair, t = ZonesIn(LineAt(c, h + 2))[y],
         h + 2 = a => y # z /\ t.start < s.start /\ t.end < s.start
  PROVE  WordsShifted(c, s, d, h, y)
<1> USE DEF WordsShifted
<1> DEFINE b == s.start  e == s.end
           n == Up(s, h) + 2
           sh == SpliceAndShift(c, b, e, << >>)
           line == LineAt(c, h + 2)
           moved == ShiftHexLine(line, e + 1, 0 - (e - b + 1))
           zs == [ZonesIn(LineAt(c, a)) EXCEPT ![z] = Extent(b, Len(<< >>))]
<1>1. b \in Nat /\ e \in Nat /\ b <= e /\ << >> \in Seq(Line) BY EmptySeq DEF ZonePair
<1>2. n \in Int /\ LineAt(sh, n) = moved BY WordsMove
<1>3. ZonesIn(moved)[y] = ShiftPair(t, e + 1, 0 - (e - b + 1))
  BY DEF ZonesIn, ShiftHexLine, HexLine
<1>4. LineAt(d, n) = IF n = a THEN HexLine(zs) ELSE LineAt(sh, n)
  <2> DEFINE new == << >>
  <2>1. /\ new \in Seq(Line) /\ CanReplace(c, a, z, new) /\ d = Replaced(c, a, z, new)
        /\ sh = SpliceAndShift(c, s.start, s.end, new)
        /\ zs = [ZonesIn(LineAt(c, a)) EXCEPT ![z] = Extent(s.start, Len(new))]
        /\ n \in Int
    BY <1>1, <1>2
  <2> HIDE DEF n, new, sh, zs
  <2>2. OneMoreLine(c, a, z, s, new, Replaced(c, a, z, new)) BY <2>1, ReplacedIsThat
  <2>3. OneMoreLine(c, a, z, s, new, d) BY <2>1, <2>2
  <2> QED BY <2>1, <2>3 DEF OneMoreLine
<1>5. n = a <=> h + 2 = a
  <2>1. h \in Nat /\ a < b /\ (h + 6 < b \/ h > e) BY HeaderInLines
  <2>2. n = (IF h < b THEN h ELSE h - (e - b + 1)) + 2 BY DEF Up
  <2> HIDE DEF b, e, n
  <2> QED BY <1>1, <2>1, <2>2
<1>6. CASE n # a
  <2>1. LineAt(d, n) = moved BY <1>2, <1>4, <1>6
  <2> HIDE DEF moved
  <2> QED BY <1>3, <2>1
<1>7. CASE n = a
  <2>1. h + 2 = a /\ y # z /\ t.start < b /\ t.end < b BY <1>5, <1>7
  <2>2. LineAt(d, n) = HexLine(zs) BY <1>4, <1>7
  <2>3. ZonesIn(LineAt(c, a)) \in Zones
    <3>1. IsHexWords(LineAt(c, a)) /\ a \in Int BY DEF CanReplace
    <3> QED BY <3>1, ZonesThereType
  <2>4. zs[y] = t BY <2>1, <2>3 DEF Zones
  <2>5. ZonesIn(LineAt(d, n))[y] = t
    <3> HIDE DEF zs, n
    <3> QED BY <2>2, <2>4 DEF ZonesIn, HexLine
  <2>6. ShiftPair(t, e + 1, 0 - (e - b + 1)) = t
    <3> DEFINE u == t.start  v == t.end
    <3>1. u \in Nat /\ v \in Nat /\ t = [start |-> u, end |-> v] /\ u < b /\ v < b
      BY <2>1 DEF ZonePair
    <3> HIDE DEF b, e, u, v
    <3>2. ShiftWord(u, e + 1, 0 - (e - b + 1)) = u /\ ShiftWord(v, e + 1, 0 - (e - b + 1)) = v
      BY <1>1, <3>1 DEF ShiftWord
    <3> QED BY <3>1, <3>2 DEF ShiftPair, u, v
  <2> QED BY <2>5, <2>6
<1> QED BY <1>6, <1>7

\* The second write finds its target where the first has moved it.
TargetFollows(c, aim, s, t, d, to) ==
  /\ to \in TargetRef /\ to.kind = aim.kind
  /\ RangeNamed(d, to) = [start |-> Up(s, t.start), end |-> Up(s, t.end)]
  /\ d \in Content /\ Lifted(c, s, d)
  /\ aim.kind = "zone" =>
       /\ to.rec = aim.rec /\ HasRec(d, to.rec)
       /\ AsciiLine(d, to.rec) < Up(s, t.start)

\* Hex-words are rewritten by the number of lines a literal range is adjusted by.
LEMMA TargetMoves ==
  ASSUME TextsJoin, NEW c \in Content, NEW from \in TargetRef, NEW aim \in TargetRef,
         StraightMove(c, from, aim), CanSet(c, from, Empty, FALSE),
         NEW s, s = RangeNamed(c, from), NEW t, t = RangeNamed(c, aim),
         NEW d, d = SetRef(c, from, Empty, FALSE), NEW to, to = Adjusted(c, from, aim),
         aim.kind = "zone" => Loadable(d) /\ ZoneAt(d, aim.rec, aim.slot) # NoZone
  PROVE  TargetFollows(c, aim, s, t, d, to)
<1> USE DEF TargetFollows
<1>0. /\ TwoRanges(s, t) /\ s \in ZonePair /\ t \in ZonePair
      /\ s.start <= s.end /\ t.start <= t.end
      /\ s # NoZone /\ t # NoZone
      /\ s.end < Len(Lines(c)) /\ t.end < Len(Lines(c))
      /\ Outside(s, t.start) /\ Outside(s, t.end)
      /\ from.kind \in {"zone", "lines"} /\ aim.kind \in {"zone", "lines"}
      /\ from.kind = "zone" => AsciiLine(c, from.rec) < s.start
      /\ aim.kind = "zone" /\ from.kind = "zone" /\ from.rec = aim.rec => t.start < s.start
  BY StraightFacts
<1>1. Empty \in Content /\ Lines(Incoming(c, from, Empty, FALSE)) = << >>
  <2>1. Empty \in Content /\ Len(Empty) = 1 /\ Empty[1] = Blank
    BY OneLineType DEF Line, Empty
  <2>2. Lines(Empty) = SubSeq(Empty, 1, 0) BY <2>1 DEF Lines
  <2>3. SubSeq(Empty, 1, 0) = << >>
    <3>1. 1 \in Int /\ 0 \in Int /\ 1 > 0 OBVIOUS
    <3>2. Empty \in Seq(Line) BY <2>1 DEF Content
    <3> QED BY <3>1, <3>2 DEF SubSeq
  <2> QED BY <2>1, <2>2, <2>3 DEF Incoming
<1>3. Rewrites(c, from, s, << >>, d)
  <2> DEFINE new == << >>  v == Empty  no == FALSE
  <2>1. new = Lines(Incoming(c, from, v, no)) /\ v \in Content /\ no \in BOOLEAN
        /\ d = SetRef(c, from, v, no) /\ CanSet(c, from, v, no)
    BY <1>1
  <2> HIDE DEF new, v, no
  <2> QED BY <1>0, <2>1, SetReworded DEF new
<1>4. Lifted(c, s, d)
  <2> SUFFICES ASSUME NEW k \in Nat, Outside(s, k) PROVE Same(LineAt(d, Up(s, k)), LineAt(c, k))
    BY DEF Lifted
  <2>1. Reworded(Splice(c, s.start, s.end, << >>), d) BY <1>3 DEF Rewrites
  <2> QED BY <1>0, <2>1, FirstWrite
<1>5. /\ SourceRange(c, from) = s
      /\ to = IF aim.kind # "lines" \/ aim.start <= s.end THEN aim
              ELSE Literal(aim.start - (s.end - s.start + 1), aim.end - (s.end - s.start + 1))
  BY <1>0 DEF SourceRange, Adjusted
<1>6. CASE aim.kind = "lines"
  <2> DEFINE a == s.start  b == s.end  e == t.start  f == t.end
  <2>1. /\ a \in Nat /\ b \in Nat /\ e \in Nat /\ f \in Nat /\ a <= b /\ e <= f
        /\ b < e \/ f < a
    BY <1>0 DEF TwoRanges, ZonePair
  <2>2. aim.start = e /\ aim.end = f /\ aim = Literal(e, f)
    BY <1>6 DEF RangeNamed, TargetRef, Literal
  <2>3. /\ Up(s, e) = IF e < a THEN e ELSE e - (b - a + 1)
        /\ Up(s, f) = IF f < a THEN f ELSE f - (b - a + 1)
    BY DEF Up
  <2>4. to = IF e <= b THEN Literal(e, f) ELSE Literal(e - (b - a + 1), f - (b - a + 1))
    BY <1>5, <1>6, <2>2
  <2>5. to = Literal(Up(s, e), Up(s, f))
    <3>1. CASE e <= b
      <4>1. Up(s, e) = e /\ Up(s, f) = f
        <5> HIDE DEF a, b, e, f
        <5> QED BY <2>1, <2>3, <3>1
      <4> QED BY <2>4, <3>1, <4>1
    <3>2. CASE ~ (e <= b)
      <4>1. Up(s, e) = e - (b - a + 1) /\ Up(s, f) = f - (b - a + 1)
        <5> HIDE DEF a, b, e, f
        <5> QED BY <2>1, <2>3, <3>2
      <4> QED BY <2>4, <3>2, <4>1
    <3> QED BY <3>1, <3>2
  <2>6. Up(s, e) \in Nat /\ Up(s, f) \in Nat
    <3> HIDE DEF e, f
    <3> QED BY <1>0, <2>1, UpMoves DEF e, f
  <2> HIDE DEF e, f
  <2>7. /\ to \in TargetRef /\ to.kind = "lines"
        /\ RangeNamed(d, to) = [start |-> Up(s, e), end |-> Up(s, f)]
    BY <2>5, <2>6 DEF TargetRef, Literal, RangeNamed
  <2> QED BY <1>3, <1>4, <1>6, <2>7 DEF e, f, Rewrites
<1>7. CASE aim.kind = "zone"
  <2> DEFINE r == aim.rec
             y == aim.slot
             h == HeaderLine(c, r)
             n == Up(s, h) + 2
  <2>1. to = aim BY <1>5, <1>7
  <2>2. r \in Rec /\ y \in ZoneIdx BY <1>7 DEF TargetRef
  <2>3. Loadable(d) /\ ZoneAt(d, r, y) # NoZone BY <1>7
  <2>4. /\ h \in Headers(c) /\ h \in Nat /\ (h + 6 < s.start \/ h > s.end)
        /\ LineAt(c, h + 1) = IndexLine(r)
        /\ LineAt(c, h + 2).kind = "hex" /\ ZonesIn(LineAt(c, h + 2))[y] = t
        /\ HasRec(d, r) /\ AsciiLine(d, r) = n
        /\ AsciiLine(d, r) < Up(s, t.start)
    <3>1. h = HeaderLine(c, aim.rec) OBVIOUS
    <3> HIDE DEF h
    <3>2. FoundAgain(c, aim.rec, aim.slot, s, t, d, h)
      BY <1>3, <1>4, <1>7, <2>3, <3>1, TargetRecordMoves DEF Rewrites
    <3> QED BY <3>2 DEF FoundAgain
  <2>5. ZoneAt(d, r, y) = ZonesIn(LineAt(d, n))[y] BY <2>4 DEF ZoneAt
  <2>6. ZonesIn(LineAt(d, n))[y] = ShiftPair(t, s.end + 1, 0 - (s.end - s.start + 1))
    <3>1. CASE from.kind = "lines"
      <4>1. CanHexReplace(c, s.start, s.end, << >>) /\ d = HexReplaced(c, s.start, s.end, << >>)
        BY <1>3, <3>1 DEF Rewrites
      <4>2. ZonesIn(LineAt(d, Up(s, h) + 2))[y] # NoZone BY <2>3, <2>5
      <4> HIDE DEF h, r, y
      <4>3. WordsShifted(c, s, d, h, y) BY <1>0, <2>2, <2>4, <4>1, <4>2, WordsAfterLines
      <4> QED BY <2>4, <4>3 DEF WordsShifted
    <3>2. CASE from.kind = "zone"
      <4> DEFINE a == AsciiLine(c, from.rec)
                 z == from.slot
      <4>1. /\ a \in Nat /\ z \in ZoneIdx /\ CanReplace(c, a, z, << >>) /\ s = ZoneHere(c, a, z)
            /\ a < s.start /\ d = Replaced(c, a, z, << >>)
        BY <1>0, <1>3, <3>2 DEF Rewrites
      <4>2. ASSUME h + 2 = a PROVE y # z /\ t.start < s.start /\ t.end < s.start
        <5>1. h = HeaderLine(c, from.rec)
          <6>1. HeaderLine(c, from.rec) \in Nat BY <1>3, <3>2, HeaderLineType DEF Rewrites
          <6> QED BY <2>4, <4>2, <6>1 DEF AsciiLine
        <5>2. LineAt(c, h + 1) = IndexLine(from.rec)
          <6> HIDE DEF h
          <6> QED BY <1>3, <2>4, <3>2, <5>1, TheRecord DEF Rewrites
        <5>3. from.rec = r
          <6>1. IndexLine(from.rec) = IndexLine(r) BY <2>4, <5>2
          <6>2. IndexLine(from.rec).rec = from.rec /\ IndexLine(r).rec = r BY DEF IndexLine
          <6> QED BY <6>1, <6>2
        <5>4. t.start < s.start BY <1>0, <1>7, <3>2, <5>3
        <5>5. t.end < s.start
          <6> DEFINE i == s.start  j == s.end  k == t.start  l == t.end
          <6>1. i \in Nat /\ j \in Nat /\ k \in Nat /\ l \in Nat /\ i <= j /\ k < i
                /\ (j < k \/ l < i)
            BY <1>0, <5>4 DEF TwoRanges, ZonePair
          <6> HIDE DEF i, j, k, l
          <6>2. l < i BY <6>1
          <6> QED BY <6>2 DEF i, l
        <5>6. y # z
          <6>1. SUFFICES ASSUME y = z PROVE FALSE OBVIOUS
          <6>2. s = t BY <4>1, <4>2, <6>1, <2>4 DEF ZoneHere
          <6>3. s.start \in Nat BY <1>0 DEF ZonePair
          <6> QED BY <5>4, <6>2, <6>3
        <5> QED BY <5>4, <5>5, <5>6
      <4> HIDE DEF h, r, y, a, z
      <4>3. WordsShifted(c, s, d, h, y) BY <1>0, <2>2, <2>4, <4>1, <4>2, WordsAfterZone
      <4> QED BY <2>4, <4>3 DEF WordsShifted
    <3> QED BY <1>0, <3>1, <3>2
  <2>7. RangeNamed(d, to) = [start |-> Up(s, t.start), end |-> Up(s, t.end)]
    <3>1. RangeNamed(d, to) = ZoneAt(d, r, y) BY <1>7, <2>1 DEF RangeNamed
    <3>2. ShiftPair(t, s.end + 1, 0 - (s.end - s.start + 1))
            = [start |-> Up(s, t.start), end |-> Up(s, t.end)]
      BY <1>0, PairMoves
    <3> QED BY <2>5, <2>6, <3>1, <3>2
  <2> QED BY <1>3, <1>4, <1>7, <2>1, <2>4, <2>7 DEF Rewrites
<1> QED BY <1>0, <1>6, <1>7

(***************************************************************************)
(* A value appended to the target: read after the first write, the target  *)
(* says what it said before.                                               *)
(***************************************************************************)
SameLines(x, y) == Len(x) = Len(y) /\ \A i \in 1 .. Len(x) : Bare(x[i]) = Bare(y[i])

ThreeParts(all, front, seam, rest) ==
  /\ all \in Seq(Line) /\ Len(all) = Len(front) + 1 + Len(rest)
  /\ \A i \in 1 .. Len(all) :
       all[i] = IF i <= Len(front) THEN front[i]
                ELSE IF i = Len(front) + 1 THEN seam
                ELSE rest[i - (Len(front) + 1)]

\* A text put together from three parts has them.
LEMMA PartsJoined ==
  ASSUME NEW front \in Seq(Line), NEW seam \in Line, NEW rest \in Seq(Line)
  PROVE  ThreeParts(front \o << seam >> \o rest, front, seam, rest)
<1> DEFINE mid == << seam >>
           z == front \o mid
           f == Len(front)
           m == Len(rest)
<1>1. f \in Nat /\ m \in Nat BY LenProperties
<1>2. mid \in Seq(Line) /\ Len(mid) = 1 /\ mid[1] = seam OBVIOUS
<1>3. /\ z \in Seq(Line) /\ Len(z) = f + 1
      /\ \A i \in 1 .. f : z[i] = front[i]
      /\ z[f + 1] = mid[1]
  <2> HIDE DEF mid
  <2> QED BY <1>2, OneMore
<1> HIDE DEF z
<1>4. /\ z \o rest \in Seq(Line) /\ Len(z \o rest) = (f + 1) + m
      /\ \A i \in 1 .. (f + 1) + m : (z \o rest)[i] = IF i <= f + 1 THEN z[i] ELSE rest[i - (f + 1)]
  BY <1>1, <1>3, ConcatProperties
<1>5. ASSUME NEW i \in 1 .. (f + 1) + m
      PROVE  (z \o rest)[i] = IF i <= f THEN front[i]
                              ELSE IF i = f + 1 THEN seam ELSE rest[i - (f + 1)]
  <2>1. i \in Nat /\ 1 <= i BY <1>1
  <2>2. (z \o rest)[i] = IF i <= f + 1 THEN z[i] ELSE rest[i - (f + 1)] BY <1>4
  <2>3. CASE i <= f
    <3>1. i \in 1 .. f /\ i <= f + 1
      <4> HIDE DEF f
      <4> QED BY <1>1, <2>1, <2>3
    <3>2. z[i] = front[i] BY <1>3, <3>1
    <3> QED BY <2>2, <2>3, <3>1, <3>2
  <2>4. CASE i = f + 1
    <3>1. ~ (i <= f) /\ i <= f + 1
      <4> HIDE DEF f
      <4> QED BY <1>1, <2>4
    <3>2. z[i] = seam BY <1>2, <1>3, <2>4
    <3> QED BY <2>2, <2>4, <3>1, <3>2
  <2>5. CASE i > f + 1
    <3>1. ~ (i <= f) /\ ~ (i <= f + 1) /\ i # f + 1
      <4> HIDE DEF f
      <4> QED BY <1>1, <2>1, <2>5
    <3> QED BY <2>2, <3>1
  <2>6. i <= f \/ i = f + 1 \/ i > f + 1
    <3> HIDE DEF f
    <3> QED BY <1>1, <2>1
  <2> QED BY <2>3, <2>4, <2>5, <2>6
<1>6. Len(z \o rest) = f + 1 + m BY <1>4
<1> QED BY <1>4, <1>5, <1>6 DEF ThreeParts, z

\* The line two values meet in.
SeamOf(x, y) == IF x = Blank THEN y ELSE IF y = Blank THEN x ELSE TextLine(x.text \o y.text)

\* append_or_replace keeps both values but for that line.
LEMMA FusedParts ==
  ASSUME TextsJoin, NEW u \in Content, NEW v \in Content, CanFuse(u, v)
  PROVE  /\ ThreeParts(Fused(u, v), SubSeq(u, 1, Len(u) - 1), SeamOf(u[Len(u)], v[1]), Tail(v))
         /\ SubSeq(u, 1, Len(u) - 1) \in Seq(Line)
         /\ Len(SubSeq(u, 1, Len(u) - 1)) = Len(u) - 1
         /\ \A i \in 1 .. Len(u) - 1 : SubSeq(u, 1, Len(u) - 1)[i] = u[i]
         /\ Tail(v) \in Seq(Line)
         /\ u \in Seq(Line) /\ Len(u) \in Nat \ {0} /\ u[Len(u)] \in Line /\ v[1] \in Line
<1> DEFINE x == u[Len(u)]
           y == v[1]
           front == SubSeq(u, 1, Len(u) - 1)
<1>1. u \in Seq(Line) /\ Len(u) \in Nat \ {0} /\ v \in Seq(Line) /\ Len(v) \in Nat \ {0}
  BY EmptySeq, LenProperties DEF Content
<1>2. x \in Line /\ y \in Line
  <2>1. Len(u) \in 1 .. Len(u) /\ 1 \in 1 .. Len(v) BY <1>1
  <2> QED BY <1>1, <2>1, ElementOfSeq
<1>3. x.kind \in {"text", "blank"} /\ y.kind \in {"text", "blank"} BY DEF CanFuse
<1>4. SeamOf(x, y) \in Line
  <2> HIDE DEF x, y
  <2> QED BY <1>2, <1>3, SeamType DEF SeamOf
<1>5. /\ front \in Seq(Line) /\ Len(front) = Len(u) - 1
      /\ \A i \in 1 .. Len(u) - 1 : front[i] = u[i]
  <2>1. Len(u) - 1 \in 0 .. Len(u) BY <1>1
  <2> QED BY <1>1, <2>1, FirstLines
<1>6. Tail(v) \in Seq(Line)
  <2>1. v # << >> BY DEF Content
  <2> QED BY <1>1, <2>1, HeadTailProperties
<1>7. Fused(u, v) = front \o << SeamOf(x, y) >> \o Tail(v) BY DEF Fused, SeamOf
<1>8. ThreeParts(Fused(u, v), front, SeamOf(x, y), Tail(v))
  <2> HIDE DEF front, x, y
  <2> QED BY <1>4, <1>5, <1>6, <1>7, PartsJoined
<1> QED BY <1>1, <1>2, <1>5, <1>6, <1>8

\* The last line decides how many lines() sees.
LEMMA LinesSame ==
  ASSUME NEW x \in Content, NEW y \in Content, SameLines(x, y), x[Len(x)] = y[Len(y)]
  PROVE  SameLines(Lines(x), Lines(y))
<1>1. Len(x) = Len(y) /\ Len(x) \in Nat \ {0} BY EmptySeq, LenProperties DEF Content, SameLines
<1>2. /\ Len(Lines(x)) = IF x[Len(x)] = Blank THEN Len(x) - 1 ELSE Len(x)
      /\ Len(Lines(y)) = IF y[Len(y)] = Blank THEN Len(y) - 1 ELSE Len(y)
  <2>1. Len(x) - 1 \in 0 .. Len(x) /\ x \in Seq(Line) /\ y \in Seq(Line) BY <1>1 DEF Content
  <2>2. Len(SubSeq(x, 1, Len(x) - 1)) = Len(x) - 1 /\ Len(SubSeq(y, 1, Len(y) - 1)) = Len(y) - 1
    BY <1>1, <2>1, FirstLines
  <2> QED BY <2>2 DEF Lines
<1>3. Len(Lines(x)) = Len(Lines(y)) BY <1>1, <1>2
<1>4. ASSUME NEW i \in 1 .. Len(Lines(x)) PROVE Bare(Lines(x)[i]) = Bare(Lines(y)[i])
  <2>1. Lines(x)[i] = x[i] /\ Lines(y)[i] = y[i] BY <1>3, LinesType
  <2>2. i \in 1 .. Len(x) BY <1>1, <1>2
  <2> QED BY <2>1, <2>2 DEF SameLines
<1> QED BY <1>3, <1>4 DEF SameLines

\* So it does not tell two values apart that read the same and end in the same line.
LEMMA FusedSame ==
  ASSUME TextsJoin, NEW x \in Content, NEW y \in Content, NEW v \in Content,
         SameLines(x, y), x[Len(x)] = y[Len(y)], CanFuse(y, v)
  PROVE  Fused(x, v) \in Content /\ SameLines(Lines(Fused(x, v)), Lines(Fused(y, v)))
<1> DEFINE p == Fused(x, v)
           q == Fused(y, v)
           fx == SubSeq(x, 1, Len(x) - 1)
           fy == SubSeq(y, 1, Len(y) - 1)
           seam == SeamOf(x[Len(x)], v[1])
           rest == Tail(v)
           n == Len(x) - 1
<1>1. CanFuse(x, v) BY DEF CanFuse
<1>2. p \in Content /\ q \in Content BY <1>1, FusedType
<1>3. /\ ThreeParts(p, fx, seam, rest)
      /\ Len(fx) = n /\ \A i \in 1 .. n : fx[i] = x[i]
      /\ rest \in Seq(Line) /\ Len(x) \in Nat \ {0}
  BY <1>1, FusedParts
<1>4. /\ ThreeParts(q, fy, seam, rest)
      /\ Len(fy) = Len(y) - 1 /\ \A i \in 1 .. Len(y) - 1 : fy[i] = y[i]
  BY FusedParts
<1>5. Len(x) = Len(y) /\ \A i \in 1 .. n : Bare(x[i]) = Bare(y[i])
  BY <1>3 DEF SameLines
<1>6. Len(fy) = n /\ n \in Nat /\ Len(rest) \in Nat /\ \A i \in 1 .. n : fy[i] = y[i]
  BY <1>3, <1>4, <1>5, LenProperties
<1> HIDE DEF p, q, fx, fy, seam, rest, n
<1>7. Len(p) = n + 1 + Len(rest) /\ Len(q) = n + 1 + Len(rest)
  BY <1>3, <1>4, <1>6 DEF ThreeParts
<1>8. ASSUME NEW i \in 1 .. Len(p)
      PROVE  Bare(p[i]) = Bare(q[i]) /\ (i > n => p[i] = q[i])
  <2>1. i \in 1 .. Len(q) BY <1>7
  <2>2. p[i] = IF i <= n THEN fx[i] ELSE IF i = n + 1 THEN seam ELSE rest[i - (n + 1)]
    BY <1>3 DEF ThreeParts
  <2>3. q[i] = IF i <= n THEN fy[i] ELSE IF i = n + 1 THEN seam ELSE rest[i - (n + 1)]
    BY <1>4, <1>6, <2>1 DEF ThreeParts
  <2>4. CASE i <= n
    <3>1. i \in 1 .. n BY <1>6, <2>4
    <3>2. p[i] = x[i] /\ q[i] = y[i] BY <1>3, <1>6, <2>2, <2>3, <2>4, <3>1
    <3>3. ~ (i > n) BY <1>6, <2>4
    <3> QED BY <1>5, <3>1, <3>2, <3>3
  <2>5. CASE ~ (i <= n) BY <2>2, <2>3, <2>5
  <2> QED BY <2>4, <2>5
<1>9. SameLines(p, q) BY <1>7, <1>8 DEF SameLines
<1>10. p[Len(p)] = q[Len(q)]
  <2>1. Len(p) \in 1 .. Len(p) /\ Len(p) > n /\ Len(q) = Len(p) BY <1>6, <1>7
  <2> QED BY <1>8, <2>1
<1> QED BY <1>2, <1>9, <1>10, LinesSame DEF p, q

\* A line with something on it at or below the target keeps its place in the file.
LEMMA RoomAtTarget ==
  ASSUME NEW c \in Content, NEW s \in ZonePair, s.start <= s.end, NEW k \in Nat, k > 0,
         Outside(s, k), Kept(c, k - 1, s.start, s.end), NEW d \in Content, Lifted(c, s, d)
  PROVE  Up(s, k) <= Len(Lines(d))
<1>1. s.start \in Nat /\ s.end \in Nat BY DEF ZonePair
<1>2. Len(c) \in Nat BY LenProperties DEF Content
<1>3. PICK n \in k - 1 .. Len(c) - 1 : n \notin s.start .. s.end /\ LineAt(c, n) # Blank
  BY DEF Kept
<1>4. n \in Nat /\ k - 1 <= n BY <1>2, <1>3
<1>5. Outside(s, n)
  <2> DEFINE a == s.start  b == s.end
  <2>1. a \in Nat /\ b \in Nat /\ n \notin a .. b BY <1>1, <1>3
  <2> HIDE DEF a, b
  <2>2. n < a \/ b < n BY <1>4, <2>1
  <2> QED BY <2>2 DEF Outside, a, b
<1>6. LineAt(d, Up(s, n)) # Blank
  <2>1. Same(LineAt(d, Up(s, n)), LineAt(c, n)) BY <1>4, <1>5 DEF Lifted
  <2>2. LineAt(c, n) \in Line
    <3>1. n \in Int BY <1>4
    <3> QED BY <3>1, LineAtType DEF Content
  <2> QED BY <1>3, <2>1, <2>2, SameIsBare
<1>7. Up(s, n) \in Nat /\ Up(s, k) \in Nat BY <1>4, <1>5, UpMoves
<1>8. Up(s, n) < Len(Lines(d)) /\ Len(Lines(d)) \in Nat BY <1>6, <1>7, WrittenLineCounts, LinesType
<1>9. Up(s, k) <= Up(s, n) + 1
  <2>1. CASE n = k - 1
    <3>1. k < s.start \/ s.end < n
      <4> DEFINE a == s.start  b == s.end
      <4>1. a \in Nat /\ b \in Nat /\ a <= b /\ (k < a \/ b < k) /\ (n < a \/ b < n)
        BY <1>1, <1>5 DEF Outside
      <4> HIDE DEF a, b
      <4>2. k < a \/ b < n BY <1>4, <2>1, <4>1
      <4> QED BY <4>2 DEF a, b
    <3>2. n <= k /\ k - n = 1 BY <1>4, <2>1
    <3>3. Up(s, k) = Up(s, n) + (k - n) BY <1>4, <1>5, <3>1, <3>2, UpMoves
    <3> QED BY <1>7, <3>2, <3>3
  <2>2. CASE n = k
    BY <1>7, <2>2
  <2>3. CASE k < n
    <3>1. Up(s, k) < Up(s, n) BY <1>4, <1>5, <2>3, UpMoves
    <3> QED BY <1>7, <3>1
  <2> QED BY <1>4, <2>1, <2>2, <2>3
<1> QED BY <1>7, <1>8, <1>9

\* What the target reads before the first write and after it.
LEMMA TargetReadsSame ==
  ASSUME NEW c \in Content, NEW s, NEW t, TwoRanges(s, t), t.end < Len(Lines(c)),
         NEW d \in Content, Lifted(c, s, d),
         NEW p, p = [start |-> Up(s, t.start), end |-> Up(s, t.end)], p.end < Len(Lines(d)),
         NEW x, x = Sliced(c, t), NEW y, y = Sliced(d, p),
         y[Len(y)].kind \in {"text", "blank"}
  PROVE  x \in Content /\ y \in Content /\ SameLines(x, y) /\ x[Len(x)] = y[Len(y)]
<1> DEFINE e == t.start  f == t.end  u == p.start  v == p.end
           n == f - e + 1
<1>1. /\ s \in ZonePair /\ s.start <= s.end /\ e \in Nat /\ f \in Nat /\ e <= f
      /\ \A i \in Nat : e <= i /\ i <= f => Outside(s, i)
      /\ f < s.start \/ s.end < e
  <2> DEFINE a == s.start  b == s.end
  <2>1. /\ s \in ZonePair /\ a \in Nat /\ b \in Nat /\ a <= b /\ e \in Nat /\ f \in Nat /\ e <= f
        /\ b < e \/ f < a
    BY DEF TwoRanges, ZonePair
  <2>2. ASSUME NEW i \in Nat, e <= i, i <= f PROVE Outside(s, i)
    <3> HIDE DEF a, b, e, f
    <3>1. i < a \/ b < i BY <2>1, <2>2
    <3> QED BY <3>1 DEF Outside, a, b
  <2> QED BY <2>1, <2>2
<1>2. ASSUME NEW i \in Nat, e <= i, i <= f
      PROVE  Up(s, i) = Up(s, e) + (i - e) /\ Up(s, e) \in Nat
  <2> DEFINE a == s.start  b == s.end
  <2>0. (f < a \/ b < e) /\ a \in Nat /\ b \in Nat BY <1>1 DEF ZonePair
  <2>1. i < a \/ b < e
    <3> HIDE DEF a, b, e, f
    <3> QED BY <1>1, <1>2, <2>0
  <2>2. Outside(s, e) /\ Outside(s, i) BY <1>1, <1>2
  <2> HIDE DEF e, f
  <2> QED BY <1>1, <1>2, <2>1, <2>2, UpMoves
<1>3. u = Up(s, e) /\ v = Up(s, f) /\ u \in Nat /\ v = u + (f - e)
  BY <1>1, <1>2
<1>4. v \in Nat /\ u <= v /\ v - u + 1 = n /\ n \in Nat \ {0}
  <2> HIDE DEF e, f, u, v
  <2> QED BY <1>1, <1>3
<1>5. /\ x \in Seq(Line) /\ Len(x) = n
      /\ \A i \in 1 .. n : x[i] = LineAt(c, e + i - 1)
  BY <1>1, SlicedLines
<1>6. /\ y \in Seq(Line) /\ Len(y) = v - u + 1
      /\ \A i \in 1 .. v - u + 1 : y[i] = LineAt(d, u + i - 1)
  <2>1. u \in Nat /\ v \in Nat /\ u <= v /\ v < Len(Lines(d)) BY <1>3, <1>4
  <2> QED BY <2>1, SlicedLines
<1> HIDE DEF n, u, v
<1>7. ASSUME NEW i \in 1 .. n PROVE Same(y[i], x[i]) /\ x[i] \in Line
  <2> DEFINE k == e + i - 1
  <2>1. k \in Nat /\ k \in Int /\ e <= k /\ k <= f /\ k - e = i - 1 /\ i \in Nat
    <3> HIDE DEF e, f
    <3> QED BY <1>1, <1>4 DEF n
  <2>2. Same(LineAt(d, Up(s, k)), LineAt(c, k)) BY <1>1, <2>1 DEF Lifted
  <2>3. Up(s, k) = Up(s, e) + (k - e) BY <1>2, <2>1
  <2>4. Up(s, k) = u + i - 1
    <3> HIDE DEF k, e
    <3> QED BY <1>3, <2>1, <2>3
  <2>5. LineAt(c, k) \in Line
    <3> HIDE DEF k
    <3> QED BY <2>1, LineAtType DEF Content
  <2>6. y[i] = LineAt(d, u + i - 1) BY <1>4, <1>6
  <2> QED BY <1>5, <2>2, <2>4, <2>5, <2>6
<1>8. Len(x) = Len(y) /\ Len(y) = n BY <1>4, <1>5, <1>6
<1>9. SameLines(x, y)
  <2> SUFFICES ASSUME NEW i \in 1 .. n PROVE Bare(x[i]) = Bare(y[i])
    BY <1>8 DEF SameLines
  <2> QED BY <1>7, SameIsBare
<1>10. x[Len(x)] = y[Len(y)]
  <2>1. n \in 1 .. n BY <1>4
  <2>2. Same(y[n], x[n]) /\ x[n] \in Line BY <1>7, <2>1
  <2> QED BY <1>8, <2>2, SameIsBare
<1>11. x # << >> /\ y # << >> BY <1>4, <1>8
<1> QED BY <1>5, <1>6, <1>9, <1>10, <1>11 DEF Content

\* Appended or not, the lines that take the target's place are those of the value,
\* coordinates aside.
Stands(d, to, value, append, v) ==
  v \in Content /\ SameLines(Lines(v), Lines(Incoming(d, to, value, append)))

\* Where a move stands between its two writes: d is c without the lines s, t is what the target
\* names in c, p what the adjusted reference names in d, and v what the one edit would write.
Between(c, s, t, d, aim, to, p, value, append, v) ==
  /\ c \in Content /\ TwoRanges(s, t) /\ t.end < Len(Lines(c))
  /\ d \in Content /\ Lifted(c, s, d)
  /\ aim \in TargetRef /\ t = RangeNamed(c, aim) /\ t # NoZone
  /\ to \in TargetRef /\ to.kind = aim.kind /\ aim.kind \in {"zone", "lines"}
  /\ p = RangeNamed(d, to) /\ (to.kind = "zone" => p # NoZone)
  /\ p = [start |-> Up(s, t.start), end |-> Up(s, t.end)] /\ p.start <= p.end
  /\ value \in Content /\ append \in BOOLEAN /\ CanSet(d, to, value, append)
  /\ v = IF append THEN Fused(ReadRef(c, aim), value) ELSE value

\* What --append makes of the target after the first write is what it makes of it before.
LEMMA ValueSame ==
  ASSUME TextsJoin, NEW c, NEW s, NEW t, NEW d, NEW aim, NEW to, NEW p, NEW value, NEW append,
         NEW v, Between(c, s, t, d, aim, to, p, value, append, v)
  PROVE  Stands(d, to, value, append, v)
<1> USE DEF Between
<1> USE DEF Stands
<1>1. CASE ~ append
  <2>1. v = value /\ Incoming(d, to, value, append) = value BY <1>1 DEF Incoming
  <2>2. SameLines(Lines(value), Lines(value)) BY DEF SameLines
  <2> QED BY <2>1, <2>2
<1>2. CASE append
  <2> DEFINE x == Sliced(c, t)
             y == Sliced(d, p)
  <2>1. ReadRef(c, aim) = x /\ ReadRef(d, to) = y BY DEF ReadRef
  <2>2. v = Fused(x, value) /\ Incoming(d, to, value, append) = Fused(y, value)
    BY <1>2, <2>1 DEF Incoming
  <2>3. CanRead(d, to) /\ CanFuse(y, value)
    <3> HIDE DEF y
    <3> QED BY <1>2, <2>1 DEF CanSet
  <2>4. p.end < Len(Lines(d))
    <3>1. Sliceable(d, p)
      <4>1. CASE to.kind = "zone" BY <2>3, <4>1 DEF CanRead
      <4>2. CASE to.kind = "lines" BY <2>3, <4>2 DEF CanRead
      <4> QED BY <4>1, <4>2
    <3> QED BY <3>1 DEF Sliceable, InFile
  <2>5. y[Len(y)].kind \in {"text", "blank"}
    <3> HIDE DEF y
    <3> QED BY <2>3 DEF CanFuse
  <2>6. x \in Content /\ y \in Content /\ SameLines(x, y) /\ x[Len(x)] = y[Len(y)]
    <3>1. x = Sliced(c, t) /\ y = Sliced(d, p) OBVIOUS
    <3> HIDE DEF x, y
    <3> QED BY <2>4, <2>5, <3>1, TargetReadsSame
  <2> HIDE DEF x, y
  <2>7. Fused(x, value) \in Content /\ SameLines(Lines(Fused(x, value)), Lines(Fused(y, value)))
    BY <2>3, <2>6, FusedSame
  <2> QED BY <2>2, <2>7
<1> QED BY <1>1, <1>2

\* The edits are as good with another value of the same payload.
LEMMA BothEditsSame ==
  ASSUME NEW c, NEW s, NEW t, NEW new, NEW v, NEW d, BothEdits(c, s, t, new, d),
         SameLines(v, new), v \in Seq(Line)
  PROVE  BothEdits(c, s, t, v, d)
<1>1. Len(v) = Len(new) /\ Len(v) \in Nat BY LenProperties DEF SameLines
<1>2. ASSUME NEW j \in Nat, j < Len(v) PROVE Bare(LineAt(d, Up(s, t.start) + j)) = Bare(v[j + 1])
  <2>1. j + 1 \in 1 .. Len(v) BY <1>1, <1>2
  <2>2. Bare(v[j + 1]) = Bare(new[j + 1]) BY <2>1 DEF SameLines
  <2>3. Bare(LineAt(d, Up(s, t.start) + j)) = Bare(new[j + 1]) BY <1>1, <1>2 DEF BothEdits
  <2> QED BY <2>2, <2>3
<1>3. \A k \in Nat : Outside(s, k) /\ Outside(t, k) =>
        Bare(LineAt(d, Place(s, t, Len(v), k))) = Bare(LineAt(c, k))
  BY <1>1 DEF BothEdits
<1> QED BY <1>2, <1>3 DEF BothEdits

\* A move in full: c loses the lines s and becomes d, whose adjusted reference is set
\* and gives other; t and v are the lines and the value of the one edit.
Moved(c, from, aim, s, t, d, to, value, append, other, v) ==
  /\ c \in Content /\ from \in TargetRef /\ aim \in TargetRef /\ StraightMove(c, from, aim)
  /\ CanSet(c, from, Empty, FALSE)
  /\ s = RangeNamed(c, from) /\ t = RangeNamed(c, aim)
  /\ d = SetRef(c, from, Empty, FALSE) /\ to = Adjusted(c, from, aim)
  /\ value \in Content /\ append \in BOOLEAN /\ CanSet(d, to, value, append)
  /\ other = SetRef(d, to, value, append)
  /\ v = IF append THEN Fused(ReadRef(c, aim), value) ELSE value

\* The two writes of a move and the one edit of the lines both ends named.
LEMMA MoveIsOneEdit ==
  ASSUME TextsJoin, NEW c, NEW from, NEW aim, NEW s, NEW t, NEW d, NEW to, NEW value,
         NEW append, NEW other, NEW v,
         Moved(c, from, aim, s, t, d, to, value, append, other, v)
  PROVE  Payload(other) = Payload(MovedAtOnce(c, s, t, Lines(v)))
<1> USE DEF Moved
<1> DEFINE new == Lines(Incoming(d, to, value, append))
           p == RangeNamed(d, to)
           all == MovedAtOnce(c, s, t, Lines(v))
<1>1. /\ TwoRanges(s, t) /\ s \in ZonePair /\ t \in ZonePair
      /\ s.start <= s.end /\ t.start <= t.end /\ t # NoZone
      /\ s.end < Len(Lines(c)) /\ t.end < Len(Lines(c))
      /\ Outside(s, t.start) /\ Outside(s, t.end)
      /\ aim.kind \in {"zone", "lines"}
      /\ aim.kind = "zone" =>
           AsciiLine(c, aim.rec) < t.start /\ HasRec(c, aim.rec)
             /\ Kept(c, t.start - 1, s.start, s.end)
  BY StraightFacts
<1>2. aim.kind = "zone" =>
        to = aim /\ Loadable(d) /\ ZoneAt(d, aim.rec, aim.slot) # NoZone
  <2> SUFFICES ASSUME aim.kind = "zone"
               PROVE  to = aim /\ Loadable(d) /\ ZoneAt(d, aim.rec, aim.slot) # NoZone
    OBVIOUS
  <2>1. to = aim BY DEF Adjusted
  <2>2. Scanned(d, aim.rec) /\ CanReplace(d, AsciiLine(d, aim.rec), aim.slot, new)
    BY <2>1 DEF CanSet
  <2>3. Loadable(d) BY <2>2 DEF Scanned, Scans
  <2>4. ZoneHere(d, AsciiLine(d, aim.rec), aim.slot) # NoZone BY <2>2 DEF CanReplace
  <2> QED BY <2>1, <2>3, <2>4 DEF ZoneAt, ZoneHere
<1>3. /\ to \in TargetRef /\ to.kind = aim.kind
      /\ p = [start |-> Up(s, t.start), end |-> Up(s, t.end)]
      /\ d \in Content /\ Lifted(c, s, d)
      /\ aim.kind = "zone" =>
           /\ to.rec = aim.rec /\ HasRec(d, to.rec)
           /\ AsciiLine(d, to.rec) < Up(s, t.start)
  <2> HIDE DEF new, all
  <2>1. TargetFollows(c, aim, s, t, d, to) BY <1>2, TargetMoves
  <2> QED BY <2>1 DEF TargetFollows
<1>4. /\ p.start = Up(s, t.start) /\ p.end = Up(s, t.end)
      /\ p.start \in Nat /\ p.end \in Nat /\ p.start <= p.end
  <2>1. p.start = Up(s, t.start) /\ p.end = Up(s, t.end)
    <3> HIDE DEF p
    <3> QED BY <1>3
  <2> DEFINE e == t.start  f == t.end
  <2>2. e \in Nat /\ f \in Nat /\ e <= f /\ Outside(s, e) /\ Outside(s, f) BY <1>1 DEF ZonePair
  <2> HIDE DEF e, f
  <2>3. Up(s, e) \in Nat /\ Up(s, f) \in Nat /\ (f < e <=> Up(s, f) < Up(s, e))
    BY <1>1, <2>2, UpMoves
  <2>4. Up(s, e) <= Up(s, f) BY <2>2, <2>3
  <2> QED BY <2>1, <2>3, <2>4 DEF e, f
<1>5. Rewrites(d, to, p, new, other)
  <2>1. to.kind \in {"zone", "lines"} BY <1>1, <1>3
  <2>2. to.kind = "zone" => AsciiLine(d, to.rec) < p.start BY <1>3, <1>4
  <2>3. p = RangeNamed(d, to) /\ new = Lines(Incoming(d, to, value, append)) OBVIOUS
  <2> HIDE DEF p, new
  <2> QED BY <1>3, <1>4, <2>1, <2>2, <2>3, SetReworded
<1>6. to.kind = "zone" => p # NoZone
  <2> HIDE DEF p
  <2> QED BY <1>5 DEF Rewrites
<1> HIDE DEF new, p, all
<1>7. Up(s, t.start) <= Len(Lines(d))
  <2>1. CASE aim.kind = "zone"
    <3> DEFINE k == t.start
    <3>1. k \in Nat /\ k > 0
      <4>1. AsciiLine(c, aim.rec) \in Nat BY <1>1, <2>1, HeaderLineType
      <4>2. AsciiLine(c, aim.rec) < k /\ k \in Nat BY <1>1, <2>1 DEF ZonePair
      <4> HIDE DEF k
      <4> QED BY <4>1, <4>2
    <3>2. Outside(s, k) /\ Kept(c, k - 1, s.start, s.end) BY <1>1, <2>1
    <3> HIDE DEF k
    <3>3. Up(s, k) <= Len(Lines(d)) BY <1>1, <1>3, <3>1, <3>2, RoomAtTarget
    <3> QED BY <3>3 DEF k
  <2>2. CASE aim.kind = "lines"
    <3>1. p.end < Len(Lines(d)) BY <1>3, <1>5, <2>2 DEF Rewrites
    <3>2. Len(Lines(d)) \in Nat BY <1>3, LinesType
    <3>3. p.start <= Len(Lines(d))
      <4> DEFINE x == p.start  y == p.end  n == Len(Lines(d))
      <4>1. x \in Nat /\ y \in Nat /\ n \in Nat /\ x <= y /\ y < n BY <1>4, <3>1, <3>2
      <4> HIDE DEF x, y, n
      <4>2. x <= n BY <4>1
      <4> QED BY <4>2 DEF x, n
    <3> QED BY <1>4, <3>3
  <2> QED BY <1>1, <2>1, <2>2
<1>8. BothEdits(c, s, t, new, other)
  <2>1. Reworded(Splice(d, p.start, p.end, new), other) /\ new \in Seq(Line)
    BY <1>5 DEF Rewrites
  <2>2. Reworded(Splice(d, Up(s, t.start), Up(s, t.end), new), other) BY <1>4, <2>1
  <2> QED BY <1>1, <1>3, <1>7, <2>1, <2>2, SecondWrite
<1>9. v \in Content /\ SameLines(Lines(v), new)
  <2>1. p = RangeNamed(d, to) BY DEF p
  <2>2. p.start <= p.end BY <1>4
  <2>3. to.kind = "zone" => p # NoZone BY <1>6
  <2>4. p = [start |-> Up(s, t.start), end |-> Up(s, t.end)] BY <1>3
  <2>5. d \in Content /\ Lifted(c, s, d) /\ to \in TargetRef /\ to.kind = aim.kind BY <1>3
  <2>6. TwoRanges(s, t) /\ t.end < Len(Lines(c)) /\ t # NoZone /\ aim.kind \in {"zone", "lines"}
    BY <1>1
  <2>7. Between(c, s, t, d, aim, to, p, value, append, v)
    BY <2>1, <2>2, <2>3, <2>4, <2>5, <2>6 DEF Between
  <2>8. Stands(d, to, value, append, v) BY <2>7, ValueSame
  <2> QED BY <2>8 DEF Stands, new
<1>10. Lines(v) \in Seq(Line) BY <1>9, LinesType
<1>11. BothEdits(c, s, t, Lines(v), other) BY <1>8, <1>9, <1>10, BothEditsSame
<1>12. all \in Seq(Line) /\ BothEdits(c, s, t, Lines(v), all)
  <2> DEFINE w == Lines(v)
  <2>1. w \in Seq(Line) /\ all = MovedAtOnce(c, s, t, w) BY <1>10 DEF all
  <2> HIDE DEF w
  <2>2. CASE s.end < t.start
    <3>1. MovedAtOnce(c, s, t, w) \in Seq(Line) /\ BothEdits(c, s, t, w, MovedAtOnce(c, s, t, w))
      BY <1>1, <2>1, <2>2, AtOnceSourceFirst
    <3> QED BY <2>1, <3>1 DEF w
  <2>3. CASE t.end < s.start
    <3>1. MovedAtOnce(c, s, t, w) \in Seq(Line) /\ BothEdits(c, s, t, w, MovedAtOnce(c, s, t, w))
      BY <1>1, <2>1, <2>3, AtOnceTargetFirst
    <3> QED BY <2>1, <3>1 DEF w
  <2> QED BY <1>1, <2>2, <2>3 DEF TwoRanges
<1>13. Alike(other, all) BY <1>1, <1>10, <1>11, <1>12, BothEditsAlike
<1>14. other \in Seq(Line) BY <1>5 DEF Rewrites, Content
<1>15. Payload(other) = Payload(all) BY <1>12, <1>13, <1>14, PayloadAlike
<1> QED BY <1>15 DEF all

(***************************************************************************)
(* Between its two writes a move stands where the first one left it.       *)
(***************************************************************************)
Halfway ==
  job.phase = "cleared" =>
    /\ job.from \in TargetRef
    /\ CanSet(job.before, job.from, Cleared(job.from), FALSE)
    /\ doc = SetRef(job.before, job.from, Cleared(job.from), FALSE)
    /\ job.to = Adjusted(job.before, job.from, job.aim)

\* Only MoveClears begins one, and nothing but its second half follows.
LEMMA HalfwayStays == RefsWhole /\ Halfway /\ [RefsNext]_refVars => Halfway'
<1> SUFFICES ASSUME RefsWhole, Halfway, [RefsNext]_refVars, job'.phase = "cleared"
             PROVE  /\ job'.from \in TargetRef
                    /\ CanSet(job'.before, job'.from, Cleared(job'.from), FALSE)
                    /\ doc' = SetRef(job'.before, job'.from, Cleared(job'.from), FALSE)
                    /\ job'.to = Adjusted(job'.before, job'.from, job'.aim)
  BY DEF Halfway
<1>1. ASSUME NEW from \in Sources, NEW to \in Targets, NEW append \in BOOLEAN,
             RefCopy(from, to, append)
      PROVE  FALSE
  BY <1>1 DEF RefCopy, Job
<1>2. ASSUME NEW from \in Sources, NEW to \in Targets, NEW append \in BOOLEAN,
             MoveClears(from, to, append)
      PROVE  /\ job'.from \in TargetRef
             /\ CanSet(job'.before, job'.from, Cleared(job'.from), FALSE)
             /\ doc' = SetRef(job'.before, job'.from, Cleared(job'.from), FALSE)
             /\ job'.to = Adjusted(job'.before, job'.from, job'.aim)
  <2>1. /\ from.kind \notin {"text", "index"}
        /\ CanSet(doc, from, Cleared(from), FALSE)
        /\ doc' = SetRef(doc, from, Cleared(from), FALSE)
        /\ job' = Job("cleared", from, Adjusted(doc, from, to), to, ReadRef(doc, from), append)
    BY <1>2 DEF MoveClears, Write
  <2>2. job'.from = from /\ job'.before = doc /\ job'.to = Adjusted(doc, from, to) /\ job'.aim = to
    BY <2>1 DEF Job
  <2>3. from \in SourceRef BY ReferenceAssumption
  <2>4. from \in TargetRef BY <2>1, <2>3 DEF SourceRef
  <2> QED BY <2>1, <2>2, <2>4
<1>3. ASSUME NEW phase \in {"done", "failed"}, job.phase = "cleared",
             job' = [job EXCEPT !.phase = phase]
      PROVE  FALSE
  <2>1. job \in JobSet BY <1>3 DEF RefsWhole, NoJob
  <2>2. job'.phase = phase BY <1>3, <2>1 DEF JobSet
  <2> QED BY <1>3, <2>2
<1>4. ~ MoveSets /\ ~ MoveFails /\ ~ MoveDies
  BY <1>3 DEF MoveSets, MoveFails, MoveDies
<1>5. /\ ~ IndexZoneEdit /\ ~ Undo
      /\ \A other \in Layouts, r, q \in Rec, z, y \in ZoneIdx : ~ IndexZoneTransfer(other, r, z, q, y)
      /\ \A r \in Rec, z \in ZoneIdx, p \in Ranges : ~ ZoneSet(r, z, p)
  BY DEF IndexZoneEdit, Undo, IndexZoneTransfer, ZoneSet, NoJob
<1>6. CASE UNCHANGED refVars
  BY <1>6 DEF refVars, Halfway
<1> QED BY <1>1, <1>2, <1>4, <1>5, <1>6 DEF RefsNext

\* A lines reference or a zone is emptied of its text.
LEMMA ClearedToNothing ==
  ASSUME NEW from, from.kind \in {"zone", "lines"}
  PROVE  Cleared(from) = Empty
BY DEF Cleared

\* The write that completes a move, and it alone, ends what MoveClears began.
LEMMA StepMovesAsOne ==
  ASSUME TextsJoin
  PROVE  RefsWhole /\ Halfway /\ [RefsNext]_refVars => [MovedAsOne]_refVars
<1> DEFINE c == job.before
           v == IF job.append THEN Fused(ReadRef(c, job.aim), job.value) ELSE job.value
           s == RangeNamed(c, job.from)
           t == RangeNamed(c, job.aim)
<1> SUFFICES ASSUME RefsWhole, Halfway, RefsNext, job.phase = "cleared", job'.phase = "done",
                    StraightMove(c, job.from, job.aim)
             PROVE  Payload(doc') = Payload(MovedAtOnce(c, s, t, Lines(v)))
  BY DEF MovedAsOne
<1>1. /\ \A from \in Sources, to \in Targets, append \in BOOLEAN :
           ~ RefCopy(from, to, append) /\ ~ MoveClears(from, to, append)
      /\ ~ IndexZoneEdit /\ ~ Undo
      /\ \A other \in Layouts, r, q \in Rec, z, y \in ZoneIdx : ~ IndexZoneTransfer(other, r, z, q, y)
      /\ \A r \in Rec, z \in ZoneIdx, p \in Ranges : ~ ZoneSet(r, z, p)
  BY DEF RefCopy, MoveClears, IndexZoneEdit, Undo, IndexZoneTransfer, ZoneSet
<1>2. job \in JobSet
  BY DEF RefsWhole, NoJob
<1>3. ~ MoveFails /\ ~ MoveDies
  BY <1>2 DEF MoveFails, MoveDies, JobSet
<1>4. MoveSets
  BY <1>1, <1>3 DEF RefsNext
<1>5. CanSet(doc, job.to, job.value, job.append) /\ doc' = SetRef(doc, job.to, job.value, job.append)
  BY <1>4 DEF MoveSets, Write
<1>6. /\ c \in Content /\ job.from \in TargetRef /\ job.aim \in TargetRef
      /\ job.value \in Content /\ job.append \in BOOLEAN
  BY <1>2 DEF JobSet, Halfway
<1>7. Cleared(job.from) = Empty
  <2>1. job.from.kind \in {"zone", "lines"} BY DEF StraightMove
  <2> QED BY <2>1, ClearedToNothing
<1>8. /\ CanSet(c, job.from, Empty, FALSE)
      /\ doc = SetRef(c, job.from, Empty, FALSE)
      /\ job.to = Adjusted(c, job.from, job.aim)
  BY <1>7 DEF Halfway
<1>9. v = IF job.append THEN Fused(ReadRef(c, job.aim), job.value) ELSE job.value
  OBVIOUS
<1>10. s = RangeNamed(c, job.from) /\ t = RangeNamed(c, job.aim)
  OBVIOUS
<1>11. StraightMove(c, job.from, job.aim)
  OBVIOUS
<1> HIDE DEF c, v, s, t
<1>12. Moved(c, job.from, job.aim, s, t, doc, job.to, job.value, job.append, doc', v)
  BY <1>5, <1>6, <1>8, <1>9, <1>10, <1>11 DEF Moved
<1> QED BY <1>12, MoveIsOneEdit

\* Whatever file it starts from and whatever references it is given, a move of lines
\* whose two ends keep clear of each other and of every record leaves what one edit
\* of both would have left (cmd_ref_copy: the source is cleared, the literal target
\* adjusted, and the target resolved again in the file the first write left).
THEOREM MovesAreOne == ASSUME TextsJoin PROVE RefsSpec => MovesAreOneEdit
<1> DEFINE Inv == RefsWhole /\ Halfway
<1>1. RefsInit => Inv
  <2>1. RefsInit => Halfway BY DEF RefsInit, NoJob, Halfway
  <2> QED BY <2>1, WholeAtFirst
<1>2. Inv /\ [RefsNext]_refVars => Inv'
  BY StepIsWhole, HalfwayStays
<1>3. Inv /\ [RefsNext]_refVars => [MovedAsOne]_refVars
  BY StepMovesAsOne
<1> QED BY <1>1, <1>2, <1>3, PTL DEF RefsSpec, MovesAreOneEdit

=============================================================================
