------------------------- MODULE StoreSessionProofs -------------------------
(***************************************************************************)
(* Theorems about StoreSession, for every set of starting documents and    *)
(* inputs.                                                                 *)
(***************************************************************************)
EXTENDS StoreSession, DocumentProofs

\* add_index and the scan find a record where its marker and index line are.
LEMMA ScanType ==
  ASSUME NEW c \in Content
  PROVE  Scan(c) \in [Rec -> Nat \cup {Absent}]
<1> SUFFICES ASSUME NEW r \in Rec, HasRec(c, r) PROVE HeaderLine(c, r) \in Nat
  BY DEF Scan
<1>1. HeaderLine(c, r) \in HeadersOf(c, r)
  BY DEF HasRec, HeaderLine
<1> QED BY <1>1 DEF HeadersOf, Headers

\* A position and the record that is read there.
LEMMA DataAtType ==
  ASSUME NEW c \in Content, NEW h \in Nat, CanParse(c, h)
  PROVE  DataAt(c, h) \in Data
<1>1. \A i \in Int : LineAt(c, i) \in Line
  BY LineAtType DEF Content
<1>2. LineAt(c, h + 1) \in Line /\ LineAt(c, h + 2) \in Line /\ LineAt(c, h + 3) \in Line
  BY <1>1
<1>3. LineAt(c, h + 1).rec \in Rec
  <2>1. LineAt(c, h + 1).kind = "index"
    BY DEF CanParse
  <2> QED BY <1>2, <2>1 DEF Line, Blank, Marker
<1>4. ZonesIn(LineAt(c, h + 2)) \in Zones
  BY <1>2, ZonesInType DEF CanParse
<1>5. LineAt(c, h + 3) \in [kind : {"num"}, value : Value]
  <2>1. LineAt(c, h + 3).kind = "num"
    BY DEF CanParse
  <2> QED BY <1>2, <2>1 DEF Line, Blank, Marker
<1>6. [i \in 1 .. 3 |-> << LineAt(c, h + 3 + i) >>] \in [1 .. 3 -> Seq(Line)]
  <2> SUFFICES ASSUME NEW i \in 1 .. 3 PROVE << LineAt(c, h + 3 + i) >> \in Seq(Line)
    OBVIOUS
  <2>1. LineAt(c, h + 3 + i) \in Line
    BY <1>1
  <2> QED BY <2>1
<1> QED BY <1>3, <1>4, <1>5, <1>6 DEF DataAt, Data

\* The six lines of a record, each one of the document's.
LEMMA WithDataType ==
  ASSUME NEW c \in Content, NEW h \in Nat, NEW data \in Data
  PROVE  WithData(c, h, data) \in Content
<1> DEFINE head == << IndexLine(data.index), HexLine(data.zones), data.num >>
<1>1. /\ data.index \in Rec /\ data.zones \in Zones
      /\ data.num \in [kind : {"num"}, value : Value]
      /\ data.strings \in [1 .. 3 -> Seq(Line)]
  BY DEF Data
<1>2. IndexLine(data.index) \in Line /\ HexLine(data.zones) \in Line /\ data.num \in Line
  BY <1>1, HexLineType DEF IndexLine, Line
<1>3. head \in Seq(Line)
  BY <1>2
<1>4. data.strings[1] \in Seq(Line) /\ data.strings[2] \in Seq(Line) /\ data.strings[3] \in Seq(Line)
  BY <1>1
<1> HIDE DEF head
<1>5. head \o data.strings[1] \in Seq(Line)
  BY <1>3, <1>4, ConcatProperties
<1>6. (head \o data.strings[1]) \o data.strings[2] \in Seq(Line)
  BY <1>4, <1>5, ConcatProperties
<1>7. ((head \o data.strings[1]) \o data.strings[2]) \o data.strings[3] \in Seq(Line)
  BY <1>4, <1>6, ConcatProperties
<1>8. h + 1 \in Nat /\ h + 6 \in Int /\ h + 6 >= -1
  OBVIOUS
<1>9. Splice(c, h + 1, h + 6, ((head \o data.strings[1]) \o data.strings[2]) \o data.strings[3])
        \in Content
  BY <1>7, <1>8, SpliceType
<1> QED BY <1>9 DEF WithData, head

(***************************************************************************)
(* Types.                                                                  *)
(***************************************************************************)
\* What the getters and the writers start from is a parsed record.
LEMMA FetchedType ==
  ASSUME TypeOK, NEW r \in Rec, CanFetch(r)
  PROVE  Fetched(r) \in Data /\ header[r] \in Nat
<1>1. header[r] \in Nat /\ content \in Content /\ cache[r] \in Data \cup {NotCached}
  BY DEF TypeOK, CanFetch
<1> QED BY <1>1, DataAtType DEF CanFetch, Fetched

\* One operation of the session, remembered for the properties.
LEMMA DidType ==
  ASSUME TypeOK, NEW cmd \in SessionCommands, NEW keys \in SUBSET (Rec \X ZoneIdx),
         NEW from \in Nat, NEW to \in Nat \cup {-1}, NEW new \in Seq(Line),
         Did(cmd, keys, from, to, new)
  PROVE  /\ last' \in [cmd : SessionCommands, keys : SUBSET (Rec \X ZoneIdx), from : Nat,
                        to : Nat \cup {-1}, new : Seq(Line)]
         /\ steps' \in 0 .. MaxSteps
         /\ autoSave' \in BOOLEAN
<1>1. steps' \in 0 .. MaxSteps
  BY SessionAssumption DEF TypeOK, Did
<1>2. last' = [cmd |-> cmd, keys |-> keys, from |-> from, to |-> to, new |-> new]
  BY DEF Did, Report
<1>3. autoSave' \in BOOLEAN
  BY DEF TypeOK, Did
<1> QED BY <1>1, <1>2, <1>3

\* Writing a parsed record keeps the three copies well formed.
LEMMA WriteType ==
  ASSUME TypeOK, NEW r \in Rec, NEW data \in Data, Write(r, data)
  PROVE  /\ file' \in Content /\ content' \in Content
         /\ header' \in [Rec -> Nat \cup {Absent}]
         /\ cache' \in [Rec -> Data \cup {NotCached}]
         /\ dirty' \in BOOLEAN /\ strayed' \in BOOLEAN
<1>1. header[r] \in Nat /\ content \in Content
  BY FetchedType DEF Write, TypeOK
<1>2. content' \in Content
  BY <1>1, WithDataType DEF Write
<1>3. cache' \in [Rec -> Data \cup {NotCached}] /\ header' \in [Rec -> Nat \cup {Absent}]
  BY DEF Write, TypeOK
<1>4. strayed' \in BOOLEAN
  BY DEF Write, Strays, TypeOK
<1>5. dirty' \in BOOLEAN /\ file' \in Content
  BY <1>2 DEF Write, Modified, TypeOK
<1> QED BY <1>2, <1>3, <1>4, <1>5

\* The writers of one record share their last step.
LEMMA WriterType ==
  ASSUME TypeOK, NEW r \in Rec, NEW data \in Data, Write(r, data),
         NEW cmd \in SessionCommands, NEW keys \in SUBSET (Rec \X ZoneIdx),
         NEW from \in Nat, NEW to \in Nat \cup {-1}, NEW new \in Seq(Line),
         Did(cmd, keys, from, to, new)
  PROVE  TypeOK'
BY WriteType, DidType DEF TypeOK

\* The strings of an update are texts of the kind update_string takes.
LEMMA SlotInputType == ASSUME NEW text \in SlotInputs PROVE text \in Seq(Line)
  BY SessionAssumption, ProseSeq

\* The record add_index writes, and the empty piece that ends it.
NewRecord(r) ==
  << Marker, IndexLine(r), HexLine([z \in ZoneIdx |-> NoZone]), NumLine(Zero),
     Blank, Blank, Blank, Blank >>

LEMMA NewRecordType ==
  ASSUME NEW r \in Rec
  PROVE  NewRecord(r) \in Seq(Line) /\ Len(NewRecord(r)) = 8
<1>1. [z \in ZoneIdx |-> NoZone] \in Zones
  BY DEF Zones, NoZone, ZonePair
<1>2. HexLine([z \in ZoneIdx |-> NoZone]) \in Line
  BY <1>1, HexLineType
<1>3. NumLine(Zero) \in Line
  BY SessionAssumption DEF NumLine, Line
<1>4. Marker \in Line /\ IndexLine(r) \in Line /\ Blank \in Line
  BY DEF IndexLine, Line
<1> QED BY <1>2, <1>3, <1>4 DEF NewRecord

\* The document after add_index.
LEMMA AddedType ==
  ASSUME NEW c \in Content, NEW r \in Rec
  PROVE  c \o NewRecord(r) \in Content
<1>1. c \in Seq(Line) /\ Len(c) \in Nat
  BY LenProperties DEF Content
<1>2. /\ c \o NewRecord(r) \in Seq(Line)
      /\ Len(c \o NewRecord(r)) = Len(c) + Len(NewRecord(r))
  BY <1>1, NewRecordType, ConcatProperties
<1>3. Len(NewRecord(r)) = 8
  BY NewRecordType
<1>4. Len(c \o NewRecord(r)) # 0
  BY <1>1, <1>2, <1>3
<1> QED BY <1>2, <1>4, EmptySeq DEF Content

\* One step per operation.
LEMMA StepKeepsTypes == TypeOK /\ [Next]_vars => TypeOK'
<1> SUFFICES ASSUME TypeOK, [Next]_vars PROVE TypeOK'
  OBVIOUS
<1>0. content \in Content /\ Len(content) \in Nat /\ Len(content) - 1 \in Nat \cup {-1}
      /\ {} \in SUBSET (Rec \X ZoneIdx) /\ << >> \in Seq(Line)
  BY LenProperties, EmptySeq DEF TypeOK, Content
<1>1. ASSUME NEW r \in Rec, Get(r)
      PROVE  TypeOK'
  <2>1. cache' \in [Rec -> Data \cup {NotCached}]
    BY <1>1, FetchedType DEF Get, TypeOK
  <2>2. Did("get", {}, Len(content), Len(content) - 1, << >>) /\ "get" \in SessionCommands
    BY <1>1 DEF Get, SessionCommands
  <2> QED BY <1>0, <1>1, <2>1, <2>2, DidType DEF Get, TypeOK
<1>2. ASSUME NEW r \in Rec, AddIndex(r)
      PROVE  TypeOK'
  <2>1. content' \in Content
    BY <1>0, <1>2, AddedType DEF AddIndex, NewRecord
  <2>2. Did("add", {}, Len(content), Len(content) - 1, << >>) /\ "add" \in SessionCommands
    BY <1>2 DEF AddIndex, SessionCommands
  <2>3. file' \in Content /\ dirty' \in BOOLEAN /\ strayed' \in BOOLEAN
    BY <1>2, <2>1 DEF AddIndex, Modified, Strays, TypeOK
  <2>4. header' \in [Rec -> Nat \cup {Absent}]
    BY <1>2, <2>1, ScanType DEF AddIndex, TypeOK
  <2>5. cache' \in [Rec -> Data \cup {NotCached}]
    BY <1>2 DEF AddIndex, Empty, TypeOK
  <2> QED BY <1>0, <2>1, <2>2, <2>3, <2>4, <2>5, DidType DEF TypeOK
<1>3. ASSUME NEW r \in Rec, NEW z \in ZoneIdx, NEW p \in Ranges, SetZone(r, z, p)
      PROVE  TypeOK'
  <2>1. Fetched(r) \in Data /\ p \in ZonePair
    BY <1>3, FetchedType, SessionAssumption DEF SetZone
  <2>2. [Fetched(r) EXCEPT !.zones[z] = p] \in Data
    BY <2>1 DEF Data, Zones
  <2>3. Did("set-zone", {<< r, z >>}, Len(content), Len(content) - 1, << >>)
        /\ "set-zone" \in SessionCommands /\ {<< r, z >>} \in SUBSET (Rec \X ZoneIdx)
    BY <1>3 DEF SetZone, SessionCommands
  <2> QED BY <1>0, <1>3, <2>2, <2>3, WriterType DEF SetZone
<1>4. ASSUME NEW r \in Rec, NEW v \in Value, SetNumber(r, v)
      PROVE  TypeOK'
  <2>1. Fetched(r) \in Data
    BY <1>4, FetchedType DEF SetNumber
  <2>2. [Fetched(r) EXCEPT !.num = NumLine(v)] \in Data
    BY <2>1 DEF Data, NumLine
  <2>3. Did("set-num", {}, Len(content), Len(content) - 1, << >>)
        /\ "set-num" \in SessionCommands
    BY <1>4 DEF SetNumber, SessionCommands
  <2> QED BY <1>0, <1>4, <2>2, <2>3, WriterType DEF SetNumber
<1>5. ASSUME NEW r \in Rec, NEW slot \in 1 .. 3, NEW text \in SlotInputs,
             SetString(r, slot, text)
      PROVE  TypeOK'
  <2> DEFINE at == header[r] + 3 + slot
  <2>1. Fetched(r) \in Data /\ text \in Seq(Line) /\ at \in Nat
    BY <1>5, FetchedType, SlotInputType DEF SetString
  <2>2. [Fetched(r) EXCEPT !.strings[slot] = text] \in Data
    BY <2>1 DEF Data
  <2>3. Did("set-str", {}, at, at, text) /\ "set-str" \in SessionCommands
    BY <1>5 DEF SetString, SessionCommands
  <2> HIDE DEF at
  <2> QED BY <1>0, <1>5, <2>1, <2>2, <2>3, WriterType DEF SetString
<1>6. ASSUME NEW r \in Rec, NEW zones \in HexLines, UpdateAsciiStore(r, zones)
      PROVE  TypeOK'
  <2>1. Fetched(r) \in Data /\ zones \in Zones
    BY <1>6, FetchedType, SessionAssumption DEF UpdateAsciiStore
  <2>2. [Fetched(r) EXCEPT !.zones = zones] \in Data
    BY <2>1 DEF Data
  <2>3. Did("set-hex", {r} \X ZoneIdx, Len(content), Len(content) - 1, << >>)
        /\ "set-hex" \in SessionCommands /\ {r} \X ZoneIdx \in SUBSET (Rec \X ZoneIdx)
    BY <1>6 DEF UpdateAsciiStore, SessionCommands
  <2> QED BY <1>0, <1>6, <2>2, <2>3, WriterType DEF UpdateAsciiStore
<1>7. ASSUME NEW r \in Rec, NEW db \in DbLines, UpdateDbLine(r, db)
      PROVE  TypeOK'
  <2>1. Fetched(r) \in Data
    BY <1>7, FetchedType DEF UpdateDbLine
  <2>2. NumLine(db.num) \in [kind : {"num"}, value : Value]
    BY SessionAssumption DEF NumLine
  <2>3. [Fetched(r) EXCEPT !.num = NumLine(db.num), !.strings = db.strings] \in Data
    <3>1. ASSUME NEW i \in 1 .. 3 PROVE db.strings[i] \in Seq(Line)
      BY SessionAssumption, SlotInputType
    <3>2. db.strings \in [1 .. 3 -> Seq(Line)]
      BY <3>1, SessionAssumption
    <3> QED BY <2>1, <2>2, <3>2 DEF Data
  <2>4. Did("set-db", {}, Len(content), Len(content) - 1, << >>)
        /\ "set-db" \in SessionCommands
    BY <1>7 DEF UpdateDbLine, SessionCommands
  <2> QED BY <1>0, <1>7, <2>3, <2>4, WriterType DEF UpdateDbLine
<1>8. ASSUME NEW r \in Rec, NEW batch \in Batches, BatchUpdate(r, batch)
      PROVE  TypeOK'
  <2>1. Fetched(r) \in Data
    BY <1>8, FetchedType DEF BatchUpdate
  <2>2. NumLine(batch.num) \in [kind : {"num"}, value : Value]
    BY SessionAssumption DEF NumLine
  <2>3. Overlaid(Fetched(r).strings, batch.strings) \in [1 .. 3 -> Seq(Line)]
    <3>1. ASSUME NEW i \in DOMAIN batch.strings PROVE batch.strings[i] \in Seq(Line)
      BY SessionAssumption, SlotInputType
    <3>2. Fetched(r).strings \in [1 .. 3 -> Seq(Line)]
      BY <2>1 DEF Data
    <3> QED BY <3>1, <3>2 DEF Overlaid
  <2>4. [Fetched(r) EXCEPT !.num = NumLine(batch.num),
                           !.strings = Overlaid(@, batch.strings)] \in Data
    BY <2>1, <2>2, <2>3 DEF Data
  <2>5. Did("batch", {}, Len(content), Len(content) - 1, << >>)
        /\ "batch" \in SessionCommands
    BY <1>8 DEF BatchUpdate, SessionCommands
  <2> QED BY <1>0, <1>8, <2>4, <2>5, WriterType DEF BatchUpdate
<1>9. ASSUME NEW r \in Rec, NEW canonical \in BOOLEAN, RemoveIndex(r, canonical)
      PROVE  TypeOK'
  <2> DEFINE h    == header[r]
             gone == Splice(content, h, h + 6, << >>)
  <2>1. h \in Nat /\ h + 6 \in Nat
    BY <1>9 DEF RemoveIndex, TypeOK
  <2>2. gone \in Content /\ SpliceAndShift(content, h, h + 6, << >>) \in Content
    <3> HIDE DEF h
    <3>1. h + 6 \in Int /\ h + 6 >= -1
      BY <2>1
    <3>2. gone \in Content
      BY <1>0, <2>1, <3>1, SpliceType
    <3>3. SpliceAndShift(content, h, h + 6, << >>) \in Content
      BY <1>0, <2>1, SpliceAndShiftType
    <3> QED BY <3>2, <3>3
  <2>3. content' \in Content
    BY <1>9, <2>2 DEF RemoveIndex
  <2>4. Did("rm", {r} \X ZoneIdx, h, h + 6, << >>) /\ "rm" \in SessionCommands
        /\ {r} \X ZoneIdx \in SUBSET (Rec \X ZoneIdx)
    BY <1>9 DEF RemoveIndex, SessionCommands
  <2>5. file' \in Content /\ dirty' \in BOOLEAN /\ strayed' \in BOOLEAN
    BY <1>9, <2>3 DEF RemoveIndex, Modified, Strays, TypeOK
  <2>6. header' \in [Rec -> Nat \cup {Absent}]
    BY <1>9, <2>3, ScanType DEF RemoveIndex, TypeOK
  <2>7. cache' \in [Rec -> Data \cup {NotCached}]
    BY <1>9 DEF RemoveIndex, TypeOK
  <2> HIDE DEF h
  <2> QED BY <1>0, <2>1, <2>3, <2>4, <2>5, <2>6, <2>7, DidType DEF TypeOK
<1>10. CASE Save
  <2>1. Did("save", {}, 0, 0, << >>) /\ "save" \in SessionCommands
    BY <1>10 DEF Save, SessionCommands
  <2> QED BY <1>0, <1>10, <2>1, DidType DEF Save, TypeOK
<1>11. CASE Reload
  <2>1. Did("reload", {}, 0, 0, << >>) /\ "reload" \in SessionCommands
    BY <1>11 DEF Reload, SessionCommands
  <2>2. /\ file' \in Content /\ content' \in Content
        /\ header' \in [Rec -> Nat \cup {Absent}]
        /\ cache' \in [Rec -> Data \cup {NotCached}]
        /\ dirty' \in BOOLEAN /\ strayed' \in BOOLEAN
    BY <1>11, ScanType DEF Reload, Strays, Empty, TypeOK
  <2> QED BY <1>0, <2>1, <2>2, DidType DEF TypeOK
<1>12. CASE Reopen
  <2>1. Did("reopen", {}, 0, 0, << >>) /\ "reopen" \in SessionCommands
    BY <1>12 DEF Reopen, SessionCommands
  <2>2. file' \in Content
    BY <1>12 DEF Reopen, TypeOK
  <2>3. /\ content' \in Content
        /\ header' \in [Rec -> Nat \cup {Absent}]
        /\ cache' \in [Rec -> Data \cup {NotCached}]
        /\ dirty' \in BOOLEAN /\ strayed' \in BOOLEAN
    BY <1>12, <2>2, ScanType DEF Reopen, Empty, TypeOK
  <2> QED BY <1>0, <2>1, <2>2, <2>3, DidType DEF TypeOK
<1>13. CASE Create
  <2>1. << TextLine(Title), Blank, Blank >> \in Content
    <3>1. TextLine(Title) \in Line /\ Blank \in Line
      BY SessionAssumption DEF TextLine, Line
    <3> QED BY <3>1 DEF Content
  <2>2. file' \in Content /\ content' \in Content /\ header' \in [Rec -> Nat \cup {Absent}]
    BY <1>13, <2>1, ScanType DEF Create
  <2>3. cache' \in [Rec -> Data \cup {NotCached}]
    BY <1>13 DEF Create, Empty
  <2>4. steps' \in 0 .. MaxSteps
    BY <1>13, SessionAssumption DEF Create, TypeOK
  <2>5. last' \in [cmd : SessionCommands, keys : SUBSET (Rec \X ZoneIdx), from : Nat,
                   to : Nat \cup {-1}, new : Seq(Line)]
    BY <1>0, <1>13 DEF Create, Report, SessionCommands
  <2> QED BY <1>13, <2>2, <2>3, <2>4, <2>5 DEF Create, TypeOK
<1>14. CASE UNCHANGED vars
  BY <1>14 DEF vars, TypeOK
<1> QED BY <1>1, <1>2, <1>3, <1>4, <1>5, <1>6, <1>7, <1>8, <1>9, <1>10, <1>11, <1>12,
           <1>13, <1>14 DEF Next

\* In a session of any length, over any file, the text, the positions and the
\* records a Store keeps stay well formed: no parsed record holds a line of
\* another kind, although the writers trust the positions of an earlier scan.
THEOREM TypeCorrect == Spec => []TypeOK
<1>1. Init => TypeOK
  <2> SUFFICES ASSUME Init PROVE TypeOK
    OBVIOUS
  <2>1. content \in Content
    BY SessionAssumption DEF Init
  <2>2. Len(content) \in Nat /\ Len(content) - 1 \in Nat \cup {-1}
    BY <2>1, LenProperties DEF Content
  <2>3. last \in [cmd : SessionCommands, keys : SUBSET (Rec \X ZoneIdx), from : Nat,
                  to : Nat \cup {-1}, new : Seq(Line)]
    BY <2>2, EmptySeq DEF Init, Report, SessionCommands
  <2>4. cache \in [Rec -> Data \cup {NotCached}] /\ header \in [Rec -> Nat \cup {Absent}]
    BY <2>1, ScanType DEF Init, Empty
  <2>5. steps \in 0 .. MaxSteps
    BY SessionAssumption DEF Init
  <2> QED BY <2>1, <2>3, <2>4, <2>5 DEF Init, TypeOK
<1>2. TypeOK /\ [Next]_vars => TypeOK'
  BY StepKeepsTypes
<1> QED BY <1>1, <1>2, PTL DEF Spec

(***************************************************************************)
(* The three copies.                                                       *)
(***************************************************************************)
\* scan_content sees the markers and the lines after them, and nothing else.
LEMMA ScanStays ==
  ASSUME NEW c, NEW d, Headers(d) = Headers(c),
         \A g \in Headers(c) : LineAt(d, g + 1) = LineAt(c, g + 1)
  PROVE  Scan(d) = Scan(c)
<1>1. \A r \in Rec : HeadersOf(d, r) = HeadersOf(c, r)
  BY DEF HeadersOf
<1>2. \A r \in Rec : HasRec(d, r) <=> HasRec(c, r)
  BY <1>1 DEF HasRec
<1>3. \A r \in Rec : HeaderLine(d, r) = HeaderLine(c, r)
  BY <1>1 DEF HeaderLine
<1> QED BY <1>2, <1>3 DEF Scan

\* What is parsed at a marker are the six lines after it; a third string that is
\* not empty is inside lines() wherever the text ends.
LEMMA ParsesAlike ==
  ASSUME NEW c \in Content, NEW d \in Content, NEW h \in Nat, CanParse(c, h),
         \A i \in 1 .. 6 : LineAt(d, h + i) = LineAt(c, h + i)
  PROVE  CanParse(d, h) /\ DataAt(d, h) = DataAt(c, h)
<1>1. /\ LineAt(d, h + 1) = LineAt(c, h + 1) /\ LineAt(d, h + 2) = LineAt(c, h + 2)
      /\ LineAt(d, h + 3) = LineAt(c, h + 3) /\ LineAt(d, h + 6) = LineAt(c, h + 6)
  OBVIOUS
<1>2. \A i \in 1 .. 3 : LineAt(d, h + 3 + i) = LineAt(c, h + 3 + i)
  <2> TAKE i \in 1 .. 3
  <2>1. 3 + i \in 1 .. 6 /\ h + 3 + i = h + (3 + i)
    OBVIOUS
  <2> QED BY <2>1
<1>3. h + 6 < Len(Lines(d))
  <2>1. LineAt(Lines(d), h + 6) # Blank
    BY <1>1, LinesReadsAlike DEF CanParse
  <2>2. h + 6 \in 0 .. Len(Lines(d)) - 1
    BY <2>1 DEF LineAt
  <2> QED BY <2>2, LinesType
<1>4. CanParse(d, h)
  BY <1>1, <1>3 DEF CanParse
<1>5. [i \in 1 .. 3 |-> << LineAt(d, h + 3 + i) >>] = [i \in 1 .. 3 |-> << LineAt(c, h + 3 + i) >>]
  BY <1>2
<1> QED BY <1>1, <1>4, <1>5 DEF DataAt

\* update_section_data with three one-line strings writes the six lines of its
\* record and no other.
LEMMA WithDataReads ==
  ASSUME NEW c \in Content, NEW h \in Nat, h + 6 < Len(Lines(c)), NEW data \in Data,
         \A i \in 1 .. 3 : Len(data.strings[i]) = 1, NEW n \in Int
  PROVE  LineAt(WithData(c, h, data), n) =
           IF n = h + 1 THEN IndexLine(data.index)
           ELSE IF n = h + 2 THEN HexLine(data.zones)
           ELSE IF n = h + 3 THEN data.num
           ELSE IF n \in h + 4 .. h + 6 THEN data.strings[n - (h + 3)][1]
           ELSE LineAt(c, n)
<1> DEFINE strings == data.strings
           index == IndexLine(data.index)
           hex   == HexLine(data.zones)
           num   == data.num
           new   == << index, hex, num >> \o strings[1] \o strings[2] \o strings[3]
<1>1. /\ data.index \in Rec /\ data.zones \in Zones
      /\ data.num \in [kind : {"num"}, value : Value]
      /\ strings \in [1 .. 3 -> Seq(Line)]
  BY DEF Data
<1>2. index \in Line /\ hex \in Line /\ num \in Line
  BY <1>1, HexLineType DEF IndexLine, Line
<1>3. \A i \in 1 .. 3 : Len(strings[i]) = 1
  OBVIOUS
<1>4. WithData(c, h, data) = Splice(c, h + 1, h + 6, new)
  BY DEF WithData
<1> HIDE DEF strings, index, hex, num
<1>5. /\ new \in Seq(Line) /\ Len(new) = 6
      /\ new[1] = index /\ new[2] = hex /\ new[3] = num
      /\ \A i \in 1 .. 3 : new[3 + i] = strings[i][1]
  BY <1>1, <1>2, <1>3, SixLines, SMTT(30)
<1> HIDE DEF new
<1>6. LineAt(Splice(c, h + 1, h + 6, new), n) =
        IF n \in h + 1 .. h + 6 THEN new[n - h] ELSE LineAt(c, n)
  BY <1>5, RecordLinesReplaced
<1>7. CASE n \in h + 4 .. h + 6
  <2>1. n - (h + 3) \in 1 .. 3 /\ 3 + (n - (h + 3)) = n - h /\ n \in h + 1 .. h + 6
        /\ n # h + 1 /\ n # h + 2 /\ n # h + 3
    BY <1>7
  <2>2. new[n - h] = strings[n - (h + 3)][1]
    BY <1>5, <2>1
  <2> QED BY <1>4, <1>6, <1>7, <2>1, <2>2 DEF strings
<1>8. CASE n \notin h + 4 .. h + 6
  <2>1. n \in h + 1 .. h + 6 <=> n = h + 1 \/ n = h + 2 \/ n = h + 3
    BY <1>8
  <2>2. (h + 1) - h = 1 /\ (h + 2) - h = 2 /\ (h + 3) - h = 3 /\ h + 1 # h + 2 /\ h + 1 # h + 3
        /\ h + 2 # h + 3
    OBVIOUS
  <2> QED BY <1>4, <1>5, <1>6, <1>8, <2>1, <2>2 DEF index, hex, num
<1> QED BY <1>7, <1>8

\* Two records that keep to their own lines.
LEMMA Away ==
  ASSUME NEW g \in Int, NEW h \in Int, g - h \notin -6 .. 6
  PROVE  /\ g > h + 6 \/ g + 6 < h
         /\ \A i \in 0 .. 6 : g + i \in Int /\ g + i \notin h + 1 .. h + 6
OBVIOUS

\* In a document whose records keep to their own lines, writing one leaves the
\* scan and the others as they are, and reads back as it was written.
LEMMA WrittenAgrees ==
  ASSUME NEW c \in Content, Loadable(c), NEW r \in Rec, HasRec(c, r),
         NEW h, h = HeaderLine(c, r), h + 6 < Len(Lines(c)),
         \A g \in Headers(c) \ {h} : g - h \notin -6 .. 6,
         NEW data \in Data, data.index = r,
         \A i \in 1 .. 3 : Len(data.strings[i]) = 1 /\ data.strings[i][1] # Marker,
         data.strings[3] # << Blank >>
  PROVE  LET d == WithData(c, h, data)
         IN  /\ Scan(d) = Scan(c)
             /\ CanParse(d, h) /\ DataAt(d, h) = data
             /\ \A q \in Rec \ {r} : HasRec(c, q) =>
                  \A i \in 1 .. 6 :
                     LineAt(d, HeaderLine(c, q) + i) = LineAt(c, HeaderLine(c, q) + i)
<1> DEFINE d == WithData(c, h, data)
<1>1. /\ h \in Headers(c) /\ h \in Nat /\ LineAt(c, h + 1) = IndexLine(r)
      /\ \A q \in Rec : HasRec(c, q) => HeaderLine(c, q) \in Headers(c)
      /\ \A q \in Rec : HasRec(c, q) => LineAt(c, HeaderLine(c, q) + 1) = IndexLine(q)
  BY TheRecord
<1>2. d \in Content
  BY <1>1, WithDataType
<1>3. \A n \in Int : LineAt(d, n) = IF n = h + 1 THEN IndexLine(data.index)
                                    ELSE IF n = h + 2 THEN HexLine(data.zones)
                                    ELSE IF n = h + 3 THEN data.num
                                    ELSE IF n \in h + 4 .. h + 6
                                         THEN data.strings[n - (h + 3)][1]
                                    ELSE LineAt(c, n)
  BY <1>1, WithDataReads, SMTT(30)
<1>4. data.num \in [kind : {"num"}, value : Value] /\ data.strings \in [1 .. 3 -> Seq(Line)]
      /\ data.zones \in Zones
  BY DEF Data
<1> HIDE DEF d
<1>5. \A n \in Int : n \notin h + 1 .. h + 6 => LineAt(d, n) = LineAt(c, n)
  BY <1>1, <1>3
<1>6. \A i \in 1 .. 3 : LineAt(d, h + 3 + i) = data.strings[i][1]
  <2> TAKE i \in 1 .. 3
  <2>1. /\ h + 3 + i \in h + 4 .. h + 6 /\ (h + 3 + i) - (h + 3) = i /\ h + 3 + i \in Int
        /\ h + 3 + i # h + 1 /\ h + 3 + i # h + 2 /\ h + 3 + i # h + 3
    BY <1>1
  <2> QED BY <1>3, <2>1
<1>7. /\ LineAt(d, h + 1) = IndexLine(r) /\ LineAt(d, h + 2) = HexLine(data.zones)
      /\ LineAt(d, h + 3) = data.num
  <2>1. h + 1 \in Int /\ h + 2 \in Int /\ h + 3 \in Int /\ h + 2 # h + 1 /\ h + 3 # h + 1
        /\ h + 3 # h + 2
    BY <1>1
  <2> QED BY <1>3, <2>1
<1>8. \A n \in h + 1 .. h + 6 : LineAt(d, n) # Marker
  <2> TAKE n \in h + 1 .. h + 6
  <2>1. CASE n \in {h + 1, h + 2, h + 3}
    BY <1>4, <1>7, <2>1 DEF IndexLine, HexLine, Marker
  <2>2. CASE n \notin {h + 1, h + 2, h + 3}
    <3>1. n - (h + 3) \in 1 .. 3 /\ h + 3 + (n - (h + 3)) = n
      BY <1>1, <2>2
    <3> QED BY <1>6, <3>1
  <2> QED BY <2>1, <2>2
<1>9. Headers(d) = Headers(c)
  <2>1. \A n \in h + 1 .. h + 6 : n \notin Headers(c)
    <3> SUFFICES ASSUME NEW n \in h + 1 .. h + 6, n \in Headers(c) PROVE FALSE
      OBVIOUS
    <3>1. n # h /\ n - h \in -6 .. 6
      BY <1>1, SMTT(30)
    <3> QED BY <3>1
  <2>2. ASSUME NEW n \in Int PROVE n \in Headers(d) <=> n \in Headers(c)
    BY <1>2, <1>5, <1>8, <2>1, HeadersByReading
  <2>3. Headers(d) \subseteq Int /\ Headers(c) \subseteq Int
    BY <1>2, HeaderInLines
  <2> QED BY <2>2, <2>3
<1>10. \A g \in Headers(c) \ {h} : \A i \in 0 .. 6 : LineAt(d, g + i) = LineAt(c, g + i)
  <2> TAKE g \in Headers(c) \ {h}
  <2> TAKE i \in 0 .. 6
  <2>1. g \in Int
    BY HeaderInLines
  <2>2. h \in Int /\ g - h \notin -6 .. 6
    BY <1>1
  <2>3. g + i \in Int /\ g + i \notin h + 1 .. h + 6
    BY <2>1, <2>2, Away
  <2> QED BY <1>5, <2>3
<1>11. Scan(d) = Scan(c)
  <2>1. \A g \in Headers(c) : LineAt(d, g + 1) = LineAt(c, g + 1)
    <3> TAKE g \in Headers(c)
    <3>1. 1 \in 0 .. 6
      OBVIOUS
    <3>2. CASE g = h
      BY <1>1, <1>7, <3>2
    <3>3. CASE g # h
      BY <1>10, <3>1, <3>3
    <3> QED BY <3>2, <3>3
  <2> QED BY <1>9, <2>1, ScanStays
<1>12. CanParse(d, h) /\ DataAt(d, h) = data
  <2>1. data.strings[3] = << data.strings[3][1] >> /\ data.strings[1] = << data.strings[1][1] >>
        /\ data.strings[2] = << data.strings[2][1] >>
    BY <1>4
  <2>2. LineAt(d, h + 6) # Blank
    <3>1. LineAt(d, h + 3 + 3) = data.strings[3][1] /\ h + 3 + 3 = h + 6
      BY <1>1, <1>6
    <3> QED BY <2>1, <3>1
  <2>3. h + 6 < Len(Lines(d))
    <3>1. LineAt(Lines(d), h + 6) # Blank
      BY <1>1, <1>2, <2>2, LinesReadsAlike
    <3>2. h + 6 \in 0 .. Len(Lines(d)) - 1
      BY <3>1 DEF LineAt
    <3> QED BY <1>2, <3>2, LinesType
  <2>4. [i \in 1 .. 3 |-> << LineAt(d, h + 3 + i) >>] = data.strings
    <3>1. \A i \in 1 .. 3 : << LineAt(d, h + 3 + i) >> = data.strings[i]
      BY <1>6, <2>1
    <3> QED BY <1>4, <3>1
  <2>5. CanParse(d, h)
    BY <1>4, <1>7, <2>2, <2>3 DEF CanParse, IndexLine, HexLine, IsHexWords
  <2>6. ZonesIn(LineAt(d, h + 2)) = data.zones
    BY <1>7 DEF ZonesIn, HexLine
  <2>7. LineAt(d, h + 1).rec = data.index
    BY <1>7 DEF IndexLine
  <2>8. data = [index |-> data.index, zones |-> data.zones, num |-> data.num,
                strings |-> data.strings]
    BY DEF Data
  <2> QED BY <1>7, <2>4, <2>5, <2>6, <2>7, <2>8 DEF DataAt
<1>13. \A q \in Rec \ {r} : HasRec(c, q) => HeaderLine(c, q) \in Headers(c) \ {h}
  <2> SUFFICES ASSUME NEW q \in Rec, q # r, HasRec(c, q), HeaderLine(c, q) = h PROVE FALSE
    BY <1>1
  <2>1. IndexLine(q) = IndexLine(r)
    BY <1>1
  <2> QED BY <2>1 DEF IndexLine
<1> QED BY <1>10, <1>11, <1>12, <1>13 DEF d

\* What an edit leaves of a record outside its lines: the lines where
\* apply_line_deltas has moved them, the hex-words alone rewritten.
LEMMA RecordMoves ==
  ASSUME NEW c \in Content, Loadable(c), NEW s \in Nat, NEW e \in Int, NEW new \in Seq(Prose),
         s <= e + 1, e < Len(Lines(c)), HexWordsStay(c, s, e, new),
         \A f, g \in Headers(c) : f # g => f - g \notin -6 .. 6,
         NEW q \in Rec, HasRec(c, q), HeaderLine(c, q) + 6 < s \/ HeaderLine(c, q) > e
  PROVE  LET d     == SpliceAndShift(c, s, e, new)
             delta == Len(new) - (e - s + 1)
             g     == HeaderLine(c, q)
             k     == HeaderLine(d, q)
         IN  /\ HasRec(d, q) /\ k \in Nat
             /\ \A i \in {1, 3, 4, 5, 6} : LineAt(d, k + i) = LineAt(c, g + i)
             /\ LineAt(d, k + 2) = IF LineAt(c, g + 2).kind = "hex"
                                   THEN ShiftHexLine(LineAt(c, g + 2), e + 1, delta)
                                   ELSE LineAt(c, g + 2)
<1> DEFINE d     == SpliceAndShift(c, s, e, new)
           delta == Len(new) - (e - s + 1)
           Sh(m) == ShiftWord(m, e + 1, delta)
           g     == HeaderLine(c, q)
<1>1. g \in Headers(c) /\ g \in Nat
  BY TheRecord
<1>2. g + 2 < s \/ g > e
  BY <1>1
<1>3. /\ HasRec(d, q) /\ HeaderLine(d, q) = Sh(g)
      /\ LineAt(d, AsciiLine(d, q)) =
           IF LineAt(c, AsciiLine(c, q)).kind = "hex"
           THEN ShiftHexLine(LineAt(c, AsciiLine(c, q)), e + 1, delta)
           ELSE LineAt(c, AsciiLine(c, q))
  BY <1>2, RecordFollows, ProseIsTame
<1>4. Len(new) \in Nat
  BY LenProperties
<1>5. ASSUME NEW i \in 0 .. 6 PROVE Sh(g) + i = Sh(g + i) /\ Sh(g) \in Nat
  <2> HIDE DEF g
  <2>1. g + i < s \/ g > e
    BY <1>1 DEF g
  <2>2. i \in Nat
    BY <1>5
  <2>3. delta \in Int /\ delta = Len(new) - (e - s + 1)
    BY <1>4
  <2> HIDE DEF delta
  <2> QED BY <1>1, <1>4, <2>1, <2>2, <2>3 DEF ShiftWord
<1>6. ASSUME NEW i \in {1, 3, 4, 5, 6} PROVE LineAt(d, Sh(g) + i) = LineAt(c, g + i)
  <2>1. i \in 0 .. 6 /\ i - 2 \in -6 .. 6 /\ i - 2 # 0 /\ i \in Int
    BY <1>6
  <2> DEFINE n == g + i
  <2>2. n \in Nat /\ (n < s \/ n > e) /\ n - 2 # g /\ (n - 2) - g \in -6 .. 6
    <3> HIDE DEF g
    <3>1. (g + i) - 2 = g + (i - 2) /\ ((g + i) - 2) - g = i - 2
      BY <1>1, <2>1
    <3>2. g + 6 < s \/ g > e
      BY DEF g
    <3> QED BY <1>1, <2>1, <3>1, <3>2
  <2>3. Sh(g) + i = Sh(n)
    BY <1>5, <2>1
  <2> HIDE DEF n
  <2>4. n - 2 \notin Spared(c, s, e)
    BY <1>1, <2>2 DEF Spared
  <2>5. LineAt(d, Sh(n)) = LineAt(c, n)
    <3>1. Unmarked(new)
      BY ProseIsTame
    <3> QED BY <2>2, <2>4, <3>1, LineFollows
  <2> QED BY <2>3, <2>5 DEF n
<1>7. Sh(g) \in Nat
  <2>1. 0 \in 0 .. 6
    OBVIOUS
  <2> QED BY <1>5, <2>1
<1> HIDE DEF Sh, delta, d
<1> QED BY <1>3, <1>6, <1>7 DEF AsciiLine, d, delta

\* An edit whose lines hold no marker makes no record: every record of the result
\* was one before, outside the edited lines.
LEMMA NoNewRecord ==
  ASSUME NEW c \in Content, Loadable(c), NEW s \in Nat, NEW e \in Int, NEW new \in Seq(Prose),
         s <= e + 1, HexWordsStay(c, s, e, new),
         \A f \in Headers(c) : f < s \/ f > e => f + 2 < s \/ f > e,
         NEW q \in Rec, HasRec(SpliceAndShift(c, s, e, new), q)
  PROVE  HasRec(c, q) /\ HeaderLine(c, q) \in Spared(c, s, e)
<1> DEFINE d     == SpliceAndShift(c, s, e, new)
           delta == Len(new) - (e - s + 1)
           Sh(m) == ShiftWord(m, e + 1, delta)
<1>1. new \in Seq(Line) /\ e >= -1
  BY ProseSeq
<1>2. Headers(d) = {Sh(f) : f \in Spared(c, s, e)}
  BY <1>1, EditKeepsHeaders, SpliceMarkers, ProseIsTame, SMTT(30)
<1>3. PICK f \in Spared(c, s, e) : LineAt(d, Sh(f) + 1) = IndexLine(q)
  BY <1>2 DEF HasRec, HeadersOf
<1>4. f \in Headers(c) /\ (f < s \/ f > e)
  BY DEF Spared
<1>5. PICK p \in Rec : HasRec(c, p) /\ HeaderLine(c, p) = f
  BY <1>4, MarkersAreRecords
<1>6. HeaderLine(c, p) + 2 < s \/ HeaderLine(c, p) > e
  BY <1>4, <1>5
<1>7. HeadersOf(d, p) = {Sh(HeaderLine(c, p))}
  BY <1>5, <1>6, RecordFollows, ProseIsTame
<1> HIDE DEF d, Sh
<1>8. LineAt(d, Sh(f) + 1) = IndexLine(p)
  BY <1>5, <1>7 DEF HeadersOf
<1>9. p = q
  BY <1>3, <1>8 DEF IndexLine
<1> QED BY <1>5, <1>9

\* What a record read before another is removed has to do with what is read
\* after: unless it names lines below the removed ones, nothing has changed.
LEMMA RemovalAgrees ==
  ASSUME NEW c \in Content, Loadable(c), NEW h \in Headers(c), h + 6 < Len(Lines(c)),
         \A f, g \in Headers(c) : f # g => f - g \notin -6 .. 6,
         NEW q \in Rec, HasRec(SpliceAndShift(c, h, h + 6, << >>), q)
  PROVE  LET d == SpliceAndShift(c, h, h + 6, << >>)
             g == HeaderLine(c, q)
             k == HeaderLine(d, q)
         IN  /\ HasRec(c, q) /\ g # h /\ k \in Nat
             /\ CanParse(c, g) /\ (\A z \in ZoneIdx :
                                     ShiftPair(DataAt(c, g).zones[z], h + 7, -7)
                                       = DataAt(c, g).zones[z])
                  => CanParse(d, k) /\ DataAt(d, k) = DataAt(c, g)
<1> DEFINE e     == h + 6
           new   == << >>
           d     == SpliceAndShift(c, h, e, new)
           g     == HeaderLine(c, q)
           k     == HeaderLine(d, q)
           delta == Len(new) - (e - h + 1)
           from  == e + 1
<1>1. h \in Nat
  BY HeaderInLines
<1>2. e \in Int /\ h <= e + 1 /\ e < Len(Lines(c)) /\ new \in Seq(Prose)
  BY <1>1
<1>3. delta = -7 /\ from = h + 7 /\ e = h + 6
  BY <1>1
<1>4. d = SpliceAndShift(c, h, h + 6, << >>) /\ d \in Content
  <2>1. e \in Nat /\ new \in Seq(Line)
    BY <1>1
  <2> HIDE DEF e, new
  <2>2. d \in Content
    BY <1>1, <2>1, SpliceAndShiftType
  <2> QED BY <2>2 DEF e, new
<1>5. HasRec(d, q)
  OBVIOUS
<1> HIDE DEF e, new, from, delta
<1>6. \A f \in Headers(c) : f # h => f + 6 < h \/ f > e
  <2> SUFFICES ASSUME NEW f \in Headers(c), f # h PROVE f + 6 < h \/ f > e
    OBVIOUS
  <2>1. f - h \notin -6 .. 6 /\ f \in Int /\ h \in Int
    BY <1>1, HeaderInLines
  <2> QED BY <1>3, <2>1, Away
<1>7. HexWordsStay(c, h, e, new) /\ \A f \in Headers(c) : f < h \/ f > e => f + 2 < h \/ f > e
  <2>1. \A f \in Headers(c) : f < h \/ f > e => f + 2 < h \/ f > e
    <3> SUFFICES ASSUME NEW f \in Headers(c), f < h \/ f > e PROVE f + 2 < h \/ f > e
      OBVIOUS
    <3>1. f # h /\ f \in Int
      BY <1>1, <1>3, HeaderInLines
    <3> QED BY <1>1, <1>6, <3>1
  <2>2. \A f \in Headers(c) : f < h => f + 2 < h
    <3> SUFFICES ASSUME NEW f \in Headers(c), f < h PROVE f + 2 < h
      OBVIOUS
    <3>1. f \in Int /\ ~ (f > e)
      BY <1>1, <1>3, HeaderInLines
    <3> QED BY <2>1, <3>1
  <2> QED BY <2>1, <2>2 DEF HexWordsStay
<1>8. HasRec(c, q) /\ g \in Spared(c, h, e)
  BY <1>1, <1>2, <1>5, <1>7, NoNewRecord
<1>9. g \in Headers(c) /\ g # h /\ g \in Nat
  <2> HIDE DEF g
  <2>1. g \in Headers(c) /\ (g < h \/ g > e)
    BY <1>8 DEF Spared
  <2> QED BY <1>1, <1>3, <2>1, HeaderInLines
<1>10. g + 6 < h \/ g > e
  BY <1>6, <1>9
<1>11. /\ k \in Nat
       /\ \A i \in {1, 3, 4, 5, 6} : LineAt(d, k + i) = LineAt(c, g + i)
       /\ LineAt(d, k + 2) = IF LineAt(c, g + 2).kind = "hex"
                             THEN ShiftHexLine(LineAt(c, g + 2), from, delta)
                             ELSE LineAt(c, g + 2)
  BY <1>1, <1>2, <1>7, <1>8, <1>10, RecordMoves DEF from, delta
<1> HIDE DEF d, g, k
<1>12. ASSUME CanParse(c, g),
              \A z \in ZoneIdx : ShiftPair(DataAt(c, g).zones[z], h + 7, -7)
                                   = DataAt(c, g).zones[z]
       PROVE  CanParse(d, k) /\ DataAt(d, k) = DataAt(c, g)
  <2>1. LineAt(d, k + 1) = LineAt(c, g + 1) /\ LineAt(d, k + 3) = LineAt(c, g + 3)
        /\ LineAt(d, k + 6) = LineAt(c, g + 6)
    BY <1>11
  <2>2. IsHexWords(LineAt(d, k + 2)) /\ ZonesIn(LineAt(d, k + 2)) = ZonesIn(LineAt(c, g + 2))
    <3> DEFINE line == LineAt(c, g + 2)
    <3>1. CASE line.kind = "hex"
      <4>1. ZonesIn(line) = line.zones /\ line.zones \in Zones
        <5>1. line \in Line
          BY <1>9, LineAtType DEF Content
        <5>2. line.zones \in Zones
          BY <3>1, <5>1 DEF Line, Blank, Marker
        <5> QED BY <3>1, <5>2 DEF ZonesIn
      <4>2. DataAt(c, g).zones = line.zones
        BY <4>1 DEF DataAt
      <4>3. [z \in ZoneIdx |-> ShiftPair(line.zones[z], from, delta)] = line.zones
        <5>1. \A z \in ZoneIdx : ShiftPair(line.zones[z], from, delta) = line.zones[z]
          BY <1>3, <1>12, <4>2
        <5> QED BY <4>1, <5>1 DEF Zones
      <4>4. LineAt(d, k + 2) = HexLine(line.zones)
        BY <1>11, <3>1, <4>3 DEF ShiftHexLine
      <4> QED BY <4>1, <4>4 DEF HexLine, IsHexWords, ZonesIn
    <3>2. CASE line.kind # "hex"
      BY <1>11, <1>12, <3>2 DEF CanParse
    <3> QED BY <3>1, <3>2
  <2>3. k + 6 < Len(Lines(d))
    <3>1. LineAt(Lines(d), k + 6) # Blank
      BY <1>4, <1>11, <1>12, <2>1, LinesReadsAlike DEF CanParse
    <3>2. k + 6 \in 0 .. Len(Lines(d)) - 1
      BY <3>1 DEF LineAt
    <3> QED BY <1>4, <3>2, LinesType
  <2>4. CanParse(d, k)
    BY <1>12, <2>1, <2>2, <2>3 DEF CanParse
  <2>5. [i \in 1 .. 3 |-> << LineAt(d, k + 3 + i) >>] = [i \in 1 .. 3 |-> << LineAt(c, g + 3 + i) >>]
    <3>1. \A i \in 1 .. 3 : LineAt(d, k + 3 + i) = LineAt(c, g + 3 + i)
      <4> TAKE i \in 1 .. 3
      <4>1. 3 + i \in {1, 3, 4, 5, 6} /\ k + 3 + i = k + (3 + i) /\ g + 3 + i = g + (3 + i)
        BY <1>9, <1>11
      <4> QED BY <1>11, <4>1
    <3> QED BY <3>1
  <2> QED BY <2>1, <2>2, <2>4, <2>5 DEF DataAt
<1> QED BY <1>4, <1>8, <1>9, <1>11, <1>12 DEF g, k

\* The positions a session that has not strayed works from.
LEMMA Positions ==
  ASSUME TypeOK, CopiesAgree, ~ strayed, Loadable(content), NEW r \in Rec
  PROVE  /\ header = Scan(content)
         /\ header[r] # Absent <=> HasRec(content, r)
         /\ header[r] # Absent =>
              /\ header[r] = HeaderLine(content, r) /\ header[r] \in Nat
              /\ header[r] \in Headers(content)
              /\ LineAt(content, header[r] + 1) = IndexLine(r)
<1>1. header = Scan(content) /\ content \in Content
  BY DEF CopiesAgree, TypeOK
<1>2. HasRec(content, r) => /\ HeaderLine(content, r) \in Headers(content)
                            /\ HeaderLine(content, r) \in Nat
                            /\ LineAt(content, HeaderLine(content, r) + 1) = IndexLine(r)
  BY <1>1, TheRecord
<1> QED BY <1>1, <1>2 DEF Scan, Absent

\* A record the Store hands out, from its cache or from the text, is what the
\* text says at its marker.
LEMMA FetchedIsThere ==
  ASSUME TypeOK, CopiesAgree, ~ strayed, Loadable(content), NEW r \in Rec, CanFetch(r)
  PROVE  CanParse(content, header[r]) /\ Fetched(r) = DataAt(content, header[r])
         /\ Fetched(r).index = r
<1>1. CanParse(content, header[r]) /\ Fetched(r) = DataAt(content, header[r])
  BY DEF CanFetch, Fetched, CopiesAgree
<1>2. LineAt(content, header[r] + 1) = IndexLine(r)
  BY Positions DEF CanFetch
<1> QED BY <1>1, <1>2 DEF DataAt, IndexLine

\* Where no two records share lines, writing one leaves every other copy true.
LEMMA WriteAgrees ==
  ASSUME TypeOK, CopiesAgree, NEW r \in Rec, NEW data \in Data, CanFetch(r), Write(r, data),
         data.index = Fetched(r).index, autoSave' = autoSave,
         \A i \in 1 .. 3 : data.strings[i] = Fetched(r).strings[i] \/ data.strings[i] \in SlotInputs
  PROVE  CopiesAgree'
<1> SUFFICES ASSUME ~ strayed', Loadable(content)'
             PROVE  /\ dirty' \/ file' = content'
                    /\ ~ (dirty' /\ autoSave')
                    /\ header' = Scan(content')
                    /\ \A q \in Rec : header'[q] # Absent /\ cache'[q] # NotCached =>
                         /\ CanParse(content', header'[q])
                         /\ cache'[q] = DataAt(content', header'[q])
  BY DEF CopiesAgree, CanParse, DataAt
<1> DEFINE h == header[r]
<1>1. ~ strayed /\ Loadable(content) /\ ~ Unreadable(data.strings) /\ ~ Entangled(h)
  BY DEF Write, Strays
<1>2. content \in Content /\ cache \in [Rec -> Data \cup {NotCached}] /\ autoSave \in BOOLEAN
      /\ dirty \in BOOLEAN
  BY DEF TypeOK
<1>3. /\ HasRec(content, r) /\ h = HeaderLine(content, r) /\ h \in Nat
      /\ h \in Headers(content)
  BY <1>1, Positions DEF CanFetch
<1>4. Fetched(r) = DataAt(content, h) /\ data.index = r
  BY <1>1, FetchedIsThere
<1>5. \A g \in Headers(content) \ {h} : g - h \notin -6 .. 6
  BY <1>1 DEF Entangled
<1>6. \A i \in 1 .. 3 : Len(data.strings[i]) = 1 /\ data.strings[i][1] # Marker
  <2> TAKE i \in 1 .. 3
  <2>1. Len(data.strings[i]) = 1
    BY <1>1 DEF Unreadable
  <2>2. CASE data.strings[i] = Fetched(r).strings[i]
    <3>1. data.strings[i][1] = LineAt(content, h + 3 + i)
      BY <1>4, <2>2 DEF DataAt
    <3>2. h + 3 + i \in Int /\ h + 3 + i # h /\ (h + 3 + i) - h \in -6 .. 6
      BY <1>3
    <3>3. h + 3 + i \notin Headers(content)
      BY <1>5, <3>2
    <3> QED BY <1>2, <2>1, <3>1, <3>2, <3>3, HeadersByReading
  <2>3. CASE data.strings[i] \in SlotInputs
    <3>1. data.strings[i] \in Seq(Prose) /\ 1 \in 1 .. Len(data.strings[i])
      BY <2>1, <2>3, SessionAssumption
    <3>2. data.strings[i][1] \in Prose
      BY <3>1, ElementOfSeq
    <3> QED BY <2>1, <3>2 DEF Prose, Blank, Marker
  <2> QED BY <2>2, <2>3
<1>7. data.strings[3] # << Blank >>
  BY <1>1 DEF Unreadable
<1>8. content' = WithData(content, h, data) /\ header' = header
      /\ cache' = [cache EXCEPT ![r] = data] /\ h + 6 < Len(Lines(content))
  BY DEF Write
<1> HIDE DEF h
<1>9. /\ Scan(content') = Scan(content)
      /\ CanParse(content', h) /\ DataAt(content', h) = data
      /\ \A q \in Rec \ {r} : HasRec(content, q) =>
           \A i \in 1 .. 6 : LineAt(content', HeaderLine(content, q) + i)
                               = LineAt(content, HeaderLine(content, q) + i)
  BY <1>1, <1>2, <1>3, <1>4, <1>5, <1>6, <1>7, <1>8, WrittenAgrees
<1>10. header' = Scan(content')
  BY <1>1, <1>8, <1>9, Positions
<1>11. content' \in Content
  BY <1>2, <1>3, <1>8, WithDataType
<1>12. ASSUME NEW q \in Rec, header'[q] # Absent, cache'[q] # NotCached
       PROVE  CanParse(content', header'[q]) /\ cache'[q] = DataAt(content', header'[q])
  <2>1. CASE q = r
    BY <1>2, <1>8, <1>9, <2>1 DEF h
  <2>2. CASE q # r
    <3>1. header'[q] = header[q] /\ cache'[q] = cache[q]
      BY <1>2, <1>8, <2>2
    <3>2. HasRec(content, q) /\ header[q] = HeaderLine(content, q) /\ header[q] \in Nat
      BY <1>1, <1>12, <3>1, Positions
    <3>3. CanParse(content, header[q]) /\ cache[q] = DataAt(content, header[q])
      BY <1>1, <1>12, <3>1 DEF CopiesAgree
    <3>4. \A i \in 1 .. 6 : LineAt(content', header[q] + i) = LineAt(content, header[q] + i)
      BY <1>9, <2>2, <3>2
    <3>5. CanParse(content', header[q]) /\ DataAt(content', header[q]) = DataAt(content, header[q])
      BY <1>2, <1>11, <3>2, <3>3, <3>4, ParsesAlike
    <3> QED BY <3>1, <3>3, <3>5
  <2> QED BY <2>1, <2>2
<1>13. (dirty' \/ file' = content') /\ ~ (dirty' /\ autoSave')
  BY <1>2 DEF Write, Modified
<1> QED BY <1>10, <1>12, <1>13

\* One step per operation.
LEMMA StepKeepsCopies == TypeOK /\ CopiesAgree /\ [Next]_vars => CopiesAgree'
<1> SUFFICES ASSUME TypeOK, CopiesAgree, [Next]_vars PROVE CopiesAgree'
  OBVIOUS
<1>0. content \in Content /\ file \in Content /\ autoSave \in BOOLEAN /\ dirty \in BOOLEAN
      /\ strayed \in BOOLEAN /\ cache \in [Rec -> Data \cup {NotCached}]
      /\ header \in [Rec -> Nat \cup {Absent}]
  BY DEF TypeOK
<1>1. ASSUME NEW r \in Rec, Get(r)
      PROVE  CopiesAgree'
  <2>1. /\ content' = content /\ file' = file /\ header' = header /\ dirty' = dirty
        /\ strayed' = strayed /\ autoSave' = autoSave /\ CanFetch(r)
        /\ cache' = [cache EXCEPT ![r] = Fetched(r)]
    BY <1>1 DEF Get, Did
  <2> SUFFICES ASSUME ~ strayed, Loadable(content),
                      NEW q \in Rec, header[q] # Absent, cache'[q] # NotCached
               PROVE  CanParse(content, header[q]) /\ cache'[q] = DataAt(content, header[q])
    BY <2>1 DEF CopiesAgree, CanParse, DataAt
  <2>2. CASE q = r
    BY <1>0, <2>1, <2>2, FetchedIsThere
  <2>3. CASE q # r
    BY <1>0, <2>1, <2>3 DEF CopiesAgree
  <2> QED BY <2>2, <2>3
<1>2. ASSUME NEW r \in Rec, AddIndex(r)
      PROVE  CopiesAgree'
  BY <1>0, <1>2 DEF AddIndex, Did, Strays, Modified, Empty, CopiesAgree
<1>3. ASSUME NEW r \in Rec, NEW z \in ZoneIdx, NEW p \in Ranges, SetZone(r, z, p)
      PROVE  CopiesAgree'
  <2> DEFINE data == [Fetched(r) EXCEPT !.zones[z] = p]
  <2>1. Fetched(r) \in Data /\ p \in ZonePair
    BY <1>3, FetchedType, SessionAssumption DEF SetZone
  <2>2. data \in Data /\ data.index = Fetched(r).index /\ data.strings = Fetched(r).strings
    BY <2>1 DEF Data, Zones
  <2>3. CanFetch(r) /\ Write(r, data) /\ autoSave' = autoSave
    BY <1>3 DEF SetZone, Did
  <2> HIDE DEF data
  <2> QED BY <2>2, <2>3, WriteAgrees
<1>4. ASSUME NEW r \in Rec, NEW v \in Value, SetNumber(r, v)
      PROVE  CopiesAgree'
  <2> DEFINE data == [Fetched(r) EXCEPT !.num = NumLine(v)]
  <2>1. Fetched(r) \in Data
    BY <1>4, FetchedType DEF SetNumber
  <2>2. data \in Data /\ data.index = Fetched(r).index /\ data.strings = Fetched(r).strings
    BY <2>1 DEF Data, NumLine
  <2>3. CanFetch(r) /\ Write(r, data) /\ autoSave' = autoSave
    BY <1>4 DEF SetNumber, Did
  <2> HIDE DEF data
  <2> QED BY <2>2, <2>3, WriteAgrees
<1>5. ASSUME NEW r \in Rec, NEW slot \in 1 .. 3, NEW text \in SlotInputs,
             SetString(r, slot, text)
      PROVE  CopiesAgree'
  <2> DEFINE data == [Fetched(r) EXCEPT !.strings[slot] = text]
  <2>1. Fetched(r) \in Data /\ text \in Seq(Line)
    BY <1>5, FetchedType, SlotInputType DEF SetString
  <2>2. /\ data \in Data /\ data.index = Fetched(r).index
        /\ \A i \in 1 .. 3 : data.strings[i] = IF i = slot THEN text ELSE Fetched(r).strings[i]
    BY <2>1 DEF Data
  <2>3. CanFetch(r) /\ Write(r, data) /\ autoSave' = autoSave
    BY <1>5 DEF SetString, Did
  <2> HIDE DEF data
  <2> QED BY <2>2, <2>3, WriteAgrees
<1>6. ASSUME NEW r \in Rec, NEW zones \in HexLines, UpdateAsciiStore(r, zones)
      PROVE  CopiesAgree'
  <2> DEFINE data == [Fetched(r) EXCEPT !.zones = zones]
  <2>1. Fetched(r) \in Data /\ zones \in Zones
    BY <1>6, FetchedType, SessionAssumption DEF UpdateAsciiStore
  <2>2. data \in Data /\ data.index = Fetched(r).index /\ data.strings = Fetched(r).strings
    BY <2>1 DEF Data
  <2>3. CanFetch(r) /\ Write(r, data) /\ autoSave' = autoSave
    BY <1>6 DEF UpdateAsciiStore, Did
  <2> HIDE DEF data
  <2> QED BY <2>2, <2>3, WriteAgrees
<1>7. ASSUME NEW r \in Rec, NEW db \in DbLines, UpdateDbLine(r, db)
      PROVE  CopiesAgree'
  <2> DEFINE data == [Fetched(r) EXCEPT !.num = NumLine(db.num), !.strings = db.strings]
  <2>1. Fetched(r) \in Data /\ NumLine(db.num) \in [kind : {"num"}, value : Value]
        /\ db.strings \in [1 .. 3 -> SlotInputs]
    BY <1>7, FetchedType, SessionAssumption DEF UpdateDbLine, NumLine
  <2>2. db.strings \in [1 .. 3 -> Seq(Line)]
    BY <2>1, SlotInputType
  <2>3. data \in Data /\ data.index = Fetched(r).index /\ data.strings = db.strings
    BY <2>1, <2>2 DEF Data
  <2>4. CanFetch(r) /\ Write(r, data) /\ autoSave' = autoSave
    BY <1>7 DEF UpdateDbLine, Did
  <2> HIDE DEF data
  <2> QED BY <2>1, <2>3, <2>4, WriteAgrees
<1>8. ASSUME NEW r \in Rec, NEW batch \in Batches, BatchUpdate(r, batch)
      PROVE  CopiesAgree'
  <2> DEFINE data == [Fetched(r) EXCEPT !.num = NumLine(batch.num),
                                        !.strings = Overlaid(@, batch.strings)]
             strings == Overlaid(Fetched(r).strings, batch.strings)
  <2>1. Fetched(r) \in Data /\ NumLine(batch.num) \in [kind : {"num"}, value : Value]
    BY <1>8, FetchedType, SessionAssumption DEF BatchUpdate, NumLine
  <2>2. \A i \in 1 .. 3 : strings[i] = Fetched(r).strings[i] \/ strings[i] \in SlotInputs
    BY SessionAssumption DEF Overlaid
  <2>3. strings \in [1 .. 3 -> Seq(Line)]
    <3>1. Fetched(r).strings \in [1 .. 3 -> Seq(Line)]
      BY <2>1 DEF Data
    <3>2. \A i \in 1 .. 3 : strings[i] \in Seq(Line)
      BY <2>2, <3>1, SlotInputType
    <3> QED BY <3>2 DEF Overlaid
  <2>4. data \in Data /\ data.index = Fetched(r).index /\ data.strings = strings
    BY <2>1, <2>3 DEF Data
  <2>5. CanFetch(r) /\ Write(r, data) /\ autoSave' = autoSave
    BY <1>8 DEF BatchUpdate, Did
  <2> HIDE DEF data, strings
  <2> QED BY <2>2, <2>4, <2>5, WriteAgrees
<1>9. ASSUME NEW r \in Rec, NEW canonical \in BOOLEAN, RemoveIndex(r, canonical)
      PROVE  CopiesAgree'
  <2> SUFFICES ASSUME ~ strayed', Loadable(content)'
               PROVE  /\ dirty' \/ file' = content'
                      /\ ~ (dirty' /\ autoSave')
                      /\ header' = Scan(content')
                      /\ \A q \in Rec : header'[q] # Absent /\ cache'[q] # NotCached =>
                           /\ CanParse(content', header'[q])
                           /\ cache'[q] = DataAt(content', header'[q])
    BY DEF CopiesAgree, CanParse, DataAt
  <2> DEFINE h == header[r]
  <2>1. /\ ~ strayed /\ Loadable(content) /\ h # Absent /\ h + 7 <= Len(Lines(content))
        /\ content' = SpliceAndShift(content, h, h + 6, << >>)
        /\ header' = Scan(content')
        /\ cache' = IF canonical THEN [cache EXCEPT ![r] = NotCached] ELSE cache
        /\ Modified /\ autoSave' = autoSave
        /\ ~ OutdatedBy(r, h) /\ \A g \in Headers(content) : ~ Entangled(g)
    BY <1>9 DEF RemoveIndex, Did, Strays
  <2>2. h \in Headers(content) /\ h = HeaderLine(content, r) /\ h \in Nat
        /\ h + 6 < Len(Lines(content))
    BY <1>0, <2>1, LinesType, Positions
  <2>3. \A f, g \in Headers(content) : f # g => f - g \notin -6 .. 6
    BY <2>1 DEF Entangled
  <2> HIDE DEF h
  <2>4. ASSUME NEW q \in Rec, header'[q] # Absent, cache'[q] # NotCached
        PROVE  CanParse(content', header'[q]) /\ cache'[q] = DataAt(content', header'[q])
    <3>1. HasRec(content', q) /\ header'[q] = HeaderLine(content', q)
      BY <2>1, <2>4 DEF Scan
    <3>2. /\ HasRec(content, q) /\ HeaderLine(content, q) # h
          /\ CanParse(content, HeaderLine(content, q))
             /\ (\A z \in ZoneIdx :
                   ShiftPair(DataAt(content, HeaderLine(content, q)).zones[z], h + 7, -7)
                     = DataAt(content, HeaderLine(content, q)).zones[z])
             => /\ CanParse(content', HeaderLine(content', q))
                /\ DataAt(content', HeaderLine(content', q))
                     = DataAt(content, HeaderLine(content, q))
      BY <1>0, <2>1, <2>2, <2>3, <3>1, RemovalAgrees
    <3>3. q # r
      BY <2>2, <3>2
    <3>4. cache'[q] = cache[q] /\ cache[q] # NotCached
      BY <1>0, <2>1, <2>4, <3>3
    <3>5. header[q] # Absent /\ header[q] = HeaderLine(content, q)
      BY <2>1, <3>2, Positions
    <3>6. CanParse(content, header[q]) /\ cache[q] = DataAt(content, header[q])
      BY <2>1, <3>4, <3>5 DEF CopiesAgree
    <3>7. \A z \in ZoneIdx : ShiftPair(cache[q].zones[z], h + 7, -7) = cache[q].zones[z]
      BY <2>1, <3>3, <3>4 DEF OutdatedBy
    <3> QED BY <3>1, <3>2, <3>4, <3>5, <3>6, <3>7
  <2>5. (dirty' \/ file' = content') /\ ~ (dirty' /\ autoSave')
    BY <1>0, <2>1 DEF Modified
  <2> QED BY <2>1, <2>4, <2>5
<1>10. CASE Save
  BY <1>0, <1>10 DEF Save, Did, CopiesAgree, CanParse, DataAt
<1>11. CASE Reload
  BY <1>0, <1>11 DEF Reload, Did, Strays, Empty, CopiesAgree
<1>12. CASE Reopen
  BY <1>0, <1>12 DEF Reopen, Did, Empty, CopiesAgree
<1>13. CASE Create
  BY <1>0, <1>13 DEF Create, Empty, CopiesAgree
<1>14. CASE UNCHANGED vars
  BY <1>14 DEF vars, CopiesAgree, CanParse, DataAt
<1> QED BY <1>1, <1>2, <1>3, <1>4, <1>5, <1>6, <1>7, <1>8, <1>9, <1>10, <1>11, <1>12,
           <1>13, <1>14 DEF Next

\* The writers of a Store do not scan again and keep what they wrote: over any
\* file and for any length of session, the positions and the cached records go on
\* saying what the text says, until an operation the session could not have done
\* in a process of its own (strayed).
THEOREM CopiesStayTrue == Spec => []CopiesAgree
<1>1. Init => CopiesAgree
  BY DEF Init, Empty, CopiesAgree
<1>2. TypeOK /\ CopiesAgree /\ [Next]_vars => CopiesAgree'
  BY StepKeepsCopies
<1> QED BY <1>1, <1>2, TypeCorrect, PTL DEF Spec

(***************************************************************************)
(* A session against one process for each command.                         *)
(***************************************************************************)
\* ZoneEditor's commands read and cut lines as the Store does.
LEMMA SameReading ==
  ASSUME NEW c
  PROVE  /\ Fresh!Lines(c) = Lines(c)
         /\ Fresh!Headers(c) = Headers(c)
         /\ \A i : Fresh!LineAt(c, i) = LineAt(c, i)
         /\ \A l : Fresh!ZonesIn(l) = ZonesIn(l) /\ Fresh!IsHexWords(l) = IsHexWords(l)
         /\ Fresh!Loadable(c) = Loadable(c)
         /\ \A r : /\ Fresh!HeadersOf(c, r) = HeadersOf(c, r)
                   /\ Fresh!HasRec(c, r) = HasRec(c, r)
                   /\ Fresh!HeaderLine(c, r) = HeaderLine(c, r)
                   /\ Fresh!AsciiLine(c, r) = AsciiLine(c, r)
                   /\ Fresh!Readable(c, r) = Readable(c, r)
<1>1. /\ Fresh!Lines(c) = Lines(c)
      /\ Fresh!Headers(c) = Headers(c)
      /\ \A i : Fresh!LineAt(c, i) = LineAt(c, i)
      /\ \A l : Fresh!ZonesIn(l) = ZonesIn(l) /\ Fresh!IsHexWords(l) = IsHexWords(l)
  BY DEF Fresh!Lines, Lines, Fresh!Headers, Headers, Fresh!LineAt, LineAt, Fresh!ZonesIn,
         ZonesIn, Fresh!IsHexWords, IsHexWords, Fresh!Blank, Blank, Fresh!Marker, Marker,
         Fresh!ZoneIdx, ZoneIdx, Fresh!NoZone, NoZone
<1>2. Fresh!Loadable(c) = Loadable(c)
  BY <1>1 DEF Fresh!Loadable, Loadable
<1>3. \A r : Fresh!HeadersOf(c, r) = HeadersOf(c, r)
  BY <1>1 DEF Fresh!HeadersOf, HeadersOf, Fresh!IndexLine, IndexLine
<1>4. \A r : Fresh!HasRec(c, r) = HasRec(c, r) /\ Fresh!HeaderLine(c, r) = HeaderLine(c, r)
  BY <1>3 DEF Fresh!HasRec, HasRec, Fresh!HeaderLine, HeaderLine
<1>5. \A r : /\ Fresh!AsciiLine(c, r) = AsciiLine(c, r)
             /\ Fresh!Readable(c, r) = Readable(c, r)
  BY <1>1, <1>4 DEF Fresh!AsciiLine, AsciiLine, Fresh!Readable, Readable,
                    Fresh!String3Line, String3Line
<1> QED BY <1>1, <1>2, <1>3, <1>4, <1>5

LEMMA SameCutting ==
  ASSUME NEW c, NEW s, NEW e, NEW new
  PROVE  /\ Fresh!Splice(c, s, e, new) = Splice(c, s, e, new)
         /\ Fresh!SpliceAndShift(c, s, e, new) = SpliceAndShift(c, s, e, new)
<1>1. ASSUME NEW d, NEW ls PROVE Fresh!Join(ls) = Join(ls) /\ Fresh!Lines(d) = Lines(d)
  BY SameReading DEF Fresh!Join, Join, Fresh!Blank, Blank
<1>2. ASSUME NEW d PROVE Fresh!Splice(d, s, e, new) = Splice(d, s, e, new)
  BY <1>1 DEF Fresh!Splice, Splice
<1>3. ASSUME NEW line, NEW from, NEW delta
      PROVE  Fresh!ShiftHexLine(line, from, delta) = ShiftHexLine(line, from, delta)
  BY DEF Fresh!ShiftHexLine, ShiftHexLine, Fresh!HexLine, HexLine, Fresh!ShiftPair, ShiftPair,
         Fresh!ShiftWord, ShiftWord, Fresh!ZoneIdx, ZoneIdx
<1>4. ASSUME NEW d, NEW at, NEW f PROVE Fresh!UpdateLines(d, at, f) = UpdateLines(d, at, f)
  BY <1>1 DEF Fresh!UpdateLines, UpdateLines
<1>5. ASSUME NEW d, NEW from, NEW delta
      PROVE  Fresh!ApplyDelta(d, from, delta) = ApplyDelta(d, from, delta)
  BY <1>1, <1>3, <1>4, SameReading DEF Fresh!ApplyDelta, ApplyDelta
<1> QED BY <1>2, <1>5 DEF Fresh!SpliceAndShift, SpliceAndShift

\* What the Store writes at the position it remembers is what a process that
\* scans the file writes, from the fields that process reads.
LEMMA SessionWrites ==
  ASSUME TypeOK, CopiesAgree, NEW r \in Rec, NEW data, CanFetch(r), Write(r, data),
         data.index = Fetched(r).index, ~ strayed'
  PROVE  /\ Fresh!CanWriteRecord(content, r)
         /\ content' = Fresh!RecordWritten(content, r, data.zones, data.num, data.strings)
         /\ Fetched(r).zones = ZonesIn(LineAt(content, AsciiLine(content, r)))
         /\ Fetched(r).num = LineAt(content, AsciiLine(content, r) + 1)
         /\ Fetched(r).strings = Fresh!StringSlots(content, r)
         /\ header[r] + 3 = AsciiLine(content, r) + 1
         /\ header[r] \in Nat
<1> DEFINE h == header[r]
<1>1. ~ strayed /\ Loadable(content)
  BY DEF Write, Strays
<1>2. /\ HasRec(content, r) /\ h = HeaderLine(content, r) /\ h \in Nat
      /\ content' = WithData(content, h, data)
  BY <1>1, Positions DEF CanFetch, Write
<1>3. CanParse(content, h) /\ Fetched(r) = DataAt(content, h) /\ data.index = r
  BY <1>1, FetchedIsThere
<1> HIDE DEF h
<1>4. AsciiLine(content, r) = h + 2 /\ AsciiLine(content, r) + 1 = h + 3
      /\ String3Line(content, r) = h + 6
  BY <1>2 DEF AsciiLine, String3Line
<1>5. Fresh!CanWriteRecord(content, r)
  <2>1. Readable(content, r)
    BY <1>2, <1>3, <1>4 DEF Readable, CanParse
  <2>2. Fresh!String3Line(content, r) = h + 6 /\ Fresh!AsciiLine(content, r) = h + 2
    BY <1>2, <1>4, SameReading DEF Fresh!String3Line
  <2>3. (h + 2) + 1 = h + 3
    BY <1>2
  <2> QED BY <1>1, <1>3, <2>1, <2>2, <2>3, SameReading
      DEF Fresh!CanWriteRecord, CanParse, Fresh!Blank, Blank
<1>6. content' = Fresh!RecordWritten(content, r, data.zones, data.num, data.strings)
  <2>1. Fresh!HeaderLine(content, r) = h
    BY <1>2, SameReading
  <2> QED BY <1>2, <1>3, <2>1, SameCutting
      DEF WithData, Fresh!RecordWritten, Fresh!IndexLine, IndexLine, Fresh!HexLine, HexLine
<1>7. Fetched(r).strings = Fresh!StringSlots(content, r)
  <2>1. Fresh!AsciiLine(content, r) = h + 2
    BY <1>4, SameReading
  <2>2. \A i \in 1 .. 3 : (h + 2) + 1 + i = h + 3 + i
    BY <1>2
  <2>3. \A i \in 1 .. 3 : Fresh!LineAt(content, (h + 2) + 1 + i) = LineAt(content, h + 3 + i)
    BY <2>2, SameReading
  <2> QED BY <1>3, <2>1, <2>3 DEF DataAt, Fresh!StringSlots
<1> QED BY <1>2, <1>3, <1>4, <1>5, <1>6, <1>7 DEF DataAt, h

\* One step per operation that changes the text.
LEMMA StepIsCommand == TypeOK /\ CopiesAgree /\ [Next]_vars => [SessionStep]_vars
<1> SUFFICES ASSUME TypeOK, CopiesAgree, Next, ~ strayed',
                    last'.cmd \in {"set-zone", "set-num", "set-str", "set-hex", "set-db",
                                   "batch", "add", "rm"}
             PROVE  FreshCommand
  BY DEF SessionStep
<1>0. content \in Content /\ header \in [Rec -> Nat \cup {Absent}]
  BY DEF TypeOK
<1>1. ASSUME NEW cmd, NEW keys, NEW from, NEW to, NEW new, Did(cmd, keys, from, to, new)
      PROVE  Fresh!SessionOpen /\ Fresh!Ran(cmd, keys, from, to, new) /\ last'.cmd = cmd
  BY <1>1 DEF Did, Fresh!SessionOpen, Fresh!Ran, Report, Fresh!Report
<1>2. ASSUME NEW r \in Rec, NEW z \in ZoneIdx, NEW p \in Ranges, SetZone(r, z, p)
      PROVE  Fresh!SetZone(r, z, p)
  <2> DEFINE data == [Fetched(r) EXCEPT !.zones[z] = p]
             zs   == [ZonesIn(LineAt(content, AsciiLine(content, r))) EXCEPT ![z] = p]
  <2>1. CanFetch(r) /\ Write(r, data)
        /\ Did("set-zone", {<< r, z >>}, Len(content), Len(content) - 1, << >>)
    BY <1>2 DEF SetZone
  <2>2. Fetched(r) \in Data
    BY <2>1, FetchedType
  <2>3. /\ data.index = Fetched(r).index /\ data.num = Fetched(r).num
        /\ data.strings = Fetched(r).strings
        /\ data.zones = [Fetched(r).zones EXCEPT ![z] = p]
    BY <2>2 DEF Data
  <2> HIDE DEF data
  <2>4. /\ Fresh!CanWriteRecord(content, r)
        /\ content' = Fresh!RecordWritten(content, r, zs,
                        LineAt(content, AsciiLine(content, r) + 1),
                        Fresh!StringSlots(content, r))
    BY <2>1, <2>3, SessionWrites
  <2>5. Fresh!SessionOpen
        /\ Fresh!Ran("set-zone", {<< r, z >>}, Len(content), Len(content) - 1, << >>)
    BY <1>1, <2>1
  <2> QED BY <2>4, <2>5, SameReading DEF Fresh!SetZone
<1>3. ASSUME NEW r \in Rec, NEW v \in Value, SetNumber(r, v)
      PROVE  Fresh!SetNumber(r, v)
  <2> DEFINE data == [Fetched(r) EXCEPT !.num = NumLine(v)]
  <2>1. CanFetch(r) /\ Write(r, data)
        /\ Did("set-num", {}, Len(content), Len(content) - 1, << >>)
    BY <1>3 DEF SetNumber
  <2>2. Fetched(r) \in Data
    BY <2>1, FetchedType
  <2>3. /\ data.index = Fetched(r).index /\ data.num = NumLine(v)
        /\ data.strings = Fetched(r).strings /\ data.zones = Fetched(r).zones
    BY <2>2 DEF Data
  <2> HIDE DEF data
  <2>4. /\ Fresh!CanWriteRecord(content, r)
        /\ content' = Fresh!RecordWritten(content, r,
                        ZonesIn(LineAt(content, AsciiLine(content, r))), NumLine(v),
                        Fresh!StringSlots(content, r))
    BY <2>1, <2>3, SessionWrites
  <2>5. Fresh!SessionOpen
        /\ Fresh!Ran("set-num", {}, Len(content), Len(content) - 1, << >>)
    BY <1>1, <2>1
  <2> QED BY <2>4, <2>5, SameReading DEF Fresh!SetNumber, Fresh!NumLine, NumLine
<1>4. ASSUME NEW r \in Rec, NEW slot \in 1 .. 3, NEW text \in SlotInputs, SetString(r, slot, text)
      PROVE  Fresh!SetString(r, slot, text)
  <2> DEFINE data    == [Fetched(r) EXCEPT !.strings[slot] = text]
             strings == [Fresh!StringSlots(content, r) EXCEPT ![slot] = text]
             at      == AsciiLine(content, r) + 1 + slot
  <2>1. CanFetch(r) /\ Write(r, data)
        /\ Did("set-str", {}, header[r] + 3 + slot, header[r] + 3 + slot, text)
    BY <1>4 DEF SetString
  <2>2. Fetched(r) \in Data
    BY <2>1, FetchedType
  <2>3. /\ data.index = Fetched(r).index /\ data.num = Fetched(r).num
        /\ data.strings = [Fetched(r).strings EXCEPT ![slot] = text]
        /\ data.zones = Fetched(r).zones
    BY <2>2 DEF Data
  <2> HIDE DEF data
  <2>4. /\ Fresh!CanWriteRecord(content, r)
        /\ content' = Fresh!RecordWritten(content, r,
                        ZonesIn(LineAt(content, AsciiLine(content, r))),
                        LineAt(content, AsciiLine(content, r) + 1), strings)
        /\ at = header[r] + 3 + slot
    BY <2>1, <2>3, SessionWrites
  <2>5. Fresh!SessionOpen /\ Fresh!Ran("set-str", {}, at, at, text)
    BY <1>1, <2>1, <2>4
  <2> QED BY <2>4, <2>5, SameReading DEF Fresh!SetString
<1>5. ASSUME NEW r \in Rec, NEW zones \in HexLines, UpdateAsciiStore(r, zones)
      PROVE  FreshWrite(r, zones, LineAt(content, AsciiLine(content, r) + 1), FreshStrings(r))
  <2> DEFINE data == [Fetched(r) EXCEPT !.zones = zones]
  <2>1. CanFetch(r) /\ Write(r, data)
    BY <1>5 DEF UpdateAsciiStore
  <2>2. Fetched(r) \in Data
    BY <2>1, FetchedType
  <2>3. /\ data.index = Fetched(r).index /\ data.num = Fetched(r).num
        /\ data.strings = Fetched(r).strings /\ data.zones = zones
    BY <2>2 DEF Data
  <2> HIDE DEF data
  <2> QED BY <2>1, <2>3, SessionWrites DEF FreshWrite, FreshStrings
<1>6. ASSUME NEW r \in Rec, NEW db \in DbLines, UpdateDbLine(r, db)
      PROVE  FreshWrite(r, FreshZones(r), NumLine(db.num), db.strings)
  <2> DEFINE data == [Fetched(r) EXCEPT !.num = NumLine(db.num), !.strings = db.strings]
  <2>1. CanFetch(r) /\ Write(r, data)
    BY <1>6 DEF UpdateDbLine
  <2>2. Fetched(r) \in Data
    BY <2>1, FetchedType
  <2>3. /\ data.index = Fetched(r).index /\ data.num = NumLine(db.num)
        /\ data.strings = db.strings /\ data.zones = Fetched(r).zones
    BY <2>2 DEF Data
  <2> HIDE DEF data
  <2> QED BY <2>1, <2>3, SessionWrites DEF FreshWrite, FreshZones
<1>7. ASSUME NEW r \in Rec, NEW batch \in Batches, BatchUpdate(r, batch)
      PROVE  FreshWrite(r, FreshZones(r), NumLine(batch.num),
                        Overlaid(FreshStrings(r), batch.strings))
  <2> DEFINE data == [Fetched(r) EXCEPT !.num = NumLine(batch.num),
                                        !.strings = Overlaid(@, batch.strings)]
  <2>1. CanFetch(r) /\ Write(r, data)
    BY <1>7 DEF BatchUpdate
  <2>2. Fetched(r) \in Data
    BY <2>1, FetchedType
  <2>3. /\ data.index = Fetched(r).index /\ data.num = NumLine(batch.num)
        /\ data.strings = Overlaid(Fetched(r).strings, batch.strings)
        /\ data.zones = Fetched(r).zones
    BY <2>2 DEF Data
  <2> HIDE DEF data
  <2> QED BY <2>1, <2>3, SessionWrites DEF FreshWrite, FreshZones, FreshStrings
<1>8. ASSUME NEW r \in Rec, AddIndex(r)
      PROVE  Fresh!AddIndex(r)
  <2>1. ~ strayed /\ Loadable(content)
    BY <1>8 DEF AddIndex, Strays
  <2>2. ~ HasRec(content, r)
    BY <1>8, <2>1, Positions DEF AddIndex
  <2>3. Fresh!SessionOpen
        /\ Fresh!Ran("add", {}, Len(content), Len(content) - 1, << >>)
    BY <1>1, <1>8 DEF AddIndex
  <2>4. content' = content \o << Marker, IndexLine(r), HexLine([z \in ZoneIdx |-> NoZone]),
                                 NumLine(Zero), Blank, Blank, Blank, Blank >>
    BY <1>8 DEF AddIndex
  <2> QED BY <2>1, <2>2, <2>3, <2>4, SameReading
      DEF Fresh!AddIndex, Fresh!Marker, Marker, Fresh!IndexLine, IndexLine, Fresh!HexLine,
          HexLine, Fresh!ZoneIdx, ZoneIdx, Fresh!NoZone, NoZone, Fresh!NumLine, NumLine,
          Fresh!Blank, Blank
<1>9. ASSUME NEW r \in Rec, NEW canonical \in BOOLEAN, RemoveIndex(r, canonical)
      PROVE  Fresh!RemoveIndex(r)
  <2> DEFINE h == header[r]
  <2>1. /\ ~ strayed /\ Loadable(content) /\ h # Absent /\ h + 7 <= Len(Lines(content))
        /\ content' = SpliceAndShift(content, h, h + 6, << >>)
        /\ Loadable(Splice(content, h, h + 6, << >>))
        /\ Did("rm", {r} \X ZoneIdx, h, h + 6, << >>)
    BY <1>9 DEF RemoveIndex, Strays
  <2>2. HasRec(content, r) /\ h = HeaderLine(content, r) /\ h \in Nat
    BY <2>1, Positions
  <2>3. Readable(content, r)
    <3>1. Len(Lines(content)) \in Nat
      BY <1>0, LinesType
    <3>2. h + 6 < Len(Lines(content))
      BY <2>1, <2>2, <3>1
    <3> QED BY <2>2, <3>2 DEF Readable, String3Line
  <2>4. Fresh!SessionOpen /\ Fresh!Ran("rm", {r} \X ZoneIdx, h, h + 6, << >>)
    BY <1>1, <2>1
  <2>5. Fresh!HeaderLine(content, r) = h /\ Fresh!Readable(content, r) /\ Fresh!Loadable(content)
    BY <2>1, <2>2, <2>3, SameReading
  <2> HIDE DEF h
  <2>6. /\ Fresh!Loadable(Fresh!Splice(content, h, h + 6, << >>))
        /\ content' = Fresh!SpliceAndShift(content, h, h + 6, << >>)
    BY <2>1, SameReading, SameCutting
  <2> QED BY <2>4, <2>5, <2>6 DEF Fresh!RemoveIndex, Fresh!ZoneIdx, ZoneIdx
<1>10. ASSUME NEW r \in Rec, Get(r)
       PROVE  FALSE
  BY <1>1, <1>10 DEF Get
<1>11. ASSUME Save \/ Reload \/ Reopen \/ Create
       PROVE  FALSE
  <2>1. CASE Create
    BY <2>1 DEF Create, Report
  <2>2. CASE Save \/ Reload \/ Reopen
    <3>1. \/ Did("save", {}, 0, 0, << >>) \/ Did("reload", {}, 0, 0, << >>)
          \/ Did("reopen", {}, 0, 0, << >>)
      BY <2>2 DEF Save, Reload, Reopen
    <3>2. last'.cmd \in {"save", "reload", "reopen"}
      BY <1>1, <3>1
    <3> QED BY <3>2
  <2> QED BY <1>11, <2>1, <2>2
<1>12. ZoneIdx = Fresh!ZoneIdx
  BY DEF Fresh!ZoneIdx, ZoneIdx
<1> QED BY <1>2, <1>3, <1>4, <1>5, <1>6, <1>7, <1>8, <1>9, <1>10, <1>11, <1>12
       DEF Next, FreshCommand

\* A Store that stays open can be taken for as many processes as it does
\* operations: each change it makes to its text is the step of a command that
\* scans and parses the file anew (ZoneEditor's set-zone, set-num, set-str, add
\* and rm among them, of which it is shown that every zone keeps its lines).
THEOREM SessionsRunCommands == Spec => SessionsAreCommands
<1>1. TypeOK /\ CopiesAgree /\ [Next]_vars => [SessionStep]_vars
  BY StepIsCommand
<1> QED BY <1>1, TypeCorrect, CopiesStayTrue, PTL DEF Spec, SessionsAreCommands
=============================================================================
