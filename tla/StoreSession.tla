---------------------------- MODULE StoreSession ----------------------------
(***************************************************************************)
(* A Store that stays open (store.rs): the content it holds, the positions *)
(* of the records as of its last scan, and the records it has parsed once  *)
(* and keeps.  Three copies of one thing, brought up to date at different  *)
(* moments; the question is whether a session of a Store does what the     *)
(* same commands do one process at a time (ZoneEditor).                    *)
(*                                                                         *)
(* How content reaches the disk is SavedFile's; here a save is one step.   *)
(***************************************************************************)
EXTENDS Document

CONSTANTS
  Layouts,     \* the documents a session may start from
  SlotInputs,  \* texts given to update_string, cut at their newlines
  Ranges,      \* line pairs given to update_zone
  HexLines,    \* zones given to update_ascii_store, three at a time
  DbLines,     \* given to update_db_line: [num, strings]
  Batches,     \* given to batch_update: [num, strings], some of the strings
  Title,       \* the heading of a document made anew
  Zero,        \* the numeric line of a fresh index
  MaxSteps     \* bound on the length of a session

ASSUME SessionAssumption ==
  /\ \A c \in Layouts : c \in Content /\ Loadable(c)
  /\ \A s \in SlotInputs : s \in Seq(Prose) /\ s # << >>
  /\ Ranges \subseteq ZonePair
  /\ HexLines \subseteq Zones
  /\ \A d \in DbLines : d.num \in Value /\ d.strings \in [1 .. 3 -> SlotInputs]
  /\ \A b \in Batches :
       /\ b.num \in Value /\ DOMAIN b.strings \subseteq 1 .. 3
       /\ \A i \in DOMAIN b.strings : b.strings[i] \in SlotInputs
  /\ Title \in Text
  /\ Zero \in Value
  /\ MaxSteps \in Nat

VARIABLES
  file,       \* the document on disk
  content,    \* the document in memory
  header,     \* where the last scan saw the marker of each record
  cache,      \* the records parsed, or written, since
  dirty,      \* content has been modified
  autoSave,   \* the configuration of the Store
  last,       \* what the last operation did; read only by the properties
  steps,      \* operations so far
  strayed     \* history: the session has gone where a fresh process would not

vars == << file, content, header, cache, dirty, autoSave, last, steps, strayed >>

(***************************************************************************)
(* Positions and records.                                                  *)
(***************************************************************************)
Absent == -1

\* scan_content, by registry index.
Scan(c) == [r \in Rec |-> IF HasRec(c, r) THEN HeaderLine(c, r) ELSE Absent]

\* SectionData; the three strings may hold newlines.
Data == [index : Rec, zones : Zones, num : [kind : {"num"}, value : Value],
         strings : [1 .. 3 -> Seq(Line)]]
NotCached == [index |-> Absent]

Empty == [r \in Rec |-> NotCached]

\* extract_section_data and SectionData::from_lines at a marker at line h.
CanParse(c, h) ==
  /\ h + 6 < Len(Lines(c))
  /\ LineAt(c, h + 1).kind = "index"
  /\ IsHexWords(LineAt(c, h + 2))
  /\ LineAt(c, h + 3).kind = "num"
  /\ LineAt(c, h + 6) # Blank

\* Mutant: the numbers are taken from the line after theirs.
DataAtLate(c, h) ==
  [index   |-> LineAt(c, h + 1).rec,
   zones   |-> ZonesIn(LineAt(c, h + 2)),
   num     |-> LineAt(c, h + 4),
   strings |-> [i \in 1 .. 3 |-> << LineAt(c, h + 3 + i) >>]]

DataAt(c, h) ==
  [index   |-> LineAt(c, h + 1).rec,
   zones   |-> ZonesIn(LineAt(c, h + 2)),
   num     |-> LineAt(c, h + 3),
   strings |-> [i \in 1 .. 3 |-> << LineAt(c, h + 3 + i) >>]]

\* update_section_data at a marker at line h.
WithData(c, h, data) ==
  Splice(c, h + 1, h + 6,
         << IndexLine(data.index), HexLine(data.zones), data.num >>
           \o data.strings[1] \o data.strings[2] \o data.strings[3])

\* get_section and get_section_data succeed.
CanFetch(r) ==
  /\ header[r] # Absent
  /\ cache[r] # NotCached \/ CanParse(content, header[r])

\* get_section_data: the cache first.
Fetched(r) == IF cache[r] # NotCached THEN cache[r] ELSE DataAt(content, header[r])

(***************************************************************************)
(* Operations.                                                             *)
(***************************************************************************)
Report(cmd, keys, from, to, new) ==
  [cmd |-> cmd, keys |-> keys, from |-> from, to |-> to, new |-> new]

Did(cmd, keys, from, to, new) ==
  /\ steps < MaxSteps
  /\ steps' = steps + 1
  /\ last' = Report(cmd, keys, from, to, new)
  /\ UNCHANGED autoSave

\* A fresh process would not have opened a text that cannot be loaded.
Strays(how) == strayed' = (strayed \/ how \/ ~ Loadable(content))

\* The content is modified and, with auto_save, saved.
Modified ==
  IF autoSave
  THEN file' = content' /\ dirty' = FALSE
  ELSE dirty' = TRUE /\ UNCHANGED file

\* The getters leave the record in the cache.
Get(r) ==
  /\ CanFetch(r)
  /\ cache[r] = NotCached
  /\ Did("get", {}, Len(content), Len(content) - 1, << >>)
  /\ cache' = [cache EXCEPT ![r] = Fetched(r)]
  /\ UNCHANGED << file, content, header, dirty, strayed >>

\* The cache keeps a text with newlines as one string, and an empty third
\* string, which a fresh process would not get past.
Unreadable(strings) ==
  (\E i \in 1 .. 3 : Len(strings[i]) # 1) \/ strings[3] = << Blank >>

\* Another record begins among the lines of the one at h, or that one among its
\* lines: scan_content takes both, and writing one writes over the other.
Entangled(h) == \E g \in Headers(content) \ {h} : g - h \in -6 .. 6

\* Mutant: the cache keeps what it had.
WriteUncached(r, data) ==
  /\ CanFetch(r)
  /\ header[r] + 6 < Len(Lines(content))
  /\ content' = WithData(content, header[r], data)
  /\ cache' = [cache EXCEPT ![r] = Fetched(r)]
  /\ Modified
  /\ Strays(Unreadable(data.strings) \/ Entangled(header[r]))
  /\ UNCHANGED header

\* write_section_data: the header is not scanned again.
Write(r, data) ==
  /\ CanFetch(r)
  /\ header[r] + 6 < Len(Lines(content))
  /\ content' = WithData(content, header[r], data)
  /\ cache' = [cache EXCEPT ![r] = data]
  /\ Modified
  /\ Strays(Unreadable(data.strings) \/ Entangled(header[r]))
  /\ UNCHANGED header

SetZone(r, z, p) ==
  /\ CanFetch(r)
  /\ Did("set-zone", {<< r, z >>}, Len(content), Len(content) - 1, << >>)
  /\ Write(r, [Fetched(r) EXCEPT !.zones[z] = p])

SetNumber(r, v) ==
  /\ CanFetch(r)
  /\ Did("set-num", {}, Len(content), Len(content) - 1, << >>)
  /\ Write(r, [Fetched(r) EXCEPT !.num = NumLine(v)])

SetString(r, slot, text) ==
  LET at == header[r] + 3 + slot
  IN  /\ CanFetch(r)
      /\ Did("set-str", {}, at, at, text)
      /\ Write(r, [Fetched(r) EXCEPT !.strings[slot] = text])

\* update_ascii_store: the three zones at once.
UpdateAsciiStore(r, zones) ==
  /\ CanFetch(r)
  /\ Did("set-hex", {r} \X ZoneIdx, Len(content), Len(content) - 1, << >>)
  /\ Write(r, [Fetched(r) EXCEPT !.zones = zones])

\* update_db_line: the numbers and all three strings.
UpdateDbLine(r, db) ==
  /\ CanFetch(r)
  /\ Did("set-db", {}, Len(content), Len(content) - 1, << >>)
  /\ Write(r, [Fetched(r) EXCEPT !.num = NumLine(db.num), !.strings = db.strings])

\* Some of the three strings give way to others.
Overlaid(old, some) ==
  [i \in 1 .. 3 |-> IF i \in DOMAIN some THEN some[i] ELSE old[i]]

\* batch_update: some of the strings, on a copy that is written once.
BatchUpdate(r, batch) ==
  /\ CanFetch(r)
  /\ Did("batch", {}, Len(content), Len(content) - 1, << >>)
  /\ Write(r, [Fetched(r) EXCEPT !.num = NumLine(batch.num),
                                        !.strings = Overlaid(@, batch.strings)])

\* Mutant: the last of the three empty strings is forgotten.
AddIndexShort(r) ==
  /\ header[r] = Absent
  /\ Did("add", {}, Len(content), Len(content) - 1, << >>)
  /\ content' = content \o << Marker, IndexLine(r), HexLine([z \in ZoneIdx |-> NoZone]),
                              NumLine(Zero), Blank, Blank, Blank >>
  /\ header' = Scan(content')
  /\ cache' = Empty
  /\ Modified
  /\ Strays(FALSE)

\* add_index; a scan that fails leaves the text in memory, unsaved and dirty.
AddIndex(r) ==
  /\ header[r] = Absent
  /\ Did("add", {}, Len(content), Len(content) - 1, << >>)
  /\ content' = content \o << Marker, IndexLine(r), HexLine([z \in ZoneIdx |-> NoZone]),
                              NumLine(Zero), Blank, Blank, Blank, Blank >>
  /\ IF Loadable(content')
     THEN /\ header' = Scan(content')
          /\ cache' = Empty
          /\ Modified
          /\ Strays(FALSE)
     ELSE /\ dirty' = TRUE
          /\ Strays(TRUE)
          /\ UNCHANGED << file, header, cache >>

\* Some cached record of another index names lines beyond h + 6.
OutdatedBy(r, h) ==
  \E q \in Rec \ {r} :
    /\ cache[q] # NotCached
    /\ \E z \in ZoneIdx : ShiftPair(cache[q].zones[z], h + 7, -7) # cache[q].zones[z]

\* remove_section drops the marker and its six lines and shifts the zones in
\* the text.  It takes the entry out of the cache that has the very name it was
\* given, which need not be the key (i64 for index:64); the other records stay.
RemoveIndex(r, canonical) ==
  LET h    == header[r]
      gone == Splice(content, h, h + 6, << >>)
  IN  /\ h # Absent
      /\ h + 7 <= Len(Lines(content))
      /\ Did("rm", {r} \X ZoneIdx, h, h + 6, << >>)
      /\ IF Loadable(gone)
         THEN /\ content' = SpliceAndShift(content, h, h + 6, << >>)
              /\ IF Loadable(content')
                 THEN /\ header' = Scan(content')
                      /\ cache' = IF canonical
                                  THEN [cache EXCEPT ![r] = NotCached]
                                  ELSE cache
                      /\ Modified
                      /\ Strays(OutdatedBy(r, h) \/ \E g \in Headers(content) : Entangled(g))
                 ELSE /\ dirty' = TRUE
                      /\ Strays(TRUE)
                      /\ UNCHANGED << file, header, cache >>
         ELSE /\ content' = gone
              /\ Strays(TRUE)
              /\ UNCHANGED << file, header, cache, dirty >>

Save ==
  /\ dirty
  /\ Did("save", {}, 0, 0, << >>)
  /\ file' = content
  /\ dirty' = FALSE
  /\ UNCHANGED << content, header, cache, strayed >>

\* reload; a scan that fails leaves the old positions with the new content.
Reload ==
  /\ Did("reload", {}, 0, 0, << >>)
  /\ content' = file
  /\ IF Loadable(file)
     THEN /\ header' = Scan(file)
          /\ cache' = Empty
          /\ dirty' = FALSE
          /\ strayed' = FALSE
     ELSE /\ Strays(TRUE)
          /\ UNCHANGED << header, cache, dirty >>
  /\ UNCHANGED file

\* Drop, which saves what is dirty, and a Store opened anew.
Reopen ==
  /\ Did("reopen", {}, 0, 0, << >>)
  /\ file' = IF dirty /\ autoSave THEN content ELSE file
  /\ Loadable(file')
  /\ content' = file'
  /\ header' = Scan(file')
  /\ cache' = Empty
  /\ dirty' = FALSE
  /\ strayed' = FALSE

\* create, over what stood at that path; the new Store saves as it goes.
Create ==
  /\ steps < MaxSteps
  /\ steps' = steps + 1
  /\ last' = Report("create", {}, 0, 0, << >>)
  /\ content' = << TextLine(Title), Blank, Blank >>
  /\ file' = content'
  /\ header' = Scan(content')
  /\ cache' = Empty
  /\ dirty' = FALSE
  /\ autoSave' = TRUE
  /\ strayed' = FALSE

Init ==
  /\ content \in Layouts
  /\ file = content
  /\ header = Scan(content)
  /\ cache = Empty
  /\ dirty = FALSE
  /\ autoSave \in BOOLEAN
  /\ last = Report("open", {}, Len(content), Len(content) - 1, << >>)
  /\ steps = 0
  /\ strayed = FALSE

Next ==
  \/ \E r \in Rec : Get(r) \/ AddIndex(r)
  \/ \E r \in Rec, z \in ZoneIdx, p \in Ranges : SetZone(r, z, p)
  \/ \E r \in Rec, v \in Value : SetNumber(r, v)
  \/ \E r \in Rec, slot \in 1 .. 3, text \in SlotInputs : SetString(r, slot, text)
  \/ \E r \in Rec, zones \in HexLines : UpdateAsciiStore(r, zones)
  \/ \E r \in Rec, db \in DbLines : UpdateDbLine(r, db)
  \/ \E r \in Rec, batch \in Batches : BatchUpdate(r, batch)
  \/ \E r \in Rec, canonical \in BOOLEAN : RemoveIndex(r, canonical)
  \/ Save \/ Reload \/ Reopen \/ Create

Spec == Init /\ [][Next]_vars

(***************************************************************************)
(* Properties.                                                             *)
(***************************************************************************)
SessionCommands == {"open", "get", "set-zone", "set-num", "set-str", "add", "rm",
                    "set-hex", "set-db", "batch", "save", "reload", "reopen", "create"}

\* The text, what was parsed of it and the positions are well formed: no parsed
\* record holds a line of another kind.
TypeOK ==
  /\ file \in Content /\ content \in Content
  /\ header \in [Rec -> Nat \cup {Absent}]
  /\ cache \in [Rec -> Data \cup {NotCached}]
  /\ dirty \in BOOLEAN /\ autoSave \in BOOLEAN /\ strayed \in BOOLEAN
  /\ last \in [cmd : SessionCommands, keys : SUBSET (Rec \X ZoneIdx), from : Nat,
               to : Nat \cup {-1}, new : Seq(Line)]
  /\ steps \in 0 .. MaxSteps

\* Unless the session has strayed, the three copies agree: every record is where
\* the last scan saw it although the writers do not scan again, and what the
\* cache holds of it is what the text says there.  (Each rewrite takes an empty
\* line off the end of the text, which can cut a record short.)  The file is
\* behind only while the Store knows it is, and never if it saves as it goes.
CopiesAgree ==
  ~ strayed /\ Loadable(content) =>
    /\ dirty \/ file = content
    /\ ~ (dirty /\ autoSave)
    /\ header = Scan(content)
    /\ \A r \in Rec : header[r] # Absent /\ cache[r] # NotCached =>
         /\ CanParse(content, header[r])
         /\ cache[r] = DataAt(content, header[r])

Fresh == INSTANCE ZoneEditor WITH
  doc <- content, commands <- steps, MaxCommands <- MaxSteps, Inputs <- {}

FreshZones(r)   == ZonesIn(LineAt(content, AsciiLine(content, r)))
FreshStrings(r) == Fresh!StringSlots(content, r)

\* One record read by a fresh process and written back with these fields.
FreshWrite(r, zones, num, strings) ==
  /\ Fresh!CanWriteRecord(content, r)
  /\ content' = Fresh!RecordWritten(content, r, zones, num, strings)

FreshCommand ==
  \/ \E r \in Rec, z \in ZoneIdx, p \in Ranges : Fresh!SetZone(r, z, p)
  \/ \E r \in Rec, v \in Value : Fresh!SetNumber(r, v)
  \/ \E r \in Rec, slot \in 1 .. 3, text \in SlotInputs : Fresh!SetString(r, slot, text)
  \/ \E r \in Rec, zones \in HexLines :
       FreshWrite(r, zones, LineAt(content, AsciiLine(content, r) + 1), FreshStrings(r))
  \/ \E r \in Rec, db \in DbLines :
       FreshWrite(r, FreshZones(r), NumLine(db.num), db.strings)
  \/ \E r \in Rec, batch \in Batches :
       FreshWrite(r, FreshZones(r), NumLine(batch.num), Overlaid(FreshStrings(r), batch.strings))
  \/ \E r \in Rec : Fresh!AddIndex(r) \/ Fresh!RemoveIndex(r)

SessionStep ==
  ~ strayed' /\ last'.cmd \in {"set-zone", "set-num", "set-str", "set-hex", "set-db",
                               "batch", "add", "rm"}
    => FreshCommand

\* A session does to the document what its operations do one process at a time,
\* each of which reads and scans the file anew (ZoneEditor): neither the cache
\* nor the positions of the last scan show in the text.
SessionsAreCommands == [][SessionStep]_vars
=============================================================================
