---------------------------- MODULE MCZoneEditor ----------------------------
(***************************************************************************)
(* Small documents for ZoneEditor: two records of at most two zones and    *)
(* half a dozen payload lines, with the records above, below and between   *)
(* their payload, and with a record that opens the file.                   *)
(***************************************************************************)
EXTENDS ZoneEditor

MCRec   == {1, 2}
MCText  == {"a", "b", "c", "d", "e", "s", "new", "more"}
MCValue == {"0", "9"}
MCZero  == "0"

T(t) == TextLine(t)
Pair(s, e) == [start |-> s, end |-> e]

\* A record with one string, the first, filled in.
Record(r, z0, z1, tail) ==
  << Marker, IndexLine(r),
     HexLine([z \in ZoneIdx |-> IF z = 0 THEN z0 ELSE IF z = 1 THEN z1 ELSE NoZone]),
     NumLine("0"), T("s"), Blank, tail >>

\* Records first: payload from line 14, the zones of record 1 around that of 2.
RecordsAbove ==
  Record(1, Pair(14, 15), Pair(18, 18), T("s"))
    \o Record(2, Pair(16, 17), NoZone, Blank)
    \o << T("a"), T("b"), T("c"), T("d"), T("e"), T("s") >>

\* Payload first, records after it, a footer that keeps the end of file alive.
RecordsBelow ==
  << T("s"), T("a"), T("b"), T("c") >>
    \o Record(1, Pair(1, 2), NoZone, T("s"))
    \o Record(2, Pair(3, 3), NoZone, Blank)
    \o << T("e") >>

\* Payload between the records, and a file that ends in a newline.
RecordsBetween ==
  Record(1, Pair(14, 15), NoZone, T("s"))
    \o << T("a"), T("b") >>
    \o << T("c") >>
    \o Record(2, Pair(8, 9), Pair(18, 18), T("s"))
    \o << T("d"), T("e"), Blank >>

\* A one-line zone right under the record the file opens with.
RecordOnTop ==
  Record(1, NoZone, NoZone, Blank)
    \o << T("a") >>
    \o Record(2, Pair(7, 7), Pair(15, 16), T("s"))
    \o << T("b"), T("c"), T("e") >>

\* The second record begins among the strings of the first, and its hex-words are
\* the last of them: scan_content only asks that six lines follow a marker.
RecordInARecord ==
  << Marker, IndexLine(1), HexLine([z \in ZoneIdx |-> NoZone]), NumLine("0"),
     Marker, IndexLine(2), HexLine([z \in ZoneIdx |-> IF z = 0 THEN Pair(12, 12) ELSE NoZone]),
     NumLine("0"), T("s"), T("s"), T("s") >>
    \o << T("a"), T("b"), T("c") >>

\* The zone of record 2 is the last of several empty lines at the end of the file.
EmptyLinesBelow ==
  Record(1, Pair(14, 15), NoZone, T("s"))
    \o Record(2, Pair(18, 18), NoZone, T("s"))
    \o << T("a"), T("b"), T("c"), Blank, Blank, Blank >>

MCLayouts == {RecordsAbove, RecordsBelow, RecordsBetween, RecordOnTop, RecordInARecord,
              EmptyLinesBelow}

MCInputs     == {<< >>, << T("new") >>, << T("new"), T("more"), T("new") >>}
MCSlotInputs == {<< T("more") >>, << Blank >>}
\* Line 0, which an empty zone also names; a pair in the wrong order.
MCRanges     == {Pair(0, 0), Pair(8, 9), Pair(14, 15), Pair(18, 18), Pair(18, 16)}
=============================================================================
