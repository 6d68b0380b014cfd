--------------------------- MODULE MCStoreSession ---------------------------
(***************************************************************************)
(* Small documents for StoreSession: two records with a zone each, one     *)
(* above and one below the other, and room for a third index.              *)
(***************************************************************************)
EXTENDS StoreSession, TLC

MCRec   == {1, 2, 3}
MCText  == {"a", "b", "s", "new"}
MCValue == {"0", "9"}
MCZero  == "0"

T(t) == TextLine(t)
Pair(s, e) == [start |-> s, end |-> e]

Record(r, p, tail) ==
  << Marker, IndexLine(r), HexLine([z \in ZoneIdx |-> IF z = 0 THEN p ELSE NoZone]),
     NumLine("0"), T("s"), Blank, tail >>

\* Records first; each names payload below both.
RecordsAbove ==
  Record(1, Pair(14, 15), T("s")) \o Record(2, Pair(16, 16), T("s"))
    \o << T("a"), T("b"), T("a"), Blank >>

\* The second record ends the file, and names payload above itself; the third
\* string of the first is empty.
RecordAtTheEnd ==
  Record(1, Pair(7, 7), Blank) \o << T("a") >> \o Record(2, Pair(7, 7), T("s"))

\* A last record that the next rewrite cuts short.
EmptyAtTheEnd == Record(1, NoZone, T("s")) \o Record(2, Pair(7, 7), Blank)

\* The second record begins among the strings of the first: scan_content only
\* asks that six lines follow a marker.
RecordInARecord ==
  << Marker, IndexLine(1), HexLine([z \in ZoneIdx |-> NoZone]), NumLine("0"), T("s"),
     Marker, IndexLine(2), HexLine([z \in ZoneIdx |-> NoZone]), NumLine("0"),
     T("s"), T("s"), T("s") >>

MCLayouts    == {RecordsAbove, RecordAtTheEnd, EmptyAtTheEnd, RecordInARecord}
MCSlotInputs == {<< T("new") >>, << Blank >>, << T("new"), Blank >>}
MCRanges     == {Pair(15, 16)}

MCHexLines == {[z \in ZoneIdx |-> IF z = 1 THEN Pair(14, 14) ELSE NoZone]}

\* One whose strings all change places, one that cannot be parsed again; a
\* batch that touches the outer strings only.
MCDbLines ==
  {[num |-> "9", strings |-> << << Blank >>, << T("new") >>, << T("new") >> >>],
   [num |-> "0", strings |-> << << T("new") >>, << T("new") >>, << Blank >> >>]}
MCBatches == {[num |-> "9", strings |-> 1 :> << T("new") >> @@ 3 :> << T("new") >>]}
MCTitle   == "a"
=============================================================================
