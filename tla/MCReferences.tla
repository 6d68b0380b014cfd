---------------------------- MODULE MCReferences ----------------------------
(***************************************************************************)
(* Small documents for References: texts are sequences of letters, digits  *)
(* and spelled coordinates, so that values can travel between fields of    *)
(* different kinds.                                                        *)
(***************************************************************************)
EXTENDS References

CONSTANTS aa, bb, cc, dd, ee, ss, zero, nine   \* letters and digits

MCRec      == {1, 2}
MCNumerals == {<< zero >>, << nine >>}
MCZero     == [i \in 0 .. 8 |-> << zero >>]
MCValue    == [0 .. 8 -> MCNumerals]

MCText == Seq({aa, bb, cc, dd, ee, ss, zero, nine} \cup ZonePair) \ {<< >>}

T(t) == TextLine(<< t >>)
Pair(from, to) == [start |-> from, end |-> to]

Record(r, z0, z1, tail) ==
  << Marker, IndexLine(r),
     HexLine([z \in ZoneIdx |-> IF z = 0 THEN z0 ELSE IF z = 1 THEN z1 ELSE NoZone]),
     NumLine(MCZero), T(ss), Blank, tail >>

\* Records first; the zones of record 1 stand around that of record 2.
RecordsAbove ==
  Record(1, Pair(14, 15), Pair(18, 18), T(ss))
    \o Record(2, Pair(16, 17), NoZone, T(nine))
    \o << T(aa), T(bb), T(cc), T(dd), T(ee), T(ss) >>

\* Payload between the records, a blank line in a zone, a file ending in one.
RecordsBetween ==
  Record(1, Pair(8, 9), NoZone, T(ss))
    \o << T(zero), T(aa), Blank >>
    \o Record(2, Pair(17, 18), Pair(19, 19), T(ss))
    \o << T(bb), T(cc), T(dd), T(ee), Blank >>

\* Payload on both sides of the records.
RecordsAmid ==
  << T(aa), T(bb), T(cc), T(dd) >>
    \o Record(1, Pair(1, 1), Pair(18, 18), T(ss))
    \o Record(2, Pair(3, 3), Pair(20, 20), T(nine))
    \o << T(ee), T(aa), T(bb), T(ss) >>

\* A record with an empty third string and two empty lines end the file.
EmptyEnd ==
  << T(aa), T(bb), T(cc), Blank, Blank >>
    \o Record(1, Pair(1, 2), Pair(3, 4), T(ss))
    \o Record(2, Pair(0, 0), NoZone, Blank) \o << Blank >>

\* ... here a record whose hex-words are empty does.
RecordLast ==
  << T(aa), T(bb), T(cc), T(dd) >>
    \o Record(1, Pair(0, 1), NoZone, T(ss))
    \o << Marker, IndexLine(2), Blank, NumLine(MCZero), T(ee), Blank, T(ss), Blank >>

\* ... and here a zone of empty lines, and another one lies past the end.
EmptyZoneLast ==
  Record(1, Pair(14, 15), Pair(17, 18), T(ss))
    \o Record(2, Pair(18, 18), Pair(21, 22), T(nine))
    \o << T(aa), T(bb), T(cc), Blank, Blank, Blank >>

\* The strings of record 1 are the first lines of record 2, which has a zone with
\* its ends in the wrong order.
RecordInARecord ==
  << Marker, IndexLine(1),
     HexLine([z \in ZoneIdx |-> IF z = 0 THEN Pair(13, 14) ELSE NoZone]),
     NumLine(MCZero) >>
    \o Record(2, Pair(15, 15), Pair(17, 16), T(ss))
    \o << T(dd), T(bb), T(ee), T(aa), T(bb), T(cc), T(dd), T(ee) >>

MCLayouts == {RecordsAbove, RecordsBetween, RecordsAmid, EmptyEnd, RecordLast,
              EmptyZoneLast, RecordInARecord}
MCInputs  == {<< T(ee) >>, << T(ee), T(ss), T(ee) >>}
MCSlotInputs == {}
MCZeroNumeral == << zero >>
MCRanges  == {Pair(14, 15), Pair(18, 18), Pair(18, 16)}

Ref(kind, r, slot) == [kind |-> kind, rec |-> r, slot |-> slot]
Typed(ts) == [kind |-> "text", value |-> ts]

MCTargets ==
  {Ref("string", r, i) : r \in MCRec, i \in 1 .. 3}
    \cup {Ref("number", r, 4) : r \in MCRec}
    \cup {Ref(k, r, 0) : k \in {"numbers", "hexline"}, r \in MCRec}
    \cup {Ref(k, r, z) : k \in {"zone", "zonehex"}, r \in MCRec, z \in {0, 1}}
    \cup {Literal(p[1], p[2]) : p \in {<< 0, 0 >>, << 1, 2 >>, << 7, 7 >>, << 8, 9 >>, << 14, 15 >>,
                                       << 17, 17 >>, << 18, 19 >>}}
MCSources ==
  MCTargets \cup {Ref("index", r, 0) : r \in MCRec}
    \cup {Typed(<< T(nine) >>), Typed(<< T(ee), T(ss) >>), Typed(<< T(ee), Blank >>),
          Typed(<< Blank >>), Typed(<< Blank, T(nine) >>),
          Typed(<< Spelled(Pair(16, 17)) >>)}
=============================================================================
