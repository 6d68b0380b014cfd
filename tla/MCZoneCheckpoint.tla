-------------------------- MODULE MCZoneCheckpoint --------------------------
(***************************************************************************)
(* Small documents for ZoneCheckpoint, fingerprints of two lines.          *)
(***************************************************************************)
EXTENDS ZoneCheckpoint

CONSTANTS aa, bb, cc, dd, ss, zero

MCRec   == {1, 2}
MCText  == {aa, bb, cc, dd, ss}
MCValue == {zero}

T(t) == TextLine(t)
Pair(from, to) == [start |-> from, end |-> to]

Record(r, z0, z1) ==
  << Marker, IndexLine(r),
     HexLine([z \in ZoneIdx |-> IF z = 0 THEN z0 ELSE IF z = 1 THEN z1 ELSE NoZone]),
     NumLine(zero), T(ss), Blank, T(ss) >>

\* One record over a long zone, of which the fingerprint sees the ends, and a
\* zone of one line.
LongZone ==
  Record(1, Pair(8, 12), Pair(14, 14))
    \o << T(ss), T(aa), T(bb), T(cc), T(bb), T(aa), T(ss), T(dd), T(cc) >>

\* Two records around their payload; the zones are neighbours.
Neighbours ==
  Record(1, Pair(7, 8), NoZone) \o << T(aa), T(bb), T(cc), T(dd) >>
    \o Record(2, Pair(9, 10), Pair(18, 18)) \o << T(aa) >>

\* Payload first, zones of one line, and the record last: its third string is
\* empty, and an empty line ends the file.
PayloadAbove ==
  << T(dd), T(aa), T(bb), T(cc) >>
    \o SubSeq(Record(1, Pair(1, 1), Pair(2, 3)), 1, 6) \o << Blank, Blank, Blank >>

\* A zone that ends in the empty line that ends the file.
EmptyLineBelow ==
  Record(1, Pair(8, 8), Pair(10, 11)) \o << T(ss), T(aa), T(dd), T(bb), Blank, Blank >>

MCLayouts == {LongZone, Neighbours, PayloadAbove, EmptyLineBelow}

\* A line more or less at the top, below it, in a zone; a line typed over; texts
\* that stand somewhere else again; the tail cut off; a record's marker gone.
MCEdits ==
  {<< 0, -1, << T(dd) >> >>, << 7, 7, << >> >>, << 10, 9, << T(dd), T(dd) >> >>,
   << 8, 8, << T(dd) >> >>, << 10, 10, << T(aa) >> >>,
   << 9, 8, << T(aa), T(bb) >> >>, << 15, 14, << T(aa), T(bb), T(cc), T(bb), T(aa), T(dd) >> >>,
   << 13, 18, << >> >>, << 0, 0, << T(ss) >> >>, << 0, 0, << >> >>}
MCHandPairs == {<< 1, 0, Pair(9, 10) >>, << 1, 1, Pair(30, 31) >>}
=============================================================================
