------------------------------- MODULE MCServe -------------------------------
(***************************************************************************)
(* Two clients, three documents and one request of every kind the answers  *)
(* can be told apart by.                                                   *)
(***************************************************************************)
EXTENDS Serve, TLC

CONSTANTS aa, bb, unity, zero, dot   \* letters, b none of ASCII's, digits, a decimal point

MCRec      == {1}
MCText     == Seq({aa, bb, unity, zero, dot}) \ {<< >>}
MCNumerals == {<< zero >>, << unity >>, << unity, dot >>}
MCWorth    == [n \in MCNumerals |-> IF n = << zero >> THEN 0 ELSE 1]
MCNought   == << zero >>
MCHexWord  == (<< zero >> :> 0) @@ (<< zero, aa, unity >> :> 8)
MCShort    == << aa, unity >> :> [kind |-> "zone", rec |-> 1, slot |-> 0]
MCNumbered == << unity >> :> 1
MCValue    == [0 .. 8 -> MCNumerals]

T(t) == TextLine(t)
Pair(from, to) == [start |-> from, end |-> to]

Record(z0, z2, tail) ==
  << Marker, IndexLine(1),
     HexLine([z \in ZoneIdx |-> IF z = 0 THEN z0 ELSE IF z = 2 THEN z2 ELSE NoZone]),
     NumLine([i \in 0 .. 8 |-> IF i = 0 THEN << unity, dot >>
                            ELSE IF i = 1 THEN << unity >> ELSE << zero >>]),
     T(<< aa >>), Blank, tail >>

\* The third zone ends after the file.
Sound == Record(Pair(7, 8), Pair(8, 30), T(<< unity >>)) \o << T(<< aa, bb >>), T(<< bb >>) >>

\* The first zone is in the wrong order, the third string empty.
Inverted == Record(Pair(9, 7), Pair(7, 7), Blank) \o << T(<< bb, aa >>), T(<< bb >>), T(<< aa >>) >>

\* One index, two records.
Doubled == Record(NoZone, NoZone, T(<< aa >>)) \o Record(NoZone, NoZone, T(<< bb >>))

MCDocuments ==
  {[text |-> Sound, wal |-> FALSE], [text |-> Inverted, wal |-> TRUE],
   [text |-> Doubled, wal |-> FALSE]}

Ref(kind, slot)  == [kind |-> kind, rec |-> 1, slot |-> slot]
Words(t)         == [kind |-> "bare", value |-> << T(t) >>]
Ask(kind)        == [kind |-> kind]
AskRef(ref)      == [kind |-> "ref", ref |-> ref]
Compare(l, o, r) == [kind |-> "ref-bool", left |-> l, op |-> o, right |-> r]
AsQuery(x, l, o, r) ==
  IF ~ x THEN Compare(l, o, r)
  ELSE [kind |-> "query", form |-> "compare", left |-> l, op |-> o, right |-> r]
Search(s, o, ps) == [kind |-> "query", form |-> "search", scope |-> s,
                     operation |-> o, patterns |-> ps]

MCRequests ==
  {Ask("state"), Ask("wal"),
   [kind |-> "db", rec |-> 1],
   [kind |-> "zone", rec |-> 1, slot |-> 0],
   [kind |-> "zone", rec |-> 1, slot |-> 2],
   [kind |-> "grep", pattern |-> << bb >>, index |-> {}]}
  \cup {AskRef(Ref("zone", 0)), AskRef(Ref("zone", 2)), AskRef(Ref("string", 3)),
        AskRef([kind |-> "lines", start |-> 7, end |-> 8]),
        AskRef([kind |-> "colon", start |-> 7, end |-> 8])}
  \cup {Compare(Ref("number", 0), "eq", Ref("number", 1)),
        Compare(Ref("number", 0), "ne", Ref("number", 1)),
        Compare(Ref("number", 2), "eq", Words(<< zero >>))}
  \cup {AsQuery(x, Ref("zone", 0), "contains", Words(t)) :
          x \in BOOLEAN, t \in {<< zero, aa, unity >>, << bb >>}}
  \cup {Search(Words(<< aa, unity >>), "and", {<< aa >>, << bb >>}),
        Search(Words(<< unity >>), "or", {<< aa >>}),
        Search(All, "or", {<< aa, aa >>, << bb >>}),
        [kind |-> "query", form |-> "not json"]}
=============================================================================
