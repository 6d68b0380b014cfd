----------------------------- MODULE MCOperators -----------------------------
(***************************************************************************)
(* Every input up to a small size where there are few kinds of them, and a *)
(* few documents, schemas and tables each of which has one peculiarity.    *)
(***************************************************************************)
EXTENDS Operators

CONSTANTS aa, bb, unity, zero, dot

\* Up to four characters, every sign, zeros in front, behind and in between.
MCLiterals ==
  {sign \o body : sign \in {<< >>, << D!Plus >>, << D!Minus >>},
                  body \in UNION {[1 .. n -> {0, 1, 2, D!Dot}] : n \in 1 .. 3}}
  \cup {<< >>, << D!Minus >>, << 1, D!Letter >>, << 0, 0, 1, D!Dot, 0 >>}

MCWords ==
  [line : {0, 26, S!MaxLine}, nibble : {0, 1, 3, 4}, legacy : BOOLEAN]

MCTokenLists ==
  UNION {[1 .. n -> {S!Number(0), S!Number(9), S!Number(S!MaxLine + 1),
                     S!TypeWord(0), S!TypeWord(2), S!Clip}] : n \in 1 .. 4}

MCEndings ==
  UNION {[1 .. n -> {"s", "d", "b", "z", "r", "h", "l", "w", "+", "0", "1", "3", "4", "9"}] :
           n \in 0 .. 3}

Strings == UNION {[1 .. n -> {0, S!X, S!Space, S!Nul}] : n \in 0 .. 2}
MCTypedValues ==
  [type : {"binary"}, value : UNION {[1 .. n -> {0, 10, 16, 255}] : n \in 0 .. 3}]
  \cup [type : {"multisz"}, value : UNION {[1 .. n -> Strings] : n \in 0 .. 2}]
  \cup [type : {"text"}, value : Strings]

(***************************************************************************)
(* Schemas.                                                                *)
(***************************************************************************)
T1(k) == [kind |-> k]
Modes == {"auto", "manual"}
Fields ==
  {F!FieldLine("num_0", T1("integer"), F!InRange(0, 3)),
   F!FieldLine("num_0", T1("decimal"), T1("required")),
   F!FieldLine("num_1", T1("blob"), T1("required")),
   F!FieldLine("str_0", T1("string"), F!OneOf(Modes)),
   F!FieldLine("str_0", F!OneOf(Modes), T1("none")),
   F!FieldLine("str_1", T1("choice"), F!OneOf(Modes)),
   F!FieldLine("str_1", T1("choice"), T1("none")),
   F!FieldLine("str_2", T1("path"), [kind |-> "pattern", colon |-> TRUE]),
   F!FieldLine("str_2", T1("path"), [kind |-> "default", colon |-> FALSE])}

\* A body that is opened, closed again, and opened once more.
Rest(f, g) ==
  {<< F!SectionLine("r2"), f, F!Separator >>,
   << F!Separator, F!SectionLine("r2"), g >>,
   << F!Separator, F!Separator, F!SectionLine("r1"), g, F!Separator >>}

MCSchemaFiles ==
  UNION {{<< F!Skipped, F!Separator, F!SectionLine("r1"), f, g >> \o rest : rest \in Rest(f, g)} :
           f \in Fields, g \in Fields}

MCSchemaNames == F!Nums \o << "r1", "r2" >> \o F!Strs

Cells == {F!Integer("3", 3), F!Fixed("1.5"), F!Plainly("x"), F!Plainly("")}
MCTables ==
  {[r \in rs |-> [cells   |-> [i \in 1 .. n |-> IF i = n THEN last ELSE F!Integer("0", 0)],
                  strings |-> << F!Plainly(""), F!Plainly("auto"), F!Integer("3", 3) >>]] :
     rs \in {{"r1"}, {"r1", "r2"}}, n \in 8 .. 10, last \in Cells}

(***************************************************************************)
(* Texts and documents.                                                    *)
(***************************************************************************)
MCRec      == {1, 2}
MCText     == Seq({aa, bb, unity, zero, dot}) \ {<< >>}
MCNumerals == {<< zero >>, << unity >>, << unity, dot >>}
MCWorth    == [n \in MCNumerals |-> IF n = << zero >> THEN 0 ELSE 1]
MCValue    == [0 .. 8 -> MCNumerals]

T(t) == TextLine(t)
Pair(from, to) == [start |-> from, end |-> to]
Numbers(n) == NumLine([i \in 0 .. 8 |-> IF i = 0 THEN n ELSE << zero >>])

MCPatterns == {<< >>, << aa >>, << aa, bb >>, << unity >>, << dot >>}
MCTexts ==
  UNION {[1 .. n -> {Blank, T(<< aa >>), T(<< bb, aa, bb >>), Numbers(<< unity, dot >>), Marker}] :
           n \in 1 .. 3}

Hex(p) == HexLine([z \in ZoneIdx |-> IF z = 0 THEN p ELSE NoZone])
Record(r, hex, n, last) ==
  << Marker, IndexLine(r), hex, Numbers(n), T(<< aa >>), Blank, last >>

MCDocuments ==
  {Record(1, Hex(Pair(14, 14)), << unity >>, T(<< bb >>))
     \o Record(2, Hex(NoZone), << zero >>, T(<< bb >>)) \o << T(<< aa, bb >>), Blank >>,
   \* Another order, empty strings, text behind them.
   Record(2, Hex(NoZone), << unity, dot >>, Blank) \o << Blank >>
     \o Record(1, Hex(Pair(15, 15)), << unity, dot >>, Blank) \o << T(<< bb >>) >>,
   \* The last record ends in an empty string, at the end of the file.
   Record(2, Hex(NoZone), << unity >>, T(<< aa >>))
     \o Record(1, Hex(NoZone), << zero >>, Blank) \o << Blank >>,
   \* One record, which ends the file; its hex-words do not parse.
   Record(1, T(<< aa, aa >>), << unity, dot >>, T(<< bb >>)),
   \* Numbers that do not parse.
   [Record(2, Hex(NoZone), << unity >>, T(<< bb >>)) EXCEPT ![4] = T(<< aa >>)]}

(***************************************************************************)
(* Files.                                                                  *)
(***************************************************************************)
Word(kind, name) == [kind |-> kind, name |-> name]
MCFiles == {<< Word("file", "a") >>, << Word("file", "b") >>, << Word("path", "c.md") >>,
            << Word("word", "d") >>}
MCCommands ==
  [placement : {"first"}, counts : {{0}, {1}, {3}, {1, 2}}]
  \cup [placement : {"after-action"}, counts : {{1}}]
  \cup [placement : {"option"}, counts : {{0}}]
MCCommandWords ==
  {front \o words :
     words \in UNION {[1 .. n -> {Word("file", "b"), Word("path", "e.f"), Word("word", "1")}] :
                        n \in 0 .. 3},
     front \in {<< >>, << Word("option", "--append") >>}
               \cup {<< Word("setting", "--text"), value >> :
                       value \in {Word("path", "g.h"), Word("word", "2")}}}

(***************************************************************************)
(* Logs.  Values of up to two characters of those that mean something, and *)
(* some with lines of their own.                                           *)
(***************************************************************************)
\* The characters alone, so that the operations do not depend on themselves.
Ch == INSTANCE WalSpelling WITH Op <- {}

Logged ==
  UNION {[1 .. n -> {Ch!Pipe, Ch!Backslash, Ch!Enn, Ch!Newline}] : n \in 0 .. 2}
  \cup {<< Ch!Enn, Ch!Newline, Ch!Dashes, Ch!Newline, Ch!Enn >>,
        << Ch!Newline, Ch!Commit >>, << Ch!Newline, Ch!Hash >>, << Ch!Dashes >>}

Op(kind, values) ==
  [kind |-> kind, names |-> IF kind \in Ch!TwoValued THEN << "i64", "0" >> ELSE << "i64" >>,
   values |-> values]

Spoken ==
  {Op(kind, << v, w >>) : kind \in {"set-str", "zone-replace"}, v, w \in Logged}
  \cup {Op("section-remove", << v >>) : v \in Logged}
Unspoken ==
  {Op("section-add", << >>),
   Op("set-num", << << Ch!Char("1") >>, << Ch!Char("2") >> >>),
   Op("set-zone", << << Ch!Char("3:4:md") >>, << Ch!Char("5:6:md") >> >>)}

MCLoggedOps     == Spoken \cup Unspoken
MCLoggedBatches ==
  {<< op, Op("section-add", << >>) >> : op \in Spoken} \cup (Unspoken \X Unspoken)
=============================================================================
