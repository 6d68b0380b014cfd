------------------------------ MODULE Matching ------------------------------
(***************************************************************************)
(* Searching a text: the boolean commands (bool_ops.rs) and the greps of   *)
(* fast_ops.rs, which go line by line, if-contains and the server's /query *)
(* (serve.rs), which look at the text as a whole; and ref-bool.            *)
(*                                                                         *)
(* A text of one line is a sequence of atoms, a pattern likewise; << >> is *)
(* the empty pattern.  Case is left out, and a pattern holds no newline.   *)
(***************************************************************************)
EXTENDS Reading, FiniteSets

CONSTANTS
  Numerals,  \* the texts that are decimals
  Worth      \* the number each of them stands for

\* A numeric line has nine columns, each a text of its own.
ASSUME MatchingAssumption ==
  /\ Numerals \subseteq Text
  /\ Value = [0 .. 8 -> Numerals]
  /\ Worth \in [Numerals -> Int]

Within(p, t) == \E i \in 0 .. Len(t) - Len(p) : SubSeq(t, i + 1, i + Len(p)) = p

\* Markers, index lines and hex-words hold no atom a pattern could name.
Hit(line, p) ==
  \/ p = << >>
  \/ line.kind = "text" /\ Within(p, line.text)
  \/ line.kind = "num"  /\ \E slot \in 0 .. 8 : Within(p, line.value[slot])

(***************************************************************************)
(* Line by line.                                                           *)
(***************************************************************************)
Grep(v, p) == {i \in 0 .. Len(Lines(v)) - 1 : Hit(Lines(v)[i + 1], p)}

GrepMulti(v, ps) ==
  {m \in (0 .. Len(Lines(v)) - 1) \X SUBSET ps :
     m[2] # {} /\ m[2] = {p \in ps : Hit(Lines(v)[m[1] + 1], p)}}

BoolAnd(v, ps) ==
  [value |-> \A p \in ps : Grep(v, p) # {}, matches |-> UNION {Grep(v, p) : p \in ps}]

BoolOr(v, ps) ==
  LET found == UNION {Grep(v, p) : p \in ps}
  IN  [value |-> found # {}, matches |-> found]

BoolNand(v, must, mustNot) ==
  [value |-> Grep(v, must) # {} /\ Grep(v, mustNot) = {}, matches |-> Grep(v, must)]

\* Mutant: exclusive or as plain or.
BoolXorInclusive(v, p, q) ==
  [value |-> Grep(v, p) # {} \/ Grep(v, q) # {}, matches |-> Grep(v, p) \cup Grep(v, q)]

BoolXor(v, p, q) ==
  [value |-> (Grep(v, p) # {}) # (Grep(v, q) # {}), matches |-> Grep(v, p) \cup Grep(v, q)]

Count(v, p) == Cardinality(Grep(v, p))

IsZoneEmpty(v) == \A i \in 1 .. Len(Lines(v)) : Lines(v)[i] = Blank

(***************************************************************************)
(* The text as a whole.                                                    *)
(***************************************************************************)
Holds(v, p) == \E i \in 1 .. Len(v) : Hit(v[i], p)

IfContains(v, p, yes, no) == IF Holds(v, p) THEN yes ELSE no

\* Both operations of /query.
QueryAnd(v, ps) == \A p \in ps : Holds(v, p)
QueryOr(v, ps)  == \E p \in ps : Holds(v, p)

(***************************************************************************)
(* ref-bool: two values and an operation.                                  *)
(***************************************************************************)
OneLine(v) == Len(v) = 1 /\ v[1].kind = "text"

\* trim() takes the blank lines around a value off.
Trimmed(v) == SelectSeq(v, LAMBDA line : line # Blank)
IsNumeral(v) == OneLine(Trimmed(v)) /\ Trimmed(v)[1].text \in Numerals
WorthOf(v)   == Worth[Trimmed(v)[1].text]

\* A value in another: its lines follow each other there; one line may be part
\* of one.
ValueWithin(w, v) ==
  \/ w = Empty
  \/ OneLine(w) /\ Holds(v, w[1].text)
  \/ \E i \in 0 .. Len(v) - Len(w) : SubSeq(v, i + 1, i + Len(w)) = w

Comparisons == {"contains", "eq", "ne", "gt", "gte", "lt", "lte"}
Numeric     == {"gt", "gte", "lt", "lte"}

CanCompare(v, op, w) ==
  op \in Comparisons /\ (op \in Numeric => IsNumeral(v) /\ IsNumeral(w))

Compared(v, op, w) ==
  CASE op = "contains" -> ValueWithin(w, v)
    [] op = "eq"  -> IF IsNumeral(v) /\ IsNumeral(w) THEN WorthOf(v) = WorthOf(w) ELSE v = w
    [] op = "ne"  -> IF IsNumeral(v) /\ IsNumeral(w) THEN WorthOf(v) # WorthOf(w) ELSE v # w
    [] op = "gt"  -> WorthOf(v) > WorthOf(w)
    [] op = "gte" -> WorthOf(v) >= WorthOf(w)
    [] op = "lt"  -> WorthOf(v) < WorthOf(w)
    [] op = "lte" -> WorthOf(v) <= WorthOf(w)
=============================================================================
