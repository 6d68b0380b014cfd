------------------------------ MODULE Decimals ------------------------------
(***************************************************************************)
(* DecimalValue (db_line.rs): a number kept as it was spelled, compared by *)
(* its digits without ever becoming a binary number, and written to JSON.  *)
(*                                                                         *)
(* A spelling is a sequence of characters: the digits 0 .. 9 and the codes *)
(* below.  The blanks around it are gone (trim).                           *)
(***************************************************************************)
EXTENDS Integers, Sequences, FiniteSets, SequencesExt

Plus   == 10
Minus  == 11
Dot    == 12
Letter == 13   \* any other character
Digit  == 0 .. 9

(***************************************************************************)
(* Reading.                                                                *)
(***************************************************************************)
Unsigned(lit) == IF lit # << >> /\ Head(lit) \in {Plus, Minus} THEN Tail(lit) ELSE lit

Dots(lit) == {i \in 1 .. Len(lit) : lit[i] = Dot}

IsDecimal(lit) ==
  LET u == Unsigned(lit)
  IN  /\ \A i \in 1 .. Len(u) : u[i] \in Digit \cup {Dot}
      /\ \E i \in 1 .. Len(u) : u[i] \in Digit
      /\ Cardinality(Dots(u)) <= 1

Point(u)    == IF Dots(u) = {} THEN Len(u) + 1 ELSE Max(Dots(u))
Whole(u)    == SubSeq(u, 1, Point(u) - 1)
Fraction(u) == SubSeq(u, Point(u) + 1, Len(u))

NoLeadingZeros(s) ==
  LET n == Max({k \in 0 .. Len(s) : \A i \in 1 .. k : s[i] = 0})
  IN  SubSeq(s, n + 1, Len(s))

\* How many of the digits behind the point are final zeros.
Spare(s, scale) ==
  Max({k \in 0 .. scale : k <= Len(s) /\ \A i \in 0 .. k - 1 : s[Len(s) - i] = 0})

\* Mutant: leading zeros count.
PartsWithLeadingZeros(lit) ==
  LET u == Unsigned(lit)
      s == Whole(u) \o Fraction(u)
      k == Spare(s, Len(Fraction(u)))
  IN  IF NoLeadingZeros(s) = << >> THEN [sign |-> 0, digits |-> << 0 >>, scale |-> 0]
      ELSE [sign   |-> IF Head(lit) = Minus THEN -1 ELSE 1,
            digits |-> SubSeq(s, 1, Len(s) - k),
            scale  |-> Len(Fraction(u)) - k]

Parts(lit) ==
  LET u == Unsigned(lit)
      f == Fraction(u)
      s == NoLeadingZeros(Whole(u) \o f)
      k == Spare(s, Len(f))
  IN  IF s = << >> THEN [sign |-> 0, digits |-> << 0 >>, scale |-> 0]
      ELSE [sign   |-> IF Head(lit) = Minus THEN -1 ELSE 1,
            digits |-> SubSeq(s, 1, Len(s) - k),
            scale  |-> Len(f) - k]

(***************************************************************************)
(* Comparing: -1, 0 or 1.                                                  *)
(***************************************************************************)
Sign(n) == IF n < 0 THEN -1 ELSE IF n > 0 THEN 1 ELSE 0

DigitAt(s, i) == IF i <= Len(s) THEN s[i] ELSE 0

\* Digits from the left, as if both were behind the point.
CompareDigits(l, r) ==
  LET differ == {i \in 1 .. Len(l) + Len(r) : DigitAt(l, i) # DigitAt(r, i)}
  IN  IF differ = {} THEN 0
      ELSE Sign(DigitAt(l, Min(differ)) - DigitAt(r, Min(differ)))

Cmp(left, right) ==
  LET l == Parts(left)
      r == Parts(right)
      size(p) == Len(p.digits) - p.scale
      magnitude == IF size(l) # size(r) THEN Sign(size(l) - size(r))
                   ELSE CompareDigits(l.digits, r.digits)
  IN  IF l.sign # r.sign THEN Sign(l.sign - r.sign)
      ELSE IF l.sign = 0 THEN 0
      ELSE l.sign * magnitude

\* Mutant: a point without digits behind it is kept.
JsonAsSpelled(lit) ==
  LET u == Unsigned(lit)
      w == NoLeadingZeros(Whole(u))
  IN  (IF Head(lit) = Minus /\ Parts(lit).sign # 0 THEN << Minus >> ELSE << >>)
        \o (IF w = << >> THEN << 0 >> ELSE w)
        \o (IF Dots(u) = {} THEN << >> ELSE << Dot >> \o Fraction(u))

JsonLiteral(lit) ==
  LET u == Unsigned(lit)
      w == NoLeadingZeros(Whole(u))
      f == Fraction(u)
  IN  (IF Head(lit) = Minus /\ Parts(lit).sign # 0 THEN << Minus >> ELSE << >>)
        \o (IF w = << >> THEN << 0 >> ELSE w)
        \o (IF Dots(u) = {} THEN << >>
            ELSE << Dot >> \o (IF f = << >> THEN << 0 >> ELSE f))

(***************************************************************************)
(* What a spelling means: an integer over a power of ten.                  *)
(***************************************************************************)
Number(s) ==
  LET upTo[k \in 0 .. Len(s)] == IF k = 0 THEN 0 ELSE 10 * upTo[k - 1] + s[k]
  IN  upTo[Len(s)]

TenTo[n \in Nat] == IF n = 0 THEN 1 ELSE 10 * TenTo[n - 1]

Meaning(lit) ==
  LET u == Unsigned(lit)
      n == Number(Whole(u) \o Fraction(u))
  IN  [over |-> IF Head(lit) = Minus THEN -n ELSE n, places |-> Len(Fraction(u))]

Order(left, right) ==
  LET l == Meaning(left)  r == Meaning(right)
  IN  Sign(l.over * TenTo[r.places] - r.over * TenTo[l.places])

\* The grammar of numbers in JSON, without exponents.
IsJsonNumber(s) ==
  LET u == IF s # << >> /\ Head(s) = Minus THEN Tail(s) ELSE s
  IN  /\ IsDecimal(s) /\ Head(s) # Plus
      /\ Whole(u) # << >> /\ (Head(u) = 0 => Len(Whole(u)) = 1)
      /\ Dots(u) # {} => Fraction(u) # << >>
=============================================================================
