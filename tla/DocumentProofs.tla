--------------------------- MODULE DocumentProofs ---------------------------
(***************************************************************************)
(* Lemmas about the rewriting primitives of Document: what each returns,   *)
(* and where a line goes when the text around it is spliced.               *)
(***************************************************************************)
EXTENDS Document, SequenceTheorems, TLAPS

\* The lines a user types are lines of a document (set-str, zone-replace).
LEMMA ProseIsLines == Prose \subseteq Line
  BY DEF Prose, Line

\* A text to insert is a sequence of document lines.
LEMMA ProseSeq == ASSUME NEW s \in Seq(Prose) PROVE s \in Seq(Line)
  BY ProseIsLines, SeqMonotonic

\* The first n lines, and the lines from m on, as `take` and `skip` keep them.
LEMMA FirstLines ==
  ASSUME NEW S, NEW s \in Seq(S), NEW n \in 0 .. Len(s)
  PROVE  /\ SubSeq(s, 1, n) \in Seq(S)
         /\ Len(SubSeq(s, 1, n)) = n
         /\ \A i \in 1 .. n : SubSeq(s, 1, n)[i] = s[i]
<1>1. Len(s) \in Nat /\ n \in Int /\ 1 \in Int
  BY LenProperties
<1>2. \A i \in 1 .. n : s[i] \in S
  BY <1>1, ElementOfSeq
<1>3. /\ SubSeq(s, 1, n) \in Seq(S)
      /\ Len(SubSeq(s, 1, n)) = IF 1 <= n THEN n - 1 + 1 ELSE 0
      /\ \A i \in 1 .. n - 1 + 1 : SubSeq(s, 1, n)[i] = s[1 + i - 1]
  BY <1>1, <1>2, SubSeqProperties
<1>4. Len(SubSeq(s, 1, n)) = n
  BY <1>1, <1>3
<1>5. ASSUME NEW i \in 1 .. n
      PROVE  SubSeq(s, 1, n)[i] = s[i]
  <2>1. i \in 1 .. n - 1 + 1 /\ 1 + i - 1 = i
    BY <1>1
  <2> QED BY <1>3, <2>1
<1> QED BY <1>3, <1>4, <1>5

\* The lines from the m-th on, the suffix replace_zone_content keeps.
LEMMA Rest ==
  ASSUME NEW S, NEW s \in Seq(S), NEW m \in 1 .. Len(s) + 1
  PROVE  /\ SubSeq(s, m, Len(s)) \in Seq(S)
         /\ Len(SubSeq(s, m, Len(s))) = Len(s) - m + 1
         /\ \A i \in 1 .. Len(s) - m + 1 : SubSeq(s, m, Len(s))[i] = s[m + i - 1]
<1>1. Len(s) \in Nat /\ Len(s) \in Int /\ m \in Int
  BY LenProperties
<1>2. \A i \in m .. Len(s) : s[i] \in S
  BY <1>1, ElementOfSeq
<1>3. /\ SubSeq(s, m, Len(s)) \in Seq(S)
      /\ Len(SubSeq(s, m, Len(s))) = IF m <= Len(s) THEN Len(s) - m + 1 ELSE 0
      /\ \A i \in 1 .. Len(s) - m + 1 : SubSeq(s, m, Len(s))[i] = s[m + i - 1]
  BY <1>1, <1>2, SubSeqProperties
<1>4. Len(SubSeq(s, m, Len(s))) = Len(s) - m + 1
  BY <1>1, <1>3
<1> QED BY <1>3, <1>4

\* A piece of a document, or the blank a reader past its end sees, is a line.
LEMMA LineAtType ==
  ASSUME NEW c \in Seq(Line), NEW i \in Int
  PROVE  LineAt(c, i) \in Line
<1>1. CASE i \in 0 .. Len(c) - 1
  <2>1. i + 1 \in 1 .. Len(c)
    BY <1>1
  <2> QED BY <1>1, <2>1, ElementOfSeq DEF LineAt
<1>2. CASE i \notin 0 .. Len(c) - 1
  BY <1>2 DEF LineAt, Line
<1> QED BY <1>1, <1>2

\* str::lines(): at most one piece shorter, and otherwise the same pieces.
LEMMA LinesType ==
  ASSUME NEW c \in Content
  PROVE  /\ Lines(c) \in Seq(Line)
         /\ Len(Lines(c)) \in {Len(c) - 1, Len(c)}
         /\ Len(Lines(c)) \in Nat
         /\ \A i \in 1 .. Len(Lines(c)) : Lines(c)[i] = c[i]
<1>1. c \in Seq(Line) /\ Len(c) \in Nat \ {0}
  BY EmptySeq, LenProperties DEF Content
<1>2. CASE c[Len(c)] = Blank
  <2>1. Lines(c) = SubSeq(c, 1, Len(c) - 1)
    BY <1>2 DEF Lines
  <2>2. /\ SubSeq(c, 1, Len(c) - 1) \in Seq(Line)
        /\ Len(SubSeq(c, 1, Len(c) - 1)) = Len(c) - 1
        /\ \A i \in 1 .. Len(c) - 1 : SubSeq(c, 1, Len(c) - 1)[i] = c[i]
    <3>1. Len(c) - 1 \in 0 .. Len(c)
      BY <1>1
    <3> QED BY <1>1, <3>1, FirstLines
  <2> QED BY <1>1, <2>1, <2>2
<1>3. CASE c[Len(c)] # Blank
  BY <1>1, <1>3 DEF Lines
<1> QED BY <1>2, <1>3

\* What a command writes back is a document, even when nothing is left.
LEMMA JoinType ==
  ASSUME NEW ls \in Seq(Line)
  PROVE  Join(ls) \in Content
<1>1. CASE ls = << >>
  <2>1. Blank \in Line
    BY DEF Line
  <2>2. << Blank >> \in Seq(Line) /\ << Blank >> # << >>
    BY <2>1
  <2> QED BY <1>1, <2>2 DEF Join, Content
<1>2. CASE ls # << >>
  BY <1>2 DEF Join, Content
<1> QED BY <1>1, <1>2

\* update_lines with well-formed lines: a document of the same number of lines
\* whose line i is the new one at the rewritten places and the old one elsewhere.
LEMMA UpdateLinesType ==
  ASSUME NEW c \in Content, NEW at, NEW new,
         \A i \in at : new[i] \in Line
  PROVE  UpdateLines(c, at, new) \in Content
<1> DEFINE ls  == Lines(c)
           out == [i \in 1 .. Len(ls) |-> IF i - 1 \in at THEN new[i - 1] ELSE ls[i]]
<1>1. ls \in Seq(Line) /\ Len(ls) \in Nat
  BY LinesType
<1>2. \A i \in 1 .. Len(ls) : ls[i] \in Line
  BY <1>1, ElementOfSeq
<1>3. out \in [1 .. Len(ls) -> Line]
  BY <1>2
<1>4. out \in Seq(Line)
  BY <1>1, <1>3, SeqDef
<1> QED BY <1>4, JoinType DEF UpdateLines

\* update_line with a well-formed line gives a document.
LEMMA UpdateLineType ==
  ASSUME NEW c \in Content, NEW a, NEW line \in Line
  PROVE  UpdateLine(c, a, line) \in Content
<1>1. \A i \in {a} : [j \in {a} |-> line][i] \in Line
  OBVIOUS
<1> QED BY <1>1, UpdateLinesType DEF UpdateLine

\* The prefix, the new lines and the suffix are lines, wherever s and e point:
\* `take` and `skip` stop at the end of the text.
LEMMA SpliceType ==
  ASSUME NEW c \in Content, NEW s \in Nat, NEW e \in Int, e >= -1,
         NEW new \in Seq(Line)
  PROVE  Splice(c, s, e, new) \in Content
<1> DEFINE ls   == Lines(c)
           n    == IF s < Len(ls) THEN s ELSE Len(ls)
           head == SubSeq(ls, 1, n)
           tail == SubSeq(ls, e + 2, Len(ls))
<1>1. ls \in Seq(Line) /\ Len(ls) \in Nat
  BY LinesType
<1>2. n \in 0 .. Len(ls)
  BY <1>1
<1>3. head \in Seq(Line)
  BY <1>1, <1>2, FirstLines
<1>4. tail \in Seq(Line)
  <2>1. CASE e + 2 <= Len(ls) + 1
    <3>1. e + 2 \in 1 .. Len(ls) + 1
      BY <1>1, <2>1
    <3> QED BY <1>1, <3>1, Rest
  <2>2. CASE ~ (e + 2 <= Len(ls) + 1)
    <3>1. Len(ls) < e + 2 /\ e + 2 \in Int /\ Len(ls) \in Int
      BY <1>1, <2>2
    <3> QED BY <3>1, SubSeqEmpty, EmptySeq
  <2> QED BY <2>1, <2>2
<1>5. head \o new \in Seq(Line)
  BY <1>3, ConcatProperties
<1>6. (head \o new) \o tail \in Seq(Line)
  BY <1>4, <1>5, ConcatProperties
<1> QED BY <1>6, JoinType DEF Splice

\* AsciiStore::to_line gives a hex-word line, and from_line reads one back.
LEMMA HexLineType == ASSUME NEW zs \in Zones PROVE HexLine(zs) \in Line
  BY DEF HexLine, Line

\* AsciiStore::from_line reads three zones off every line it accepts.
LEMMA ZonesInType ==
  ASSUME NEW line \in Line, IsHexWords(line)
  PROVE  ZonesIn(line) \in Zones
<1>1. CASE line.kind = "hex"
  <2>1. line.zones \in Zones
    BY <1>1 DEF Line, Blank, Marker
  <2> QED BY <1>1, <2>1 DEF ZonesIn
<1>2. CASE line.kind # "hex"
  <2>1. NoZone \in ZonePair
    BY DEF NoZone, ZonePair
  <2> QED BY <1>2, <2>1 DEF ZonesIn, Zones
<1> QED BY <1>1, <1>2

\* shift_hex_word_line never produces a negative line number.
LEMMA ShiftPairType ==
  ASSUME NEW p \in ZonePair, NEW from \in Int, NEW delta \in Int
  PROVE  ShiftPair(p, from, delta) \in ZonePair
<1>1. ASSUME NEW n \in Nat PROVE ShiftWord(n, from, delta) \in Nat
  BY DEF ShiftWord
<1>2. p.start \in Nat /\ p.end \in Nat
  BY DEF ZonePair
<1> QED BY <1>1, <1>2 DEF ShiftPair, ZonePair

\* A shifted hex-word line is a hex-word line.
LEMMA ShiftHexLineType ==
  ASSUME NEW line \in Line, line.kind = "hex", NEW from \in Int, NEW delta \in Int
  PROVE  ShiftHexLine(line, from, delta) \in Line
<1>1. line.zones \in Zones
  BY DEF Line, Blank, Marker
<1>2. \A z \in ZoneIdx : line.zones[z] \in ZonePair
  BY <1>1 DEF Zones
<1>3. [z \in ZoneIdx |-> ShiftPair(line.zones[z], from, delta)] \in Zones
  BY <1>2, ShiftPairType DEF Zones
<1> QED BY <1>3, HexLineType DEF ShiftHexLine

\* apply_line_deltas gives a document.
LEMMA ApplyDeltaType ==
  ASSUME NEW c \in Content, NEW from \in Int, NEW delta \in Int
  PROVE  ApplyDelta(c, from, delta) \in Content
<1> DEFINE ls    == Lines(c)
           moved == {a \in 0 .. Len(ls) - 1 :
                       /\ a - 2 \in Headers(c)
                       /\ ls[a + 1].kind = "hex"
                       /\ ShiftHexLine(ls[a + 1], from, delta) # ls[a + 1]}
           new   == [a \in moved |-> ShiftHexLine(ls[a + 1], from, delta)]
<1>1. CASE moved = {}
  BY <1>1 DEF ApplyDelta
<1>2. CASE moved # {}
  <2>1. ASSUME NEW a \in moved PROVE new[a] \in Line
    <3>1. ls \in Seq(Line) /\ Len(ls) \in Nat
      BY LinesType
    <3>2. a + 1 \in 1 .. Len(ls) /\ ls[a + 1].kind = "hex"
      BY <3>1
    <3>3. ls[a + 1] \in Line
      BY <3>1, <3>2, ElementOfSeq
    <3> QED BY <3>2, <3>3, ShiftHexLineType
  <2> HIDE DEF new, moved, ls
  <2>2. UpdateLines(c, moved, new) \in Content
    BY <2>1, UpdateLinesType
  <2> QED BY <1>2, <2>2 DEF ApplyDelta, new, moved, ls
<1> QED BY <1>1, <1>2

\* The splice with its shift gives a document.
LEMMA SpliceAndShiftType ==
  ASSUME NEW c \in Content, NEW s \in Nat, NEW e \in Nat, NEW new \in Seq(Line)
  PROVE  SpliceAndShift(c, s, e, new) \in Content
<1>1. Splice(c, s, e, new) \in Content
  BY SpliceType
<1>2. Len(new) - (e - s + 1) \in Int /\ e + 1 \in Int
  BY LenProperties
<1>3. ApplyDelta(Splice(c, s, e, new), e + 1, Len(new) - (e - s + 1)) \in Content
  BY <1>1, <1>2, ApplyDeltaType
<1> QED BY <1>1, <1>3 DEF SpliceAndShift

\* The zone an edit leaves has natural ends: no line at all is the empty zone,
\* not a zone that ends before line 0.
LEMMA ExtentType ==
  ASSUME NEW s \in Nat, NEW count \in Nat
  PROVE  Extent(s, count) \in ZonePair
  BY DEF Extent, NoZone, ZonePair

(***************************************************************************)
(* Where a line is found after the text around it was rewritten.           *)
(***************************************************************************)
\* The empty piece str::lines() drops reads as an empty line all the same.
LEMMA LinesReadsAlike ==
  ASSUME NEW c \in Content, NEW n \in Int
  PROVE  LineAt(Lines(c), n) = LineAt(c, n)
<1>1. c \in Seq(Line) /\ Len(c) \in Nat \ {0}
  BY EmptySeq, LenProperties DEF Content
<1>2. /\ Len(Lines(c)) \in {Len(c) - 1, Len(c)}
      /\ \A i \in 1 .. Len(Lines(c)) : Lines(c)[i] = c[i]
  BY LinesType
<1>3. CASE n \in 0 .. Len(Lines(c)) - 1
  <2>1. n + 1 \in 1 .. Len(Lines(c)) /\ n \in 0 .. Len(c) - 1
    BY <1>1, <1>2, <1>3
  <2> QED BY <1>2, <1>3, <2>1 DEF LineAt
<1>4. CASE n \notin 0 .. Len(Lines(c)) - 1 /\ n \notin 0 .. Len(c) - 1
  BY <1>4 DEF LineAt
<1>5. CASE n \notin 0 .. Len(Lines(c)) - 1 /\ n \in 0 .. Len(c) - 1
  <2>1. Len(Lines(c)) = Len(c) - 1 /\ n = Len(c) - 1
    BY <1>1, <1>2, <1>5
  <2>2. Lines(c) # c
    BY <1>1, <2>1
  <2>3. c[Len(c)] = Blank
    BY <2>2 DEF Lines
  <2>4. c[n + 1] = Blank
    BY <1>1, <2>1, <2>3
  <2> QED BY <1>5, <2>4 DEF LineAt
<1> QED BY <1>3, <1>4, <1>5

\* Joining lines to a text changes no line a reader sees.
LEMMA JoinReadsAlike ==
  ASSUME NEW ls \in Seq(Line), NEW n \in Int
  PROVE  LineAt(Join(ls), n) = LineAt(ls, n)
<1>1. CASE ls = << >>
  <2>1. LineAt(ls, n) = Blank
    BY <1>1 DEF LineAt
  <2>2. LineAt(<< Blank >>, n) = Blank
    BY DEF LineAt
  <2> QED BY <1>1, <2>1, <2>2 DEF Join
<1>2. CASE ls # << >>
  BY <1>2 DEF Join
<1> QED BY <1>1, <1>2

\* update_lines: the given lines at the given places, the old ones elsewhere.
LEMMA UpdateLinesReads ==
  ASSUME NEW c \in Content, NEW at, NEW new, NEW n \in Int,
         \A i \in at : new[i] \in Line
  PROVE  LineAt(UpdateLines(c, at, new), n) =
           IF n \in at /\ n \in 0 .. Len(Lines(c)) - 1 THEN new[n] ELSE LineAt(c, n)
<1> DEFINE ls  == Lines(c)
           out == [i \in 1 .. Len(ls) |-> IF i - 1 \in at THEN new[i - 1] ELSE ls[i]]
<1>1. ls \in Seq(Line) /\ Len(ls) \in Nat
  BY LinesType
<1>2. \A i \in 1 .. Len(ls) : ls[i] \in Line
  BY <1>1, ElementOfSeq
<1>3. out \in Seq(Line)
  <2>1. out \in [1 .. Len(ls) -> Line]
    BY <1>2
  <2> QED BY <1>1, <2>1, SeqDef
<1>4. Len(out) = Len(ls)
  BY <1>1, <1>3
<1>5. LineAt(UpdateLines(c, at, new), n) = LineAt(out, n)
  BY <1>3, JoinReadsAlike DEF UpdateLines
<1>6. LineAt(c, n) = LineAt(ls, n)
  BY LinesReadsAlike
<1>7. CASE n \in 0 .. Len(ls) - 1
  <2>1. n + 1 \in 1 .. Len(ls) /\ (n + 1) - 1 = n
    BY <1>1, <1>7
  <2>2. LineAt(out, n) = out[n + 1] /\ LineAt(ls, n) = ls[n + 1]
    BY <1>4, <1>7 DEF LineAt
  <2>3. out[n + 1] = IF n \in at THEN new[n] ELSE ls[n + 1]
    BY <2>1
  <2> QED BY <1>5, <1>6, <1>7, <2>2, <2>3
<1>8. CASE n \notin 0 .. Len(ls) - 1
  <2>1. LineAt(out, n) = Blank /\ LineAt(ls, n) = Blank
    BY <1>4, <1>8 DEF LineAt
  <2> QED BY <1>5, <1>6, <1>8, <2>1
<1> QED BY <1>7, <1>8

\* The splice inside the document: what is above stays, what is below moves by
\* the difference in size, and the new lines stand at s.
LEMMA SpliceReads ==
  ASSUME NEW c \in Content, NEW s \in Nat, NEW e \in Int, NEW new \in Seq(Line),
         s <= e + 1, e < Len(Lines(c))
  PROVE  /\ \A n \in 0 .. s - 1 : LineAt(Splice(c, s, e, new), n) = LineAt(c, n)
         /\ \A n \in 0 .. Len(new) - 1 :
               LineAt(Splice(c, s, e, new), s + n) = new[n + 1]
         /\ \A n \in Int : n > e =>
               LineAt(Splice(c, s, e, new), n + (Len(new) - (e - s + 1))) = LineAt(c, n)
         /\ Len(Splice(c, s, e, new)) \in Nat
<1> DEFINE ls   == Lines(c)
           head == SubSeq(ls, 1, s)
           tail == SubSeq(ls, e + 2, Len(ls))
           body == head \o new
           out  == body \o tail
<1>1. ls \in Seq(Line) /\ Len(ls) \in Nat /\ Len(new) \in Nat /\ s <= Len(ls)
  BY LinesType, LenProperties
<1>2. Splice(c, s, e, new) = Join(out)
  <2>1. SubSeq(ls, 1, IF s < Len(ls) THEN s ELSE Len(ls)) = head
    BY <1>1
  <2> QED BY <2>1 DEF Splice
<1> HIDE DEF ls
<1>3. /\ head \in Seq(Line) /\ Len(head) = s
      /\ \A i \in 1 .. s : head[i] = ls[i]
  <2>1. s \in 0 .. Len(ls)
    BY <1>1
  <2> QED BY <1>1, <2>1, FirstLines
<1>4. /\ tail \in Seq(Line) /\ Len(tail) = Len(ls) - (e + 2) + 1
      /\ \A i \in 1 .. Len(ls) - (e + 2) + 1 : tail[i] = ls[(e + 2) + i - 1]
  <2>1. e + 2 \in 1 .. Len(ls) + 1
    BY <1>1 DEF ls
  <2> QED BY <1>1, <2>1, Rest
<1> HIDE DEF head, tail
<1>5. /\ body \in Seq(Line) /\ Len(body) = s + Len(new)
      /\ \A i \in 1 .. s + Len(new) : body[i] = IF i <= s THEN head[i] ELSE new[i - s]
  BY <1>3, ConcatProperties
<1> HIDE DEF body
<1>6. /\ out \in Seq(Line) /\ Len(out) = s + Len(new) + Len(tail)
      /\ \A i \in 1 .. s + Len(new) + Len(tail) :
            out[i] = IF i <= s + Len(new) THEN body[i] ELSE tail[i - (s + Len(new))]
  <2>1. /\ out \in Seq(Line) /\ Len(out) = Len(body) + Len(tail)
        /\ \A i \in 1 .. Len(body) + Len(tail) :
              out[i] = IF i <= Len(body) THEN body[i] ELSE tail[i - Len(body)]
    BY <1>4, <1>5, ConcatProperties
  <2> HIDE DEF out
  <2> QED BY <1>5, <2>1
<1> HIDE DEF out
<1>7. \A n \in Int : LineAt(Splice(c, s, e, new), n) = LineAt(out, n)
  BY <1>2, <1>6, JoinReadsAlike
<1>8. \A n \in Int : LineAt(c, n) = LineAt(ls, n)
  BY LinesReadsAlike DEF ls
<1>9. ASSUME NEW n \in 0 .. s - 1
      PROVE  LineAt(out, n) = LineAt(ls, n)
  <2>1. n + 1 \in 1 .. s /\ n + 1 \in 1 .. s + Len(new) + Len(tail)
    BY <1>1, <1>4
  <2>2. out[n + 1] = ls[n + 1]
    BY <1>1, <1>3, <1>5, <1>6, <2>1
  <2> QED BY <1>1, <1>4, <1>6, <2>1, <2>2 DEF LineAt
<1>10. ASSUME NEW n \in 0 .. Len(new) - 1
       PROVE  LineAt(out, s + n) = new[n + 1]
  <2>1. s + n + 1 \in 1 .. s + Len(new) /\ s + n + 1 \in 1 .. s + Len(new) + Len(tail)
        /\ ~ (s + n + 1 <= s) /\ (s + n + 1) - s = n + 1
    BY <1>1, <1>4
  <2>2. out[s + n + 1] = new[n + 1]
    BY <1>5, <1>6, <2>1
  <2>3. s + n \in 0 .. Len(out) - 1
    BY <1>1, <1>4, <1>6, <2>1
  <2> QED BY <2>2, <2>3 DEF LineAt
<1>11. ASSUME NEW n \in Int, n > e
       PROVE  LineAt(out, n + (Len(new) - (e - s + 1))) = LineAt(ls, n)
  <2> DEFINE m == n + (Len(new) - (e - s + 1))
  <2>1. CASE n <= Len(ls) - 1
    <3>1. /\ m + 1 \in 1 .. s + Len(new) + Len(tail)
          /\ ~ (m + 1 <= s + Len(new))
          /\ (m + 1) - (s + Len(new)) = n - e
          /\ n - e \in 1 .. Len(ls) - (e + 2) + 1
          /\ (e + 2) + (n - e) - 1 = n + 1
      BY <1>1, <1>4, <1>11, <2>1
    <3>2. out[m + 1] = ls[n + 1]
      BY <1>4, <1>6, <3>1
    <3>3. m \in 0 .. Len(out) - 1 /\ n \in 0 .. Len(ls) - 1
      BY <1>1, <1>4, <1>6, <1>11, <2>1, <3>1
    <3> QED BY <3>2, <3>3 DEF LineAt
  <2>2. CASE n > Len(ls) - 1
    <3>1. Len(out) = s + Len(new) + (Len(ls) - (e + 2) + 1)
      BY <1>4, <1>6
    <3>2. ~ (m <= Len(out) - 1) /\ ~ (n <= Len(ls) - 1)
      BY <1>1, <2>2, <3>1
    <3> QED BY <3>2 DEF LineAt
  <2> QED BY <1>1, <2>1, <2>2
<1>12. Len(Splice(c, s, e, new)) \in Nat
  BY <1>2, <1>6, JoinType, LenProperties DEF Content
<1>13. \A n \in 0 .. s - 1 : LineAt(Splice(c, s, e, new), n) = LineAt(c, n)
  BY <1>7, <1>8, <1>9
<1>14. \A n \in 0 .. Len(new) - 1 : LineAt(Splice(c, s, e, new), s + n) = new[n + 1]
  BY <1>1, <1>7, <1>10
<1>15. \A n \in Int : n > e =>
         LineAt(Splice(c, s, e, new), n + (Len(new) - (e - s + 1))) = LineAt(c, n)
  BY <1>1, <1>7, <1>8, <1>11
<1> QED BY <1>12, <1>13, <1>14, <1>15

\* What the shift of the hex-words is for: after lines s..e gave way to others, a
\* line number outside s..e, shifted the way shift_hex_word_line shifts it, names
\* the line it named before.  The clamp at 0 never acts on such a number.
THEOREM ShiftedWordsFollowTheirLines ==
  ASSUME NEW c \in Content, NEW s \in Nat, NEW e \in Int, NEW new \in Seq(Line),
         s <= e + 1, e < Len(Lines(c)),
         NEW n \in Nat, n < s \/ n > e
  PROVE  LineAt(Splice(c, s, e, new),
                ShiftWord(n, e + 1, Len(new) - (e - s + 1))) = LineAt(c, n)
<1>1. Len(new) \in Nat
  BY LenProperties
<1>2. CASE n < s
  <2>1. ShiftWord(n, e + 1, Len(new) - (e - s + 1)) = n /\ n \in 0 .. s - 1
    BY <1>1, <1>2 DEF ShiftWord
  <2> QED BY <2>1, SpliceReads
<1>3. CASE n > e
  <2>1. ShiftWord(n, e + 1, Len(new) - (e - s + 1)) = n + (Len(new) - (e - s + 1))
    BY <1>1, <1>3 DEF ShiftWord
  <2> QED BY <1>3, <2>1, SpliceReads
<1> QED BY <1>2, <1>3

\* A marker is where a reader of the document reads one.
LEMMA HeadersByReading ==
  ASSUME NEW c \in Content, NEW h \in Int
  PROVE  h \in Headers(c) <=> LineAt(c, h) = Marker
<1>1. Len(c) \in Nat
  BY LenProperties DEF Content
<1>2. Blank # Marker
  BY DEF Blank, Marker
<1> QED BY <1>1, <1>2 DEF Headers, LineAt

\* apply_line_deltas rewrites hex-word lines of records and nothing else.
LEMMA ApplyDeltaReads ==
  ASSUME NEW c \in Content, NEW from \in Int, NEW delta \in Int, NEW n \in Int
  PROVE  LineAt(ApplyDelta(c, from, delta), n) =
           IF n - 2 \in Headers(c) /\ LineAt(c, n).kind = "hex"
           THEN ShiftHexLine(LineAt(c, n), from, delta)
           ELSE LineAt(c, n)
<1> DEFINE ls    == Lines(c)
           moved == {a \in 0 .. Len(ls) - 1 :
                       /\ a - 2 \in Headers(c)
                       /\ ls[a + 1].kind = "hex"
                       /\ ShiftHexLine(ls[a + 1], from, delta) # ls[a + 1]}
           new   == [a \in moved |-> ShiftHexLine(ls[a + 1], from, delta)]
           shift == ShiftHexLine(LineAt(c, n), from, delta)
           hex   == n - 2 \in Headers(c) /\ LineAt(c, n).kind = "hex"
<1>1. ls \in Seq(Line) /\ Len(ls) \in Nat
  BY LinesType
<1>2. LineAt(c, n) = LineAt(ls, n)
  BY LinesReadsAlike
<1>3. ASSUME NEW a \in moved PROVE new[a] \in Line
  <2>1. a + 1 \in 1 .. Len(ls) /\ ls[a + 1].kind = "hex"
    BY <1>1
  <2>2. ls[a + 1] \in Line
    BY <1>1, <2>1, ElementOfSeq
  <2> QED BY <2>1, <2>2, ShiftHexLineType
<1>4. n \in moved <=> hex /\ shift # LineAt(c, n)
  <2>1. CASE n \in 0 .. Len(ls) - 1
    <3>1. LineAt(c, n) = ls[n + 1]
      BY <1>2, <2>1 DEF LineAt
    <3> QED BY <2>1, <3>1
  <2>2. CASE n \notin 0 .. Len(ls) - 1
    <3>1. LineAt(c, n) = Blank
      BY <1>2, <2>2 DEF LineAt
    <3> QED BY <2>2, <3>1 DEF Blank
  <2> QED BY <2>1, <2>2
<1>5. ASSUME n \in moved PROVE new[n] = shift /\ n \in 0 .. Len(ls) - 1
  <2>1. n \in 0 .. Len(ls) - 1
    BY <1>5
  <2>2. LineAt(c, n) = ls[n + 1]
    BY <1>2, <2>1 DEF LineAt
  <2> QED BY <1>5, <2>1, <2>2
<1>6. LineAt(UpdateLines(c, moved, new), n) = IF n \in moved THEN new[n] ELSE LineAt(c, n)
  <2> HIDE DEF moved, new
  <2>1. LineAt(UpdateLines(c, moved, new), n) =
          IF n \in moved /\ n \in 0 .. Len(Lines(c)) - 1 THEN new[n] ELSE LineAt(c, n)
    BY <1>3, UpdateLinesReads
  <2> QED BY <1>5, <2>1
<1>7. ApplyDelta(c, from, delta) = IF moved = {} THEN c ELSE UpdateLines(c, moved, new)
  BY DEF ApplyDelta
<1> HIDE DEF moved, new, shift
<1>8. LineAt(ApplyDelta(c, from, delta), n) = IF n \in moved THEN new[n] ELSE LineAt(c, n)
  BY <1>6, <1>7
<1>9. LineAt(ApplyDelta(c, from, delta), n) = IF hex THEN shift ELSE LineAt(c, n)
  BY <1>4, <1>5, <1>8
<1> QED BY <1>9 DEF shift

\* Every number above e is shifted like every other one, every number below s
\* stays: a record or a zone on one side of the edit keeps its shape.
LEMMA ShiftKeepsDistance ==
  ASSUME NEW s \in Nat, NEW e \in Int, NEW count \in Nat, s <= e + 1,
         NEW n \in Nat, NEW i \in Nat,
         n + i < s \/ n > e
  PROVE  /\ ShiftWord(n + i, e + 1, count - (e - s + 1)) =
               ShiftWord(n, e + 1, count - (e - s + 1)) + i
         /\ ShiftWord(n, e + 1, count - (e - s + 1)) \in Nat
  BY DEF ShiftWord

\* Lines s..e hold no line of an index record.
RecordsApart(c, s, e) == \A h \in Headers(c) : h + 6 < s \/ h > e

\* A delta of 0, which the code skips, would change no hex-word.
LEMMA ShiftByNothing ==
  ASSUME NEW line \in Line, line.kind = "hex", NEW from \in Int
  PROVE  ShiftHexLine(line, from, 0) = line
<1>1. line \in [kind : {"hex"}, zones : Zones]
  BY DEF Line, Blank, Marker
<1>2. line = [kind |-> "hex", zones |-> line.zones] /\ line.zones \in Zones
  BY <1>1
<1>3. ASSUME NEW z \in ZoneIdx
      PROVE  ShiftPair(line.zones[z], from, 0) = line.zones[z]
  <2>1. line.zones[z] \in ZonePair
    BY <1>2 DEF Zones
  <2> QED BY <2>1 DEF ZonePair, ShiftPair, ShiftWord
<1>4. [z \in ZoneIdx |-> ShiftPair(line.zones[z], from, 0)] = line.zones
  BY <1>2, <1>3 DEF Zones
<1> QED BY <1>2, <1>4 DEF ShiftHexLine, HexLine

\* The edited document, line by line: the spliced text, with the hex-word lines of
\* its records shifted.
LEMMA SpliceAndShiftReads ==
  ASSUME NEW c \in Content, NEW s \in Nat, NEW e \in Int, NEW new \in Seq(Line),
         e >= -1, NEW n \in Int
  PROVE  LET cut == Splice(c, s, e, new)
         IN  LineAt(SpliceAndShift(c, s, e, new), n) =
               IF n - 2 \in Headers(cut) /\ LineAt(cut, n).kind = "hex"
               THEN ShiftHexLine(LineAt(cut, n), e + 1, Len(new) - (e - s + 1))
               ELSE LineAt(cut, n)
<1> DEFINE cut   == Splice(c, s, e, new)
           delta == Len(new) - (e - s + 1)
<1>1. cut \in Content /\ delta \in Int /\ e + 1 \in Int
  BY SpliceType, LenProperties
<1>2. SpliceAndShift(c, s, e, new) = IF delta = 0 THEN cut ELSE ApplyDelta(cut, e + 1, delta)
  BY DEF SpliceAndShift
<1> HIDE DEF cut, delta
<1>3. CASE delta = 0
  <2>1. LineAt(cut, n) \in Line
    BY <1>1, LineAtType DEF Content
  <2>2. LineAt(cut, n).kind = "hex" => ShiftHexLine(LineAt(cut, n), e + 1, delta) = LineAt(cut, n)
    BY <1>1, <1>3, <2>1, ShiftByNothing
  <2>3. SpliceAndShift(c, s, e, new) = cut
    BY <1>2, <1>3
  <2> QED BY <2>2, <2>3 DEF cut, delta
<1>4. CASE delta # 0
  <2>1. SpliceAndShift(c, s, e, new) = ApplyDelta(cut, e + 1, delta)
    BY <1>2, <1>4
  <2>2. LineAt(ApplyDelta(cut, e + 1, delta), n) =
           IF n - 2 \in Headers(cut) /\ LineAt(cut, n).kind = "hex"
           THEN ShiftHexLine(LineAt(cut, n), e + 1, delta)
           ELSE LineAt(cut, n)
    BY <1>1, ApplyDeltaReads
  <2> QED BY <2>1, <2>2 DEF cut, delta
<1> QED BY <1>3, <1>4

\* The shift of hex-words touches neither markers nor what stands for one.
LEMMA EditKeepsHeaders ==
  ASSUME NEW c \in Content, NEW s \in Nat, NEW e \in Int, NEW new \in Seq(Line), e >= -1
  PROVE  Headers(SpliceAndShift(c, s, e, new)) = Headers(Splice(c, s, e, new))
<1> DEFINE cut   == Splice(c, s, e, new)
           d     == SpliceAndShift(c, s, e, new)
           delta == Len(new) - (e - s + 1)
<1>1. cut \in Content /\ d \in Content /\ delta \in Int
  <2>1. cut \in Content /\ delta \in Int /\ e + 1 \in Int
    BY SpliceType, LenProperties
  <2>2. ApplyDelta(cut, e + 1, delta) \in Content
    BY <2>1, ApplyDeltaType
  <2> QED BY <2>1, <2>2 DEF SpliceAndShift
<1>2. ASSUME NEW n \in Int
      PROVE  LineAt(d, n) = Marker <=> LineAt(cut, n) = Marker
  <2>1. LineAt(d, n) = IF n - 2 \in Headers(cut) /\ LineAt(cut, n).kind = "hex"
                       THEN ShiftHexLine(LineAt(cut, n), e + 1, delta)
                       ELSE LineAt(cut, n)
    BY SpliceAndShiftReads
  <2>2. ShiftHexLine(LineAt(cut, n), e + 1, delta) # Marker
    BY DEF ShiftHexLine, HexLine, Marker
  <2>3. LineAt(cut, n).kind = "hex" => LineAt(cut, n) # Marker
    BY DEF Marker
  <2> HIDE DEF cut, d
  <2> QED BY <2>1, <2>2, <2>3
<1>3. \A n \in Headers(d) : n \in Int
  BY DEF Headers
<1>4. \A n \in Headers(cut) : n \in Int
  BY DEF Headers
<1> HIDE DEF cut, d
<1>5. Headers(d) = Headers(cut)
  BY <1>1, <1>2, <1>3, <1>4, HeadersByReading
<1> QED BY <1>5 DEF cut, d

(***************************************************************************)
(* What an edit does to the lines and records it does not touch.           *)
(***************************************************************************)
\* A range that ends past the file ends, for the splice, with the file.
LEMMA SplicePast ==
  ASSUME NEW c \in Content, NEW s \in Nat, NEW e \in Int, NEW new \in Seq(Line),
         e >= Len(Lines(c))
  PROVE  Splice(c, s, e, new) =
           Splice(c, IF s < Len(Lines(c)) THEN s ELSE Len(Lines(c)), Len(Lines(c)) - 1, new)
<1> DEFINE ls == Lines(c)
           k  == IF s < Len(ls) THEN s ELSE Len(ls)
<1>1. ls \in Seq(Line) /\ Len(ls) \in Nat
  BY LinesType
<1> HIDE DEF ls
<1>2. (IF k < Len(ls) THEN k ELSE Len(ls)) = k
  BY <1>1
<1>3. SubSeq(ls, e + 2, Len(ls)) = << >>
  <2>1. Len(ls) < e + 2 /\ e + 2 \in Int /\ Len(ls) \in Int
    BY <1>1 DEF ls
  <2> QED BY <2>1, SubSeqEmpty
<1>4. SubSeq(ls, (Len(ls) - 1) + 2, Len(ls)) = << >>
  <2>1. Len(ls) < (Len(ls) - 1) + 2 /\ (Len(ls) - 1) + 2 \in Int /\ Len(ls) \in Int
    BY <1>1
  <2> QED BY <2>1, SubSeqEmpty
<1>5. Splice(c, s, e, new) = Join(SubSeq(ls, 1, k) \o new \o << >>)
  BY <1>3 DEF Splice, ls
<1>6. Splice(c, k, Len(ls) - 1, new) = Join(SubSeq(ls, 1, k) \o new \o << >>)
  <2> HIDE DEF k
  <2> QED BY <1>2, <1>4 DEF Splice, ls
<1> QED BY <1>5, <1>6 DEF ls

\* A line of the file that is not on the lines s..e is found in the spliced text
\* at its shifted number, wherever s..e ends.
LEMMA SpliceFollows ==
  ASSUME NEW c \in Content, NEW s \in Nat, NEW e \in Int, NEW new \in Seq(Line),
         s <= e + 1,
         NEW n \in Nat, n < s \/ n > e,
         n < Len(Lines(c)) \/ e < Len(Lines(c))
  PROVE  LineAt(Splice(c, s, e, new),
                ShiftWord(n, e + 1, Len(new) - (e - s + 1))) = LineAt(c, n)
<1>1. CASE e < Len(Lines(c))
  BY <1>1, ShiftedWordsFollowTheirLines
<1>2. CASE ~ (e < Len(Lines(c)))
  <2> DEFINE len == Len(Lines(c))
             k   == IF s < len THEN s ELSE len
  <2>1. len \in Nat
    BY LinesType
  <2> HIDE DEF len
  <2>2. e >= len /\ n < s /\ n < e + 1 /\ n < len
    BY <1>2, <2>1 DEF len
  <2>3. Splice(c, s, e, new) = Splice(c, k, len - 1, new)
    BY <2>2, SplicePast DEF len
  <2>4. k \in Nat /\ len - 1 \in Int /\ k <= (len - 1) + 1 /\ len - 1 < len /\ n \in 0 .. k - 1
    BY <2>1, <2>2
  <2> HIDE DEF k
  <2>5. LineAt(Splice(c, k, len - 1, new), n) = LineAt(c, n)
    BY <2>4, SpliceReads DEF len
  <2>6. ShiftWord(n, e + 1, Len(new) - (e - s + 1)) = n
    BY <2>2 DEF ShiftWord
  <2> QED BY <2>3, <2>5, <2>6
<1> QED BY <1>1, <1>2

\* The markers an edit of lines s..e does not take away.
Spared(c, s, e) == {h \in Headers(c) : h < s \/ h > e}

\* A marker is a line of str::lines().
LEMMA HeaderInLines ==
  ASSUME NEW c \in Content, NEW h \in Headers(c)
  PROVE  h \in Nat /\ h < Len(Lines(c)) /\ LineAt(c, h) = Marker
<1>1. Len(c) \in Nat \ {0}
  BY EmptySeq, LenProperties DEF Content
<1>2. h \in 0 .. Len(c) - 1 /\ c[h + 1] = Marker
  BY DEF Headers
<1>3. LineAt(c, h) = Marker
  BY <1>2 DEF LineAt
<1>4. h < Len(Lines(c))
  <2>1. LineAt(Lines(c), h) = Marker
    BY <1>2, <1>3, LinesReadsAlike
  <2>2. h \in 0 .. Len(Lines(c)) - 1
    BY <2>1 DEF LineAt, Blank, Marker
  <2> QED BY <2>2, LinesType
<1> QED BY <1>2, <1>3, <1>4

\* New lines with no marker among them.
Unmarked(new) == new \in Seq(Line) /\ \A i \in 1 .. Len(new) : new[i] # Marker

\* New lines that make and break no record: prose, or any unmarked lines where
\* they cover no line of a record.
Tame(c, s, e, new) == Unmarked(new) /\ (new \in Seq(Prose) \/ RecordsApart(c, s, e))

LEMMA ProseIsTame ==
  ASSUME NEW c, NEW s, NEW e, NEW new \in Seq(Prose)
  PROVE  Tame(c, s, e, new) /\ Unmarked(new)
<1>1. \A i \in 1 .. Len(new) : new[i] \in Prose
  BY ElementOfSeq
<1> QED BY <1>1, ProseSeq DEF Tame, Unmarked, Prose, Marker, Blank

\* A marker found after a splice of other lines was there before, above or below.
LEMMA MarkerOfSplice ==
  ASSUME NEW c \in Content, NEW s \in Nat, NEW e \in Int, NEW new, Unmarked(new),
         s <= e + 1, e < Len(Lines(c)),
         NEW m \in Headers(Splice(c, s, e, new))
  PROVE  \/ m < s /\ m \in Headers(c)
         \/ /\ m - (Len(new) - (e - s + 1)) > e
            /\ m - (Len(new) - (e - s + 1)) \in Headers(c)
<1> DEFINE out == Splice(c, s, e, new)
           gap == Len(new) - (e - s + 1)
<1>1. new \in Seq(Line) /\ Len(new) \in Nat /\ out \in Content
  BY LenProperties, SpliceType DEF Unmarked
<1>2. m \in Nat /\ LineAt(out, m) = Marker
  BY <1>1, HeaderInLines
<1>3. CASE m < s
  <2>1. LineAt(c, m) = Marker
    BY <1>1, <1>2, <1>3, SpliceReads
  <2> QED BY <1>2, <1>3, <2>1, HeadersByReading
<1>4. CASE m \in s .. s + Len(new) - 1
  <2>1. m - s \in 0 .. Len(new) - 1 /\ s + (m - s) = m /\ (m - s) + 1 \in 1 .. Len(new)
    BY <1>1, <1>2, <1>4
  <2>2. LineAt(out, m) = new[(m - s) + 1]
    <3>1. LineAt(out, s + (m - s)) = new[(m - s) + 1]
      BY <1>1, <2>1, SpliceReads
    <3> QED BY <2>1, <3>1
  <2>3. new[(m - s) + 1] # Marker
    BY <2>1 DEF Unmarked
  <2> QED BY <1>2, <2>2, <2>3
<1>5. CASE m >= s + Len(new)
  <2>1. m - gap \in Nat /\ m - gap > e /\ (m - gap) + gap = m
    BY <1>1, <1>2, <1>5
  <2>2. LineAt(out, (m - gap) + gap) = LineAt(c, m - gap)
    BY <1>1, <2>1, SpliceReads
  <2>3. m - gap \in Headers(c)
    BY <1>2, <2>1, <2>2, HeadersByReading
  <2> QED BY <2>1, <2>3
<1> QED BY <1>1, <1>2, <1>3, <1>4, <1>5

\* After a splice without markers, those of the document are the ones it had outside
\* s..e, each at its shifted place.
LEMMA SpliceMarkers ==
  ASSUME NEW c \in Content, NEW s \in Nat, NEW e \in Int, NEW new, Unmarked(new),
         s <= e + 1
  PROVE  Headers(Splice(c, s, e, new)) =
           {ShiftWord(h, e + 1, Len(new) - (e - s + 1)) : h \in Spared(c, s, e)}
<1> DEFINE cut   == Splice(c, s, e, new)
           delta == Len(new) - (e - s + 1)
           Sh(n) == ShiftWord(n, e + 1, delta)
<1>1. new \in Seq(Line) /\ Len(new) \in Nat /\ cut \in Content
  BY LenProperties, SpliceType DEF Unmarked
<1>2. ASSUME NEW h \in Spared(c, s, e) PROVE Sh(h) \in Headers(cut)
  <2>1. h \in Nat /\ h < Len(Lines(c)) /\ (h < s \/ h > e) /\ LineAt(c, h) = Marker
    BY HeaderInLines DEF Spared
  <2>2. LineAt(cut, Sh(h)) = Marker
    BY <1>1, <2>1, SpliceFollows
  <2>3. Sh(h) \in Int
    BY <1>1, <2>1 DEF ShiftWord
  <2> HIDE DEF cut, Sh
  <2> QED BY <1>1, <2>2, <2>3, HeadersByReading
<1>4. ASSUME NEW m \in Headers(cut) PROVE \E h \in Spared(c, s, e) : m = Sh(h)
  <2>1. CASE e < Len(Lines(c))
    <3>1. CASE m < s /\ m \in Headers(c)
      <4>1. m = Sh(m) /\ m \in Spared(c, s, e)
        <5>1. m \in Nat
          BY <3>1, HeaderInLines
        <5> QED BY <1>1, <3>1, <5>1 DEF ShiftWord, Spared
      <4> QED BY <4>1
    <3>2. CASE m - delta > e /\ m - delta \in Headers(c)
      <4>1. m - delta \in Spared(c, s, e)
        BY <3>2 DEF Spared
      <4>2. m = Sh(m - delta)
        <5>1. m - delta \in Nat /\ delta \in Int /\ m \in Int
          <6>1. m \in Nat
            BY <1>1, HeaderInLines
          <6> QED BY <1>1, <3>2, <6>1, HeaderInLines
        <5> HIDE DEF delta, cut
        <5>2. m - delta >= e + 1 /\ (m - delta) + delta = m /\ m >= 0
          BY <1>1, <3>2, <5>1, HeaderInLines
        <5> QED BY <5>1, <5>2 DEF ShiftWord
      <4> QED BY <4>1, <4>2
    <3> QED BY <2>1, <3>1, <3>2, MarkerOfSplice
  <2>2. CASE ~ (e < Len(Lines(c)))
    <3> DEFINE len == Len(Lines(c))
               k   == IF s < len THEN s ELSE len
    <3>1. len \in Nat
      BY LinesType
    <3>2. cut = Splice(c, k, len - 1, new)
      BY <1>1, <2>2, <3>1, SplicePast
    <3>3. k \in Nat /\ len - 1 \in Int /\ k <= (len - 1) + 1 /\ len - 1 < len /\ k <= s
      BY <3>1
    <3>4. \/ m < k /\ m \in Headers(c)
          \/ \E g \in Headers(c) : g > len - 1
      <4> HIDE DEF k, cut
      <4>1. m \in Headers(Splice(c, k, len - 1, new))
        BY <3>2
      <4> QED BY <3>3, <4>1, MarkerOfSplice
    <3>5. \A g \in Headers(c) : g \in Nat /\ g < len
      BY HeaderInLines
    <3>6. m < s /\ m \in Headers(c) /\ m \in Nat /\ m < e + 1
      <4> HIDE DEF len
      <4>1. m < k /\ m \in Headers(c)
        BY <3>1, <3>4, <3>5
      <4>2. m \in Nat /\ m < s
        BY <3>3, <3>5, <4>1
      <4> QED BY <4>1, <4>2
    <3> QED BY <3>6 DEF ShiftWord, Spared
  <2> QED BY <2>1, <2>2
<1> HIDE DEF cut, Sh
<1>5. Headers(cut) = {Sh(h) : h \in Spared(c, s, e)}
  BY <1>2, <1>4
<1> QED BY <1>5 DEF cut, Sh

\* The new lines stand where the edit began, if that is within the file.
LEMMA NewLineReads ==
  ASSUME NEW c \in Content, NEW s \in Nat, NEW e \in Int, NEW new \in Seq(Line),
         s <= e + 1, s <= Len(Lines(c)),
         NEW n \in 0 .. Len(new) - 1
  PROVE  LineAt(Splice(c, s, e, new), s + n) = new[n + 1]
<1>1. CASE e < Len(Lines(c))
  BY <1>1, SpliceReads
<1>2. CASE ~ (e < Len(Lines(c)))
  <2> DEFINE len == Len(Lines(c))
  <2>1. len \in Nat
    BY LinesType
  <2>2. (IF s < len THEN s ELSE len) = s
    BY <2>1
  <2>3. Splice(c, s, e, new) = Splice(c, s, len - 1, new)
    BY <1>2, <2>1, <2>2, SplicePast
  <2>4. len - 1 \in Int /\ s <= (len - 1) + 1 /\ len - 1 < len
    BY <2>1
  <2>5. LineAt(Splice(c, s, len - 1, new), s + n) = new[n + 1]
    <3> HIDE DEF len
    <3> QED BY <2>4, SpliceReads DEF len
  <2> QED BY <2>3, <2>5
<1> QED BY <1>1, <1>2

\* An edit that changes the number of lines takes no hex-words, and no index line,
\* away from under a marker it leaves.
HexWordsStay(c, s, e, new) ==
  \/ Len(new) = e - s + 1
  \/ \A h \in Headers(c) : h < s => h + 2 < s

\* A line outside the edit, found at its shifted place: itself, unless it is the
\* hex-word line of a record, which then has its words shifted.
LEMMA LineFollows ==
  ASSUME NEW c \in Content, NEW s \in Nat, NEW e \in Int, NEW new, Unmarked(new),
         s <= e + 1, HexWordsStay(c, s, e, new),
         NEW n \in Nat, n < s \/ n > e,
         n < Len(Lines(c)) \/ e < Len(Lines(c))
  PROVE  LineAt(SpliceAndShift(c, s, e, new),
                ShiftWord(n, e + 1, Len(new) - (e - s + 1))) =
           IF n - 2 \in Spared(c, s, e) /\ LineAt(c, n).kind = "hex"
           THEN ShiftHexLine(LineAt(c, n), e + 1, Len(new) - (e - s + 1))
           ELSE LineAt(c, n)
<1> DEFINE cut   == Splice(c, s, e, new)
           delta == Len(new) - (e - s + 1)
           Sh(m) == ShiftWord(m, e + 1, delta)
<1>1. new \in Seq(Line) /\ Len(new) \in Nat /\ Sh(n) \in Int
  BY LenProperties DEF ShiftWord, Unmarked
<1>2. LineAt(cut, Sh(n)) = LineAt(c, n)
  BY <1>1, SpliceFollows
<1>3. LineAt(SpliceAndShift(c, s, e, new), Sh(n)) =
        IF Sh(n) - 2 \in Headers(cut) /\ LineAt(cut, Sh(n)).kind = "hex"
        THEN ShiftHexLine(LineAt(cut, Sh(n)), e + 1, delta)
        ELSE LineAt(cut, Sh(n))
  BY <1>1, SpliceAndShiftReads
<1>4. Headers(cut) = {Sh(h) : h \in Spared(c, s, e)}
  BY SpliceMarkers
<1>5. ASSUME NEW h \in Spared(c, s, e)
      PROVE  Sh(n) - 2 = Sh(h) <=> n - 2 = h
  <2>1. h \in Nat /\ h \in Headers(c) /\ (h < s \/ h > e)
    BY HeaderInLines DEF Spared
  <2>2. Len(new) = e - s + 1 \/ (h < s => h + 2 < s)
    BY <2>1 DEF HexWordsStay
  <2>3. ShiftWord(n, e + 1, Len(new) - (e - s + 1)) - 2
          = ShiftWord(h, e + 1, Len(new) - (e - s + 1)) <=> n - 2 = h
    <3> HIDE DEF cut, delta, Sh
    <3> DEFINE count == Len(new)
    <3>1. count \in Nat /\ (count = e - s + 1 \/ (h < s => h + 2 < s))
      BY <1>1, <2>2
    <3> HIDE DEF count
    <3>2. ShiftWord(n, e + 1, count - (e - s + 1)) - 2
          = ShiftWord(h, e + 1, count - (e - s + 1)) <=> n - 2 = h
      BY <2>1, <3>1 DEF ShiftWord
    <3> QED BY <3>2 DEF count
  <2> QED BY <2>3
<1> HIDE DEF cut, Sh
<1>6. Sh(n) - 2 \in Headers(cut) <=> n - 2 \in Spared(c, s, e)
  BY <1>4, <1>5
<1>7. LineAt(SpliceAndShift(c, s, e, new), Sh(n)) =
        IF n - 2 \in Spared(c, s, e) /\ LineAt(c, n).kind = "hex"
        THEN ShiftHexLine(LineAt(c, n), e + 1, delta)
        ELSE LineAt(c, n)
  BY <1>2, <1>3, <1>6
<1> QED BY <1>7 DEF Sh

\* A line with something on it is a line of the file, for either reader.
LEMMA WrittenLineCounts ==
  ASSUME NEW d \in Content, NEW m \in Nat, LineAt(d, m) # Blank
  PROVE  m < Len(d) /\ m < Len(Lines(d))
<1>1. m \in 0 .. Len(d) - 1
  BY DEF LineAt
<1>2. m \in 0 .. Len(Lines(d)) - 1
  <2>1. LineAt(Lines(d), m) # Blank
    BY LinesReadsAlike
  <2> QED BY <2>1 DEF LineAt
<1>3. Len(d) \in Nat /\ Len(Lines(d)) \in Nat
  BY LinesType, LenProperties DEF Content
<1> QED BY <1>1, <1>2, <1>3

\* Every marker has an index line of its own below it: what is left of Loadable in
\* a file that a rewrite cut short at its empty lines.
Indexed(c) ==
  \A h \in Headers(c) :
    /\ LineAt(c, h + 1).kind = "index"
    /\ \A g \in Headers(c) : LineAt(c, g + 1) = LineAt(c, h + 1) => g = h

LEMMA LoadableIsIndexed ==
  ASSUME NEW c \in Content, Loadable(c)
  PROVE  Indexed(c)
<1>1. Len(c) \in Nat
  BY LenProperties DEF Content
<1>2. ASSUME NEW h \in Headers(c)
      PROVE  LineAt(c, h + 1) = c[h + 2] /\ c[h + 2].kind = "index"
  <2>1. h \in Nat /\ h + 7 <= Len(c) /\ c[h + 2].kind = "index"
    BY DEF Headers, Loadable
  <2>2. h + 1 \in 0 .. Len(c) - 1 /\ (h + 1) + 1 = h + 2
    BY <1>1, <2>1
  <2> QED BY <2>1, <2>2 DEF LineAt
<1>3. ASSUME NEW g \in Headers(c), NEW h \in Headers(c), c[g + 2] = c[h + 2] PROVE g = h
  BY <1>3 DEF Loadable
<1> QED BY <1>2, <1>3 DEF Indexed

\* What the record with a registry index holds in such a file.
LEMMA TheIndexed ==
  ASSUME NEW c \in Content, Indexed(c), NEW r, HasRec(c, r)
  PROVE  /\ HeaderLine(c, r) \in Headers(c)
         /\ HeaderLine(c, r) \in Nat
         /\ \A h \in Headers(c) : /\ h \in Nat /\ h + 1 < Len(Lines(c))
                                  /\ LineAt(c, h + 1).kind = "index"
                                  /\ LineAt(c, h + 1) = IndexLine(r) <=> h = HeaderLine(c, r)
<1>1. HeaderLine(c, r) \in HeadersOf(c, r)
  BY DEF HasRec, HeaderLine
<1>2. HeaderLine(c, r) \in Headers(c) /\ LineAt(c, HeaderLine(c, r) + 1) = IndexLine(r)
  BY <1>1 DEF HeadersOf
<1>3. ASSUME NEW h \in Headers(c)
      PROVE  /\ h \in Nat /\ h + 1 < Len(Lines(c)) /\ LineAt(c, h + 1).kind = "index"
             /\ LineAt(c, h + 1) = IndexLine(r) => h = HeaderLine(c, r)
  <2>1. h \in Nat /\ LineAt(c, h + 1).kind = "index"
    BY HeaderInLines DEF Indexed
  <2>2. LineAt(c, h + 1) # Blank
    BY <2>1 DEF Blank
  <2>3. h + 1 < Len(Lines(c))
    BY <2>1, <2>2, WrittenLineCounts
  <2>4. LineAt(c, h + 1) = IndexLine(r) => h = HeaderLine(c, r)
    BY <1>2 DEF Indexed
  <2> QED BY <2>1, <2>3, <2>4
<1> QED BY <1>2, <1>3

\* What each part of a record holds in a document scan_content accepts: the first
\* header with the registry index is the only one, and an index line follows it.
LEMMA TheRecord ==
  ASSUME NEW c \in Content, Loadable(c), NEW r \in Rec, HasRec(c, r)
  PROVE  /\ HeaderLine(c, r) \in Headers(c)
         /\ HeaderLine(c, r) \in Nat
         /\ \A h \in Headers(c) : /\ h \in Nat /\ h + 6 < Len(c)
                                  /\ LineAt(c, h + 1).kind = "index"
                                  /\ LineAt(c, h + 1) = IndexLine(r) <=> h = HeaderLine(c, r)
<1>1. Len(c) \in Nat
  BY LenProperties DEF Content
<1>2. HeaderLine(c, r) \in HeadersOf(c, r)
  BY DEF HasRec, HeaderLine
<1>3. ASSUME NEW h \in Headers(c)
      PROVE  h \in Nat /\ h + 6 < Len(c) /\ LineAt(c, h + 1) = c[h + 2] /\ c[h + 2].kind = "index"
  <2>1. h \in Nat /\ h + 7 <= Len(c) /\ c[h + 2].kind = "index"
    BY DEF Headers, Loadable
  <2>2. h + 1 \in 0 .. Len(c) - 1 /\ (h + 1) + 1 = h + 2
    BY <1>1, <2>1
  <2> QED BY <1>1, <2>1, <2>2 DEF LineAt
<1>4. HeaderLine(c, r) \in Headers(c) /\ LineAt(c, HeaderLine(c, r) + 1) = IndexLine(r)
  BY <1>2 DEF HeadersOf
<1>5. ASSUME NEW h \in Headers(c), LineAt(c, h + 1) = IndexLine(r)
      PROVE  h = HeaderLine(c, r)
  <2>1. c[h + 2] = c[HeaderLine(c, r) + 2]
    BY <1>3, <1>4, <1>5
  <2> QED BY <1>4, <2>1 DEF Loadable
<1> QED BY <1>3, <1>4, <1>5

\* The one record with a registry index is where its marker and index line are.
LEMMA OnlyRecord ==
  ASSUME NEW c, NEW r, NEW h \in Headers(c), LineAt(c, h + 1) = IndexLine(r),
         \A g \in Headers(c) : LineAt(c, g + 1) = IndexLine(r) => g = h
  PROVE  HeadersOf(c, r) = {h} /\ HasRec(c, r) /\ HeaderLine(c, r) = h
<1>1. HeadersOf(c, r) = {h}
  BY DEF HeadersOf
<1> QED BY <1>1 DEF HasRec, HeaderLine

\* A record whose first three lines an edit leaves alone moves as one: it is found
\* at the shifted place of its marker, and its hex-words are the shifted ones.
LEMMA IndexedFollows ==
  ASSUME NEW c \in Content, Indexed(c),
         NEW s \in Nat, NEW e \in Int, NEW new, Tame(c, s, e, new),
         s <= e + 1, HexWordsStay(c, s, e, new),
         NEW r \in Rec, HasRec(c, r),
         HeaderLine(c, r) + 2 < s \/ HeaderLine(c, r) > e, AsciiLine(c, r) < Len(Lines(c))
  PROVE  LET d == SpliceAndShift(c, s, e, new)
             delta == Len(new) - (e - s + 1)
         IN  /\ HeadersOf(d, r) = {ShiftWord(HeaderLine(c, r), e + 1, delta)}
             /\ HasRec(d, r)
             /\ HeaderLine(d, r) = ShiftWord(HeaderLine(c, r), e + 1, delta)
             /\ LineAt(d, AsciiLine(d, r)) =
                  IF LineAt(c, AsciiLine(c, r)).kind = "hex"
                  THEN ShiftHexLine(LineAt(c, AsciiLine(c, r)), e + 1, delta)
                  ELSE LineAt(c, AsciiLine(c, r))
<1> DEFINE d     == SpliceAndShift(c, s, e, new)
           delta == Len(new) - (e - s + 1)
           Sh(m) == ShiftWord(m, e + 1, delta)
           h0    == HeaderLine(c, r)
<1>1. new \in Seq(Line) /\ Len(new) \in Nat /\ e >= -1 /\ delta \in Int /\ Unmarked(new)
  BY LenProperties DEF Tame, Unmarked
<1>2. /\ h0 \in Headers(c) /\ h0 \in Nat
      /\ \A h \in Headers(c) : /\ h \in Nat /\ h + 1 < Len(Lines(c))
                               /\ LineAt(c, h + 1).kind = "index"
                               /\ LineAt(c, h + 1) = IndexLine(r) <=> h = h0
  BY TheIndexed
<1>3. Headers(d) = {Sh(h) : h \in Spared(c, s, e)}
  BY <1>1, EditKeepsHeaders, SpliceMarkers
<1>4. h0 + 2 < Len(Lines(c)) /\ Len(Lines(c)) \in Nat
  BY LinesType DEF AsciiLine
<1>5. ASSUME NEW n \in Nat, n < Len(Lines(c)), n < s \/ n > e
      PROVE  LineAt(d, Sh(n)) = IF n - 2 \in Spared(c, s, e) /\ LineAt(c, n).kind = "hex"
                                THEN ShiftHexLine(LineAt(c, n), e + 1, delta)
                                ELSE LineAt(c, n)
  BY <1>1, <1>5, LineFollows
<1>6. ASSUME NEW h \in Nat, NEW i \in Nat, h + i < s \/ h > e
      PROVE  Sh(h) + i = Sh(h + i)
  BY <1>1, <1>6 DEF ShiftWord
<1>7. h0 \in Spared(c, s, e)
  BY <1>2 DEF Spared
<1>8. LineAt(d, Sh(h0) + 1) = IndexLine(r)
  <2>1. h0 + 1 \in Nat /\ h0 + 1 < Len(Lines(c)) /\ (h0 + 1 < s \/ h0 + 1 > e)
    BY <1>2, <1>4
  <2>2. LineAt(c, h0 + 1).kind = "index" /\ LineAt(c, h0 + 1) = IndexLine(r)
    BY <1>2
  <2>3. Sh(h0) + 1 = Sh(h0 + 1)
    <3>1. h0 + 1 < s \/ h0 > e
      BY <1>2
    <3> QED BY <1>2, <1>6, <3>1
  <2> HIDE DEF d, Sh, h0
  <2>4. LineAt(d, Sh(h0 + 1)) = LineAt(c, h0 + 1)
    BY <1>5, <2>1, <2>2
  <2> QED BY <2>2, <2>3, <2>4
<1>9. ASSUME NEW h \in Spared(c, s, e), LineAt(d, Sh(h) + 1) = IndexLine(r)
      PROVE  h = h0
  <2>1. /\ h \in Headers(c) /\ h \in Nat /\ (h < s \/ h > e)
        /\ h + 1 \in Nat /\ h + 1 < Len(Lines(c)) /\ LineAt(c, h + 1).kind = "index"
    BY <1>2, <1>4 DEF Spared
  <2>2. CASE h + 1 < s \/ h + 1 > e
    <3>1. Sh(h) + 1 = Sh(h + 1)
      <4>1. CASE h + 1 < s \/ h > e
        BY <1>6, <2>1, <4>1
      <4>2. CASE ~ (h + 1 < s \/ h > e)
        <5>1. h + 1 = s /\ delta = 0
          BY <1>1, <2>1, <2>2, <4>2 DEF HexWordsStay
        <5> HIDE DEF delta
        <5> QED BY <2>1, <5>1 DEF ShiftWord
      <4> QED BY <4>1, <4>2
    <3> HIDE DEF d, Sh, h0
    <3>2. LineAt(d, Sh(h + 1)) = LineAt(c, h + 1)
      BY <1>5, <2>1, <2>2
    <3> QED BY <1>2, <1>9, <2>1, <3>1, <3>2
  <2>3. CASE ~ (h + 1 < s \/ h + 1 > e)
    <3>1. h + 1 = s /\ s <= e
      BY <2>1, <2>3
    <3>2. Len(new) = e - s + 1 /\ delta = 0
      BY <1>1, <2>1, <3>1 DEF HexWordsStay
    <3>3. Sh(h) + 1 = s + 0 /\ 0 \in 0 .. Len(new) - 1 /\ s <= Len(Lines(c))
      BY <1>1, <2>1, <3>1, <3>2 DEF ShiftWord
    <3>4. LineAt(Splice(c, s, e, new), s + 0) = new[0 + 1]
      <4> HIDE DEF d, Sh, h0, delta
      <4> QED BY <1>1, <3>3, NewLineReads
    <3>5. new[0 + 1] \in Prose
      <4>1. 0 + 1 \in 1 .. Len(new)
        BY <1>1, <3>3
      <4>2. ~ RecordsApart(c, s, e)
        BY <2>1, <3>1 DEF RecordsApart
      <4> QED BY <4>1, <4>2, ElementOfSeq DEF Tame
    <3>6. SpliceAndShift(c, s, e, new) = Splice(c, s, e, new)
      BY <3>2 DEF SpliceAndShift
    <3>7. LineAt(d, Sh(h) + 1) \in Prose
      <4> HIDE DEF Sh
      <4> QED BY <3>3, <3>4, <3>5, <3>6
    <3> QED BY <1>9, <3>7 DEF Prose, Blank, IndexLine
  <2> QED BY <2>2, <2>3
<1> HIDE DEF d, delta, Sh, h0
<1>10. HeadersOf(d, r) = {Sh(h0)} /\ HasRec(d, r) /\ HeaderLine(d, r) = Sh(h0)
  <2>1. Sh(h0) \in Headers(d)
    BY <1>3, <1>7
  <2>2. ASSUME NEW g \in Headers(d), LineAt(d, g + 1) = IndexLine(r) PROVE g = Sh(h0)
    BY <1>3, <1>9, <2>2
  <2> QED BY <1>8, <2>1, <2>2, OnlyRecord
<1>11. LineAt(d, Sh(h0) + 2) = IF LineAt(c, h0 + 2).kind = "hex"
                               THEN ShiftHexLine(LineAt(c, h0 + 2), e + 1, delta)
                               ELSE LineAt(c, h0 + 2)
  <2>1. (h0 + 2) - 2 = h0 /\ h0 + 2 \in Nat /\ h0 + 2 < Len(Lines(c))
        /\ (h0 + 2 < s \/ h0 + 2 > e)
    BY <1>2, <1>4 DEF h0
  <2>2. Sh(h0) + 2 = Sh(h0 + 2)
    BY <1>2, <1>6, <2>1 DEF h0
  <2> QED BY <1>5, <1>7, <2>1, <2>2
<1> QED BY <1>10, <1>11 DEF AsciiLine, d, delta, Sh, h0

\* ... so does one of a document scan_content accepts.
LEMMA RecordFollows ==
  ASSUME NEW c \in Content, Loadable(c),
         NEW s \in Nat, NEW e \in Int, NEW new, Tame(c, s, e, new),
         s <= e + 1, HexWordsStay(c, s, e, new),
         NEW r \in Rec, HasRec(c, r),
         HeaderLine(c, r) + 2 < s \/ HeaderLine(c, r) > e
  PROVE  LET d == SpliceAndShift(c, s, e, new)
             delta == Len(new) - (e - s + 1)
         IN  /\ HeadersOf(d, r) = {ShiftWord(HeaderLine(c, r), e + 1, delta)}
             /\ HasRec(d, r)
             /\ HeaderLine(d, r) = ShiftWord(HeaderLine(c, r), e + 1, delta)
             /\ LineAt(d, AsciiLine(d, r)) =
                  IF LineAt(c, AsciiLine(c, r)).kind = "hex"
                  THEN ShiftHexLine(LineAt(c, AsciiLine(c, r)), e + 1, delta)
                  ELSE LineAt(c, AsciiLine(c, r))
<1>1. HeaderLine(c, r) \in Nat /\ HeaderLine(c, r) + 6 < Len(c)
  BY TheRecord
<1>2. Len(Lines(c)) \in {Len(c) - 1, Len(c)} /\ Len(c) \in Nat
  BY LinesType, LenProperties DEF Content
<1>3. AsciiLine(c, r) < Len(Lines(c))
  BY <1>1, <1>2 DEF AsciiLine
<1> QED BY <1>3, LoadableIsIndexed, IndexedFollows

\* In a document scan_content accepts every marker starts a record that has a
\* registry index.
LEMMA MarkersAreRecords ==
  ASSUME NEW c \in Content, Loadable(c), NEW h \in Headers(c)
  PROVE  \E r \in Rec : HasRec(c, r) /\ HeaderLine(c, r) = h
<1>1. h \in Nat /\ LineAt(c, h + 1) \in Line /\ LineAt(c, h + 1) = c[h + 2]
      /\ c[h + 2].kind = "index"
  <2>1. h \in Nat /\ h + 7 <= Len(c) /\ c[h + 2].kind = "index"
    BY DEF Headers, Loadable
  <2>2. Len(c) \in Nat
    BY LenProperties DEF Content
  <2>3. LineAt(c, h + 1) \in Line
    BY <2>1, LineAtType DEF Content
  <2>4. h + 1 \in 0 .. Len(c) - 1 /\ (h + 1) + 1 = h + 2
    BY <2>1, <2>2
  <2> QED BY <2>1, <2>3, <2>4 DEF LineAt
<1>2. PICK r \in Rec : LineAt(c, h + 1) = IndexLine(r)
  BY <1>1 DEF Line, Blank, Marker, IndexLine
<1>3. h \in HeadersOf(c, r)
  BY <1>2 DEF HeadersOf
<1>4. HasRec(c, r) /\ HeaderLine(c, r) = h
  <2>1. HasRec(c, r)
    BY <1>3 DEF HasRec
  <2> QED BY <1>2, <2>1, TheRecord
<1> QED BY <1>4

\* One line more.
LEMMA OneMore ==
  ASSUME NEW S, NEW s \in Seq(S), NEW t \in Seq(S), Len(t) = 1
  PROVE  /\ s \o t \in Seq(S) /\ Len(s \o t) = Len(s) + 1
         /\ \A i \in 1 .. Len(s) : (s \o t)[i] = s[i]
         /\ (s \o t)[Len(s) + 1] = t[1]
<1>1. Len(s) \in Nat
  BY LenProperties
<1>2. /\ s \o t \in Seq(S) /\ Len(s \o t) = Len(s) + Len(t)
      /\ \A i \in 1 .. Len(s) + Len(t) :
            (s \o t)[i] = IF i <= Len(s) THEN s[i] ELSE t[i - Len(s)]
  BY ConcatProperties
<1>3. Len(s) + 1 \in 1 .. Len(s) + Len(t) /\ ~ (Len(s) + 1 <= Len(s)) /\ (Len(s) + 1) - Len(s) = 1
  BY <1>1
<1> QED BY <1>1, <1>2, <1>3

\* Three lines and three one-line strings are the six lines of a record.
LEMMA SixLines ==
  ASSUME NEW a \in Line, NEW b \in Line, NEW n \in Line,
         NEW strings \in [1 .. 3 -> Seq(Line)], \A i \in 1 .. 3 : Len(strings[i]) = 1
  PROVE  LET new == << a, b, n >> \o strings[1] \o strings[2] \o strings[3]
         IN  /\ new \in Seq(Line) /\ Len(new) = 6
             /\ new[1] = a /\ new[2] = b /\ new[3] = n
             /\ \A i \in 1 .. 3 : new[3 + i] = strings[i][1]
<1> DEFINE head == << a, b, n >>
           two  == head \o strings[1]
           four == two \o strings[2]
           new  == four \o strings[3]
<1>1. head \in Seq(Line) /\ Len(head) = 3 /\ head[1] = a /\ head[2] = b /\ head[3] = n
  OBVIOUS
<1>2. \A i \in 1 .. 3 : strings[i] \in Seq(Line) /\ Len(strings[i]) = 1
  OBVIOUS
<1> HIDE DEF head
<1>3. /\ two \in Seq(Line) /\ Len(two) = 4
      /\ two[1] = a /\ two[2] = b /\ two[3] = n /\ two[4] = strings[1][1]
  <2>1. strings[1] \in Seq(Line) /\ Len(strings[1]) = 1
    BY <1>2
  <2>2. /\ two \in Seq(Line) /\ Len(two) = Len(head) + 1
        /\ \A i \in 1 .. Len(head) : two[i] = head[i]
        /\ two[Len(head) + 1] = strings[1][1]
    BY <1>1, <2>1, OneMore
  <2> HIDE DEF two
  <2> QED BY <1>1, <2>2
<1> HIDE DEF two
<1>4. /\ four \in Seq(Line) /\ Len(four) = 5
      /\ four[1] = a /\ four[2] = b /\ four[3] = n
      /\ four[4] = strings[1][1] /\ four[5] = strings[2][1]
  <2>1. strings[2] \in Seq(Line) /\ Len(strings[2]) = 1
    BY <1>2
  <2>2. /\ four \in Seq(Line) /\ Len(four) = Len(two) + 1
        /\ \A i \in 1 .. Len(two) : four[i] = two[i]
        /\ four[Len(two) + 1] = strings[2][1]
    BY <1>3, <2>1, OneMore
  <2> HIDE DEF four
  <2> QED BY <1>3, <2>2
<1> HIDE DEF four
<1>5. /\ new \in Seq(Line) /\ Len(new) = 6
      /\ new[1] = a /\ new[2] = b /\ new[3] = n
      /\ new[4] = strings[1][1] /\ new[5] = strings[2][1] /\ new[6] = strings[3][1]
  <2>1. strings[3] \in Seq(Line) /\ Len(strings[3]) = 1
    BY <1>2
  <2>2. /\ new \in Seq(Line) /\ Len(new) = Len(four) + 1
        /\ \A i \in 1 .. Len(four) : new[i] = four[i]
        /\ new[Len(four) + 1] = strings[3][1]
    BY <1>4, <2>1, OneMore
  <2> HIDE DEF new
  <2> QED BY <1>4, <2>2
<1> HIDE DEF new
<1>6. \A i \in 1 .. 3 : new[3 + i] = strings[i][1]
  BY <1>5
<1> QED BY <1>5, <1>6 DEF new, four, two, head

\* The six lines of a record that the file holds give way to six others.
LEMMA RecordLinesReplaced ==
  ASSUME NEW c \in Content, NEW h \in Nat, h + 6 < Len(Lines(c)),
         NEW new \in Seq(Line), Len(new) = 6, NEW n \in Int
  PROVE  LineAt(Splice(c, h + 1, h + 6, new), n) =
           IF n \in h + 1 .. h + 6 THEN new[n - h] ELSE LineAt(c, n)
<1> DEFINE d == Splice(c, h + 1, h + 6, new)
<1>1. /\ \A m \in 0 .. h : LineAt(d, m) = LineAt(c, m)
      /\ \A m \in 0 .. 5 : LineAt(d, (h + 1) + m) = new[m + 1]
      /\ \A m \in Int : m > h + 6 => LineAt(d, m) = LineAt(c, m)
  <2>1. h + 1 \in Nat /\ h + 6 \in Int /\ h + 1 <= (h + 6) + 1 /\ (h + 1) - 1 = h
        /\ Len(new) - 1 = 5 /\ Len(new) - ((h + 6) - (h + 1) + 1) = 0
    OBVIOUS
  <2>2. /\ \A m \in 0 .. (h + 1) - 1 : LineAt(d, m) = LineAt(c, m)
        /\ \A m \in 0 .. Len(new) - 1 : LineAt(d, (h + 1) + m) = new[m + 1]
        /\ \A m \in Int : m > h + 6 =>
              LineAt(d, m + (Len(new) - ((h + 6) - (h + 1) + 1))) = LineAt(c, m)
    BY <2>1, SpliceReads
  <2> HIDE DEF d
  <2>3. \A m \in Int : m + 0 = m
    OBVIOUS
  <2> QED BY <2>1, <2>2, <2>3
<1> HIDE DEF d
<1>2. CASE n < 0
  <2>1. n \notin 0 .. Len(d) - 1 /\ n \notin 0 .. Len(c) - 1
    BY <1>2
  <2> QED BY <1>2, <2>1 DEF LineAt, d
<1>3. CASE n \in h + 1 .. h + 6
  <2>1. n - (h + 1) \in 0 .. 5 /\ (h + 1) + (n - (h + 1)) = n /\ (n - (h + 1)) + 1 = n - h
    BY <1>3
  <2>2. LineAt(d, (h + 1) + (n - (h + 1))) = new[(n - (h + 1)) + 1]
    BY <1>1, <2>1
  <2>3. LineAt(d, n) = new[n - h]
    BY <2>1, <2>2
  <2> QED BY <1>3, <2>3 DEF d
<1>4. CASE n \in 0 .. h
  BY <1>1, <1>4 DEF d
<1>5. CASE n > h + 6
  BY <1>1, <1>5 DEF d
<1> QED BY <1>2, <1>3, <1>4, <1>5

\* Lines that give way to lines that are neither markers nor index lines make no
\* record, and a record that keeps its own two stays where it is.
LEMMA RecordStays ==
  ASSUME NEW c \in Content, NEW d \in Content, NEW r, NEW h \in Int,
         HeadersOf(c, r) = {h},
         \A n \in Int : \/ LineAt(d, n) = LineAt(c, n)
                        \/ LineAt(d, n).kind \notin {"marker", "index"},
         LineAt(d, h) = LineAt(c, h), LineAt(d, h + 1) = LineAt(c, h + 1)
  PROVE  HeadersOf(d, r) = {h} /\ HasRec(d, r) /\ HeaderLine(d, r) = h
<1>1. h \in Headers(c) /\ LineAt(c, h + 1) = IndexLine(r)
  BY DEF HeadersOf
<1>2. h \in Headers(d) /\ LineAt(d, h + 1) = IndexLine(r)
  BY <1>1, HeadersByReading
<1>3. ASSUME NEW g \in Headers(d), LineAt(d, g + 1) = IndexLine(r) PROVE g = h
  <2>1. g \in Int /\ g + 1 \in Int /\ LineAt(d, g) = Marker
    BY HeaderInLines
  <2>2. LineAt(c, g) = Marker
    BY <2>1 DEF Marker
  <2>3. LineAt(c, g + 1) = IndexLine(r)
    BY <1>3, <2>1 DEF IndexLine
  <2>4. g \in HeadersOf(c, r)
    BY <2>1, <2>2, <2>3, HeadersByReading DEF HeadersOf
  <2> QED BY <2>4
<1> QED BY <1>2, <1>3, OnlyRecord

\* Every record that is found has its marker on a line of the document.
LEMMA HeaderLineType ==
  ASSUME NEW c \in Content, NEW r, HasRec(c, r)
  PROVE  HeaderLine(c, r) \in Nat /\ AsciiLine(c, r) \in Nat
<1>1. HeaderLine(c, r) \in HeadersOf(c, r)
  BY DEF HasRec, HeaderLine
<1>2. HeaderLine(c, r) \in Nat
  BY <1>1 DEF HeadersOf, Headers
<1> QED BY <1>2 DEF AsciiLine

\* The zones of a line that parses as hex-words have natural ends.
LEMMA ZonesThereType ==
  ASSUME NEW c \in Content, NEW a \in Int, IsHexWords(LineAt(c, a))
  PROVE  ZonesIn(LineAt(c, a)) \in Zones
<1>1. LineAt(c, a) \in Line
  BY LineAtType DEF Content
<1> QED BY <1>1, ZonesInType

\* The hex-words of a zone that is there are two line numbers.
LEMMA ZoneAtType ==
  ASSUME NEW c \in Content, NEW r \in Rec, NEW z \in ZoneIdx, HasRec(c, r),
         ZoneAt(c, r, z) # NoZone
  PROVE  /\ LineAt(c, AsciiLine(c, r)) \in Line
         /\ LineAt(c, AsciiLine(c, r)).kind = "hex"
         /\ ZoneAt(c, r, z) \in ZonePair
         /\ ZoneAt(c, r, z).start \in Nat /\ ZoneAt(c, r, z).end \in Nat
<1> DEFINE line == LineAt(c, AsciiLine(c, r))
<1>1. line \in Line
  BY HeaderLineType, LineAtType DEF Content
<1>2. line.kind = "hex"
  BY DEF ZoneAt, ZonesIn
<1>3. ZonesIn(line) \in Zones
  BY <1>1, <1>2, ZonesInType DEF IsHexWords
<1>4. ZoneAt(c, r, z) \in ZonePair
  BY <1>3 DEF ZoneAt, Zones
<1> QED BY <1>1, <1>2, <1>4 DEF ZonePair

\* Whatever stands where the hex-words should, a zone is a pair of line numbers.
LEMMA ZoneWordsType ==
  ASSUME NEW c \in Content, NEW r, HasRec(c, r), NEW z \in ZoneIdx
  PROVE  AsciiLine(c, r) \in Nat /\ ZoneAt(c, r, z) \in ZonePair
<1>1. AsciiLine(c, r) \in Nat /\ c \in Seq(Line)
  BY HeaderLineType DEF Content
<1>2. LineAt(c, AsciiLine(c, r)) \in Line
  BY <1>1, LineAtType
<1>3. NoZone \in ZonePair
  BY DEF NoZone, ZonePair
<1>4. ZonesIn(LineAt(c, AsciiLine(c, r))) \in Zones
  <2>1. CASE LineAt(c, AsciiLine(c, r)).kind = "hex"
    BY <1>2, <2>1, ZonesInType DEF IsHexWords
  <2>2. CASE LineAt(c, AsciiLine(c, r)).kind # "hex"
    BY <1>3, <2>2 DEF ZonesIn, Zones
  <2> QED BY <2>1, <2>2
<1> QED BY <1>1, <1>4 DEF ZoneAt, Zones
=============================================================================
