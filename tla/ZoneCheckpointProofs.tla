------------------------- MODULE ZoneCheckpointProofs -------------------------
(***************************************************************************)
(* For every document, whatever an editor does to it and wherever a        *)
(* command dies: what check finds, what a pull writes and what the         *)
(* checkpoint keeps.                                                       *)
(***************************************************************************)
EXTENDS ZoneCheckpoint, DocumentProofs, FiniteSetTheorems

(***************************************************************************)
(* The inductive invariant.  Each file is well formed by itself, the job   *)
(* is about the diff on disk, and as long as nobody saves the document     *)
(* under a command, diff and checkpoint belong together: the diff is that  *)
(* of its document against the checkpoint, or the checkpoint already is    *)
(* that of the document the pull makes of it (a pull that died behind its  *)
(* checkpoint).                                                            *)
(***************************************************************************)
\* A fingerprint as build_checkpoint takes it of a zone of the file: its two ends
\* are ends of its text.
Whole(fp) ==
  /\ fp \in FingerprintType
  /\ fp.pair # NoZone /\ fp.pair.start <= fp.pair.end
  /\ Len(fp.text) = fp.pair.end - fp.pair.start + 1
  /\ LET len == Len(fp.text)
         n   == Least(FingerprintLines, len)
     IN  /\ fp.leading = SubSeq(fp.text, 1, n)
         /\ fp.trailing = SubSeq(fp.text, len - n + 1, len)

WholeCheckpoint(saved) == \A k \in DOMAIN saved : k \in Key /\ Whole(saved[k])

Accounts(d) == {DOMAIN d.updates, d.manual, d.unresolved, d.changed}

WholeDiff(d) ==
  /\ d.base \in Content
  /\ \A k \in DOMAIN d.updates : k \in Key /\ d.updates[k].to.pair \in ZonePair
  /\ \A s, t \in Accounts(d) : s # t => s \cap t = {}

\* The files by themselves, and a job with the diff it is about.
FilesAreWhole ==
  /\ doc \in Content /\ undo \in Content
  /\ counts \in [commands : Nat, edits : Nat, crashes : Nat]
  /\ checkpoint = Missing => diff = Missing
  /\ checkpoint # Missing => checkpoint = << checkpoint[1] >> /\ WholeCheckpoint(checkpoint[1])
  /\ diff # Missing => WholeDiff(diff[1])

JobIsWhole ==
  /\ job.phase \in {"idle", "pulling", "applied", "written", "clearing", "rechecking"}
  /\ job.phase # "idle" =>
       /\ job = [phase |-> job.phase, diff |-> job.diff, new |-> job.new]
       /\ checkpoint # Missing /\ diff # Missing /\ diff[1] = job.diff
  /\ job.phase \in {"pulling", "applied"} => DOMAIN job.diff.updates # {}
  /\ job.phase = "applied" => job.new \in Content
  /\ job.phase = "clearing" => job.diff.unresolved = {}
  /\ job.phase = "rechecking" => job.diff.unresolved # {}

Agreed(d, saved) ==
  DOMAIN d.updates # {} =>
    \/ d = Diff(d.base, saved)
    \/ AlreadyCommitted(Applied(d.base, d), saved, d.unresolved)

FilesAgree ==
  ~ overlap =>
    /\ diff # Missing => Agreed(diff[1], checkpoint[1])
    /\ job.phase = "applied" => CanApply(doc, job.diff) /\ job.new = Applied(doc, job.diff)
    /\ job.phase = "written" =>
         IF DOMAIN job.diff.updates = {}
         THEN job.diff = Diff(doc, checkpoint[1])
         ELSE LET base == job.diff.base
              IN  CanApply(base, job.diff) /\ doc = Applied(base, job.diff)
    /\ job.phase \in {"clearing", "rechecking"} =>
         AlreadyCommitted(doc, checkpoint[1], job.diff.unresolved)

CheckpointInv == FilesAreWhole /\ JobIsWhole /\ FilesAgree

(***************************************************************************)
(* Slices.                                                                 *)
(***************************************************************************)
\* Inside the file a slice is the lines it names.
LEMMA SliceInside ==
  ASSUME NEW ls \in Seq(Line), NEW from \in Nat, NEW to \in Int, to < Len(ls)
  PROVE  Slice(ls, from, to) = SubSeq(ls, from + 1, to + 1)
<1>1. Len(ls) \in Nat
  BY LenProperties
<1>2. (IF from < 0 THEN 0 ELSE from) + 1 = from + 1
  OBVIOUS
<1>3. Least(to + 1, Len(ls)) = to + 1
  BY <1>1 DEF Least
<1> QED BY <1>2, <1>3 DEF Slice

\* Anywhere it is a sequence of lines.
LEMMA SliceType ==
  ASSUME NEW ls \in Seq(Line), NEW from \in Int, NEW to \in Int
  PROVE  Slice(ls, from, to) \in Seq(Line)
<1> DEFINE m == (IF from < 0 THEN 0 ELSE from) + 1
           n == Least(to + 1, Len(ls))
<1>1. Len(ls) \in Nat
  BY LenProperties
<1>2. m \in Int /\ n \in Int /\ m >= 1 /\ n <= Len(ls)
  BY <1>1 DEF Least
<1> HIDE DEF m, n
<1>3. \A i \in m .. n : ls[i] \in Line
  <2> TAKE i \in m .. n
  <2>1. i \in 1 .. Len(ls)
    BY <1>1, <1>2
  <2> QED BY <2>1, ElementOfSeq
<1> QED BY <1>2, <1>3, SubSeqProperties DEF Slice, m, n

\* A slice that has all the lines it names ends in the file.
LEMMA SliceFull ==
  ASSUME NEW ls \in Seq(Line), NEW from \in Nat, NEW to \in Nat, from <= to,
         Len(Slice(ls, from, to)) = to - from + 1
  PROVE  to < Len(ls)
<1>1. Len(ls) \in Nat
  BY LenProperties
<1> SUFFICES ASSUME ~ (to < Len(ls)) PROVE FALSE
  OBVIOUS
<1>2. Slice(ls, from, to) = SubSeq(ls, from + 1, Len(ls))
  <2>1. (IF from < 0 THEN 0 ELSE from) + 1 = from + 1
    OBVIOUS
  <2>2. Least(to + 1, Len(ls)) = Len(ls)
    BY <1>1 DEF Least
  <2> QED BY <2>1, <2>2 DEF Slice
<1>3. \A i \in from + 1 .. Len(ls) : ls[i] \in Line
  <2> TAKE i \in from + 1 .. Len(ls)
  <2>1. i \in 1 .. Len(ls)
    BY <1>1
  <2> QED BY <2>1, ElementOfSeq
<1> DEFINE m == from + 1
           n == Len(ls)
<1>4. m \in Int /\ n \in Int /\ \A i \in m .. n : ls[i] \in Line
  BY <1>1, <1>3
<1> HIDE DEF m, n
<1>5. Len(SubSeq(ls, m, n)) = IF m <= n THEN n - m + 1 ELSE 0
  BY <1>4, SubSeqProperties
<1>6. (IF m <= n THEN n - m + 1 ELSE 0) = to - from + 1
  BY <1>2, <1>5 DEF m, n
<1> QED BY <1>1, <1>6 DEF m, n

\* The fingerprint of a zone of the file is whole.
LEMMA FingerprintIsWhole ==
  ASSUME NEW c \in Content, NEW p \in ZonePair, p # NoZone,
         p.start <= p.end, p.end < Len(Lines(c))
  PROVE  Whole(Fingerprint(c, p))
<1> DEFINE ls  == Lines(c)
           s   == p.start
           e   == p.end
           len == e - s + 1
           n   == Least(FingerprintLines, len)
           fp  == Fingerprint(c, p)
<1>1. ls \in Seq(Line) /\ Len(ls) \in Nat
  BY LinesType
<1>2. s \in Nat /\ e \in Nat /\ s <= e /\ e < Len(ls)
  BY DEF ZonePair
<1>3. n \in Nat /\ 1 <= n /\ n <= len /\ len \in Nat
  BY <1>2, CheckpointAssumption DEF Least
<1>4. /\ fp.pair = p /\ fp.text = Slice(ls, s, e)
      /\ fp.leading = Slice(ls, s, s + n - 1) /\ fp.trailing = Slice(ls, e - n + 1, e)
  BY DEF Fingerprint
<1>5. fp \in FingerprintType
  <2>1. \A a, b \in Int : Slice(ls, a, b) \in Seq(Line)
    BY <1>1, SliceType
  <2>2. FingerprintLines \in Int
    BY CheckpointAssumption
  <2>3. /\ s \in Int /\ e \in Int /\ s + n - 1 \in Int /\ e - n + 1 \in Int
        /\ s - FingerprintLines \in Int /\ s - 1 \in Int /\ e + 1 \in Int /\ e + FingerprintLines \in Int
    BY <1>2, <1>3, <2>2, SMTT(30)
  <2>4. /\ Slice(ls, s, e) \in Seq(Line) /\ Slice(ls, s, s + n - 1) \in Seq(Line)
        /\ Slice(ls, e - n + 1, e) \in Seq(Line) /\ Slice(ls, s - FingerprintLines, s - 1) \in Seq(Line)
        /\ Slice(ls, e + 1, e + FingerprintLines) \in Seq(Line)
    BY <2>1, <2>3
  <2>5. fp = [pair |-> p, text |-> Slice(ls, s, e), leading |-> Slice(ls, s, s + n - 1),
              trailing |-> Slice(ls, e - n + 1, e),
              before |-> Slice(ls, s - FingerprintLines, s - 1),
              after |-> Slice(ls, e + 1, e + FingerprintLines)]
    BY DEF Fingerprint
  <2> HIDE DEF fp, n, ls, s, e
  <2> QED BY <2>4, <2>5 DEF FingerprintType
<1> HIDE DEF fp, n, ls, s, e, len
<1>0. len = e - s + 1
  BY DEF len
<1>6. fp.text = SubSeq(ls, s + 1, e + 1)
  <2>1. e \in Int
    BY <1>2
  <2>2. Slice(ls, s, e) = SubSeq(ls, s + 1, e + 1)
    BY <1>1, <1>2, <2>1, SliceInside
  <2> QED BY <1>4, <2>2
<1>7. Len(fp.text) = len
  <2>1. \A i \in s + 1 .. e + 1 : ls[i] \in Line
    <3> TAKE i \in s + 1 .. e + 1
    <3>1. i \in 1 .. Len(ls)
      BY <1>1, <1>2
    <3> QED BY <1>1, <3>1, ElementOfSeq
  <2> DEFINE a == s + 1
             b == e + 1
  <2>2. a \in Int /\ b \in Int /\ a <= b /\ b - a + 1 = len /\ \A i \in a .. b : ls[i] \in Line
    BY <1>0, <1>2, <2>1
  <2> HIDE DEF a, b
  <2>3. Len(SubSeq(ls, a, b)) = b - a + 1
    BY <2>2, SubSeqProperties
  <2> QED BY <1>6, <2>2, <2>3 DEF a, b
<1>8. s + 1 \in 1 .. Len(ls) /\ e + 1 \in 1 .. Len(ls)
  BY <1>1, <1>2
<1>9. \A m \in 1 .. len, k \in 1 .. len : SubSeq(fp.text, m, k) = SubSeq(ls, s + m, s + k)
  <2> TAKE m \in 1 .. len, k \in 1 .. len
  <2> DEFINE a == s + 1
             b == e + 1
  <2>1. a \in 1 .. Len(ls) /\ b \in 1 .. Len(ls) /\ m \in 1 .. b - a + 1 /\ k \in 1 .. b - a + 1
    BY <1>0, <1>2, <1>8
  <2>2. a + m - 1 = s + m /\ a + k - 1 = s + k
    BY <1>2
  <2> HIDE DEF a, b
  <2>3. SubSeq(SubSeq(ls, a, b), m, k) = SubSeq(ls, a + m - 1, a + k - 1)
    BY <1>1, <2>1, SubSeqOfSubSeq
  <2> QED BY <1>6, <2>2, <2>3 DEF a, b
<1>10. fp.leading = SubSeq(fp.text, 1, n)
  <2>1. SubSeq(fp.text, 1, n) = SubSeq(ls, s + 1, s + n)
    <3>1. 1 \in 1 .. len /\ n \in 1 .. len
      BY <1>3
    <3> QED BY <1>9, <3>1
  <2>2. Slice(ls, s, s + n - 1) = SubSeq(ls, s + 1, (s + n - 1) + 1)
    <3> DEFINE b == s + n - 1
    <3>1. b \in Int /\ b < Len(ls)
      BY <1>0, <1>1, <1>2, <1>3
    <3> HIDE DEF b
    <3>2. Slice(ls, s, b) = SubSeq(ls, s + 1, b + 1)
      BY <1>1, <1>2, <3>1, SliceInside
    <3> QED BY <3>2 DEF b
  <2>3. (s + n - 1) + 1 = s + n
    BY <1>2, <1>3
  <2> QED BY <1>4, <2>1, <2>2, <2>3
<1>11. fp.trailing = SubSeq(fp.text, len - n + 1, len)
  <2>1. SubSeq(fp.text, len - n + 1, len) = SubSeq(ls, s + (len - n + 1), s + len)
    <3>1. len - n + 1 \in 1 .. len /\ len \in 1 .. len
      BY <1>3
    <3> QED BY <1>9, <3>1
  <2>2. Slice(ls, e - n + 1, e) = SubSeq(ls, (e - n + 1) + 1, e + 1)
    <3> DEFINE a == e - n + 1
    <3>1. a \in Nat /\ e \in Int
      BY <1>0, <1>2, <1>3
    <3> HIDE DEF a
    <3>2. Slice(ls, a, e) = SubSeq(ls, a + 1, e + 1)
      BY <1>1, <1>2, <3>1, SliceInside
    <3> QED BY <3>2 DEF a
  <2>3. s + (len - n + 1) = (e - n + 1) + 1 /\ s + len = e + 1
    BY <1>0, <1>2, <1>3
  <2> QED BY <1>4, <2>1, <2>2, <2>3
<1>12. fp.pair # NoZone /\ fp.pair.start <= fp.pair.end /\ len = fp.pair.end - fp.pair.start + 1
  BY <1>4 DEF len, s, e
<1>13. Whole(fp)
  BY <1>5, <1>7, <1>10, <1>11, <1>12 DEF Whole, n
<1> QED BY <1>13 DEF fp

(***************************************************************************)
(* locate_zone.                                                            *)
(***************************************************************************)
\* Four lines at either end and a checksum find the places a comparison of the
\* whole text would find, in every file.
THEOREM ExactFindsThePlaces ==
  ASSUME NEW ls \in Seq(Line), NEW fp, Whole(fp)
  PROVE  Exact(ls, fp) = Places(ls, fp.text)
<1> DEFINE text == fp.text
           len  == Len(text)
           n    == Least(FingerprintLines, len)
           lead == fp.leading
           trail == fp.trailing
<1>1. text \in Seq(Line) /\ len \in Nat /\ Len(ls) \in Nat
  BY LenProperties DEF Whole, FingerprintType
<1>2. 1 <= len
  <2>1. fp.pair \in ZonePair /\ fp.pair.start <= fp.pair.end /\ len = fp.pair.end - fp.pair.start + 1
    BY DEF Whole, FingerprintType
  <2> QED BY <2>1 DEF ZonePair
<1>3. n \in Nat /\ 1 <= n /\ n <= len
  BY <1>1, <1>2, CheckpointAssumption DEF Least
<1>4. lead = SubSeq(text, 1, n) /\ trail = SubSeq(text, len - n + 1, len)
  BY DEF Whole
<1>5. text # << >>
  BY <1>2
<1> HIDE DEF n, len, text, lead, trail
<1>6. Len(lead) = n /\ Len(trail) = n /\ lead # << >>
  <2>1. \A i \in 1 .. len : text[i] \in Line
    BY <1>1, ElementOfSeq DEF len
  <2>2. 1 \in Int /\ n \in Int /\ \A i \in 1 .. n : text[i] \in Line
    BY <1>1, <1>3, <2>1
  <2>3. Len(SubSeq(text, 1, n)) = IF 1 <= n THEN n - 1 + 1 ELSE 0
    BY <2>2, SubSeqProperties
  <2> DEFINE a == len - n + 1
  <2>4. a \in Int /\ len \in Int /\ a <= len /\ len - a + 1 = n /\ \A i \in a .. len : text[i] \in Line
    BY <1>1, <1>3, <2>1
  <2> HIDE DEF a
  <2>5. Len(SubSeq(text, a, len)) = IF a <= len THEN len - a + 1 ELSE 0
    BY <2>4, SubSeqProperties
  <2>6. Len(lead) = n /\ Len(trail) = n
    BY <1>3, <1>4, <2>3, <2>4, <2>5 DEF a
  <2>7. Len(lead) # 0
    BY <1>3, <2>6
  <2> QED BY <2>6, <2>7
\* What a run of lines that is the text has at its ends.
<1>7. ASSUME NEW i \in 0 .. Len(ls) - len, SubSeq(ls, i + 1, i + len) = text
      PROVE  /\ SubSeq(ls, i + 1, i + n) = lead
             /\ Slice(ls, (i + len - 1) - n + 1, i + len - 1) = trail
             /\ Slice(ls, i, i + len - 1) = text
  <2> DEFINE a == i + 1
             b == i + len
  <2>1. i \in Nat /\ a \in 1 .. Len(ls) /\ b \in 1 .. Len(ls) /\ b - a + 1 = len
    BY <1>1, <1>2
  <2>2. a + 1 - 1 = i + 1 /\ a + n - 1 = i + n /\ a + (len - n + 1) - 1 = i + (len - n + 1)
        /\ a + len - 1 = i + len
    BY <1>1, <1>3, <2>1
  <2>3. SubSeq(ls, a, b) = text
    BY <1>7
  <2> HIDE DEF a, b
  <2>4. \A m \in 1 .. len, k \in 1 .. len : SubSeq(text, m, k) = SubSeq(ls, a + m - 1, a + k - 1)
    <3> TAKE m \in 1 .. len, k \in 1 .. len
    <3>1. m \in 1 .. b - a + 1 /\ k \in 1 .. b - a + 1
      BY <2>1
    <3>2. SubSeq(SubSeq(ls, a, b), m, k) = SubSeq(ls, a + m - 1, a + k - 1)
      BY <2>1, <3>1, SubSeqOfSubSeq
    <3> QED BY <2>3, <3>2
  <2>5. 1 \in 1 .. len /\ n \in 1 .. len /\ len - n + 1 \in 1 .. len /\ len \in 1 .. len
    BY <1>1, <1>3
  <2>6. SubSeq(text, 1, n) = SubSeq(ls, i + 1, i + n)
    BY <2>2, <2>4, <2>5
  <2>7. SubSeq(text, len - n + 1, len) = SubSeq(ls, i + (len - n + 1), i + len)
    BY <2>2, <2>4, <2>5
  <2> DEFINE from == (i + len - 1) - n + 1
             to   == i + len - 1
  <2>8. from \in Nat /\ to \in Int /\ to < Len(ls) /\ from + 1 = i + (len - n + 1) /\ to + 1 = i + len
    BY <1>1, <1>3, <2>1
  <2> HIDE DEF from, to
  <2>9. Slice(ls, from, to) = SubSeq(ls, from + 1, to + 1)
    BY <2>8, SliceInside
  <2>10. Slice(ls, i, to) = SubSeq(ls, i + 1, to + 1)
    BY <2>1, <2>8, SliceInside
  <2> QED BY <1>4, <1>7, <2>6, <2>7, <2>8, <2>9, <2>10 DEF from, to
<1>8. ASSUME NEW p \in Exact(ls, fp) PROVE p \in Places(ls, text)
  <2>1. PICK i \in Positions(ls, lead) : p = [start |-> i, end |-> i + len - 1]
    BY DEF Exact, lead, len, text
  <2>2. p.start = i /\ p.end = i + len - 1 /\ p.end < Len(ls) /\ Slice(ls, p.start, p.end) = text
    BY <2>1 DEF Exact, text
  <2>3. i \in Nat
    <3>1. i \in 0 .. Len(ls) - n
      BY <1>6, <2>1 DEF Positions
    <3> QED BY <3>1
  <2>4. i + len - 1 \in Int /\ i + len - 1 < Len(ls) /\ (i + len - 1) + 1 = i + len
        /\ i \in 0 .. Len(ls) - len
    BY <1>1, <1>2, <2>2, <2>3
  <2> DEFINE to == i + len - 1
  <2>5. to \in Int /\ to < Len(ls) /\ to + 1 = i + len
    BY <2>4
  <2> HIDE DEF to
  <2>6. Slice(ls, i, to) = SubSeq(ls, i + 1, to + 1)
    BY <2>3, <2>5, SliceInside
  <2>7. SubSeq(ls, i + 1, i + len) = text
    BY <2>2, <2>5, <2>6 DEF to
  <2>8. i \in Positions(ls, text)
    BY <1>5, <2>4, <2>7 DEF Positions, len
  <2> QED BY <2>1, <2>8 DEF Places, len
<1>9. ASSUME NEW p \in Places(ls, text) PROVE p \in Exact(ls, fp)
  <2>1. PICK i \in Positions(ls, text) : p = [start |-> i, end |-> i + len - 1]
    BY DEF Places, len
  <2>2. i \in 0 .. Len(ls) - len /\ SubSeq(ls, i + 1, i + len) = text
    BY <1>5, <2>1 DEF Positions, len
  <2>3. i \in Positions(ls, lead)
    <3>1. i \in 0 .. Len(ls) - n
      BY <1>1, <1>3, <2>2
    <3>2. SubSeq(ls, i + 1, i + n) = lead
      BY <1>7, <2>2
    <3> QED BY <1>6, <3>1, <3>2 DEF Positions
  <2>4. p.start = i /\ p.end = i + len - 1 /\ p.end < Len(ls)
    BY <1>1, <1>2, <2>1, <2>2
  <2>5. /\ Slice(ls, p.end - Len(trail) + 1, p.end) = trail
        /\ Slice(ls, p.start, p.end) = text
    BY <1>6, <1>7, <2>2, <2>4
  <2>6. p \in {[start |-> s, end |-> s + Len(fp.text) - 1] : s \in Positions(ls, fp.leading)}
    BY <2>1, <2>3 DEF lead, len, text
  <2> QED BY <2>4, <2>5, <2>6 DEF Exact, trail, text
<1> QED BY <1>8, <1>9 DEF text

\* One place means there is one.
LEMMA SingleHasOne ==
  ASSUME NEW S, Single(S)
  PROVE  The(S) \in S
<1>1. S # {}
  BY FS_EmptySet DEF Single
<1> QED BY <1>1 DEF The

\* Where locate_zone finds a zone there is a pair of line numbers.
LEMMA LocatedType ==
  ASSUME NEW ls \in Seq(Line), NEW fp, Whole(fp), Located(ls, fp).method # "none"
  PROVE  Located(ls, fp).pair \in ZonePair
<1>1. Len(ls) \in Nat
  BY LenProperties
<1>2. ASSUME NEW part \in Seq(Line), NEW i \in Positions(ls, part)
      PROVE  i \in Nat /\ i + Len(part) - 1 \in Nat
  <2>1. part # << >> /\ i \in 0 .. Len(ls) - Len(part)
    BY <1>2 DEF Positions
  <2>2. Len(part) \in Nat \ {0}
    BY <2>1, EmptySeq, LenProperties
  <2> QED BY <2>1, <2>2
<1>3. /\ fp.text \in Seq(Line) /\ fp.leading \in Seq(Line) /\ fp.trailing \in Seq(Line)
      /\ fp.before \in Seq(Line) /\ fp.after \in Seq(Line)
  BY DEF Whole, FingerprintType
<1>4. ASSUME NEW starts \in SUBSET Nat, NEW ends \in SUBSET Nat
      PROVE  Pairs(starts, ends) \subseteq ZonePair
  BY DEF Pairs, ZonePair
<1>5. Exact(ls, fp) \subseteq ZonePair
  <2> SUFFICES ASSUME NEW p \in Exact(ls, fp) PROVE p \in ZonePair
    OBVIOUS
  <2>1. p \in Places(ls, fp.text)
    BY <1>3, ExactFindsThePlaces
  <2>2. PICK i \in Positions(ls, fp.text) : p = [start |-> i, end |-> i + Len(fp.text) - 1]
    BY <2>1 DEF Places
  <2>3. i \in Nat /\ i + Len(fp.text) - 1 \in Nat
    BY <1>2, <1>3
  <2> QED BY <2>2, <2>3 DEF ZonePair
<1>6. InContext(ls, fp) \subseteq ZonePair
  <2> DEFINE starts == {i + Len(fp.before) : i \in Positions(ls, fp.before)}
             ends   == {i - 1 : i \in Positions(ls, fp.after) \ {0}}
  <2>1. starts \subseteq Nat
    BY <1>2, <1>3, LenProperties
  <2>2. ends \subseteq Nat
    BY <1>2, <1>3
  <2> HIDE DEF starts, ends
  <2>3. Pairs(starts, ends) \subseteq ZonePair
    BY <1>4, <2>1, <2>2
  <2> QED BY <2>3 DEF InContext, starts, ends
<1>7. Bounded(ls, fp) \subseteq ZonePair
  <2> DEFINE starts == Positions(ls, fp.leading)
             ends   == {i + Len(fp.trailing) - 1 : i \in Positions(ls, fp.trailing)}
  <2>1. starts \subseteq Nat
    BY <1>2, <1>3
  <2>2. ends \subseteq Nat
    BY <1>2, <1>3
  <2> HIDE DEF starts, ends
  <2>3. Pairs(starts, ends) \subseteq ZonePair
    BY <1>4, <2>1, <2>2
  <2> QED BY <2>3 DEF Bounded, starts, ends
<1>8. Located(ls, fp).pair \in Exact(ls, fp) \cup InContext(ls, fp) \cup Bounded(ls, fp)
  BY SingleHasOne DEF Located
<1> QED BY <1>5, <1>6, <1>7, <1>8

\* A zone whose verdict is kept reads its text at its pair; one that has moved does
\* not, and has been found.
LEMMA VerdictMeans ==
  ASSUME NEW c \in Content, NEW k \in Key, NEW fp, Whole(fp)
  PROVE  LET v == Verdict(c, k, fp)
             p == ZoneAt(c, k[1], k[2])
         IN  /\ v \in {"kept", "moved"} =>
                  /\ Readable(c, k[1]) /\ LineAt(c, AsciiLine(c, k[1])).kind = "hex"
                  /\ p = fp.pair
             /\ v = "kept" => p.end < Len(Lines(c)) /\ ReadsText(c, p, fp.text)
             /\ v = "moved" =>
                  /\ Located(Lines(c), fp).method # "none" /\ Located(Lines(c), fp).pair # p
                  /\ ~ ReadsText(c, p, fp.text)
<1> DEFINE v     == Verdict(c, k, fp)
           p     == ZoneAt(c, k[1], k[2])
           reads == Slice(Lines(c), p.start, p.end) = fp.text
           found == Located(Lines(c), fp)
<1>1. v = IF ~ Readable(c, k[1]) THEN "manual"
          ELSE IF LineAt(c, AsciiLine(c, k[1])).kind # "hex" THEN "unresolved"
          ELSE IF p # fp.pair THEN "manual"
          ELSE IF p.start <= p.end /\ p.end < Len(Lines(c)) /\ reads THEN "kept"
          ELSE IF found.method = "none" THEN "unresolved"
          ELSE IF found.pair = p THEN "changed"
          ELSE "moved"
  BY DEF Verdict
<1>2. ASSUME p = fp.pair, reads PROVE p.start <= p.end /\ p.end < Len(Lines(c))
  <2>1. /\ fp.pair \in ZonePair /\ fp.pair.start <= fp.pair.end
        /\ Len(fp.text) = fp.pair.end - fp.pair.start + 1
    BY DEF Whole, FingerprintType
  <2> DEFINE from == p.start
             to   == p.end
             ls   == Lines(c)
  <2>2. from \in Nat /\ to \in Nat /\ from <= to /\ ls \in Seq(Line)
    BY <1>2, <2>1, LinesType DEF ZonePair
  <2>3. Len(Slice(ls, from, to)) = to - from + 1
    BY <1>2, <2>1
  <2> HIDE DEF from, to, ls
  <2>4. to < Len(ls)
    BY <2>2, <2>3, SliceFull
  <2> QED BY <2>2, <2>4 DEF from, to, ls
<1> DEFINE readable == Readable(c, k[1])
<1> HIDE DEF v, p, reads, found
<1>3. v \in {"kept", "moved"} =>
        Readable(c, k[1]) /\ LineAt(c, AsciiLine(c, k[1])).kind = "hex" /\ p = fp.pair
  BY <1>1
<1>4. v = "kept" => p.end < Len(Lines(c)) /\ reads
  BY <1>1
<1>5. v = "moved" => found.method # "none" /\ found.pair # p /\ ~ reads
  BY <1>1, <1>2
<1> QED BY <1>3, <1>4, <1>5 DEF v, p, reads, found, ReadsText

\* ... and what one look at the whole text would say of a zone check has an answer
\* for.
LEMMA UniqueIsFound ==
  ASSUME NEW c \in Content, NEW k \in Key, NEW fp, Whole(fp),
         Single(Places(Lines(c), fp.text)), Verdict(c, k, fp) # "manual",
         LineAt(c, AsciiLine(c, k[1])).kind = "hex"
  PROVE  \/ Verdict(c, k, fp) = "kept" /\ fp.pair \in Places(Lines(c), fp.text)
         \/ Verdict(c, k, fp) = "moved" /\ Located(Lines(c), fp).pair \in Places(Lines(c), fp.text)
<1> DEFINE ls    == Lines(c)
           there == Places(ls, fp.text)
           p     == ZoneAt(c, k[1], k[2])
           found == Located(ls, fp)
           len   == Len(fp.text)
<1>1. ls \in Seq(Line) /\ Len(ls) \in Nat
  BY LinesType
<1>2. Exact(ls, fp) = there
  BY <1>1, ExactFindsThePlaces
<1>3. found.method = "exact-content" /\ found.pair \in there
  <2>1. Single(Exact(ls, fp)) /\ The(Exact(ls, fp)) \in there
    BY <1>2, SingleHasOne
  <2> HIDE DEF ls, there
  <2> QED BY <2>1 DEF Located
<1>4. ASSUME NEW q \in ZonePair, q.start <= q.end, q.end - q.start + 1 = len, q.end < Len(ls)
      PROVE  q \in there <=> Slice(ls, q.start, q.end) = fp.text
  <2> DEFINE i == q.start
  <2>0. fp.text \in Seq(Line) /\ len \in Nat
    BY LenProperties DEF Whole, FingerprintType
  <2>1. i \in Nat /\ q.end \in Int /\ q = [start |-> i, end |-> i + len - 1] /\ i + len = q.end + 1
        /\ 1 <= len
    BY <1>4, <2>0, SMTT(30) DEF ZonePair
  <2>2. Slice(ls, i, q.end) = SubSeq(ls, i + 1, q.end + 1)
    BY <1>1, <1>4, <2>1, SliceInside
  <2>3. i \in 0 .. Len(ls) - len
    BY <1>1, <1>4, <2>0, <2>1
  <2>4. fp.text # << >>
    BY <2>1
  <2>5. i \in Positions(ls, fp.text) <=> SubSeq(ls, i + 1, i + len) = fp.text
    BY <2>3, <2>4 DEF Positions
  <2>6. q \in there <=> i \in Positions(ls, fp.text)
    <3>1. \A j \in Positions(ls, fp.text) : q = [start |-> j, end |-> j + len - 1] => j = i
      OBVIOUS
    <3> HIDE DEF ls, i
    <3> QED BY <2>1, <3>1 DEF Places
  <2> QED BY <2>1, <2>2, <2>5, <2>6
<1>5. /\ fp.pair \in ZonePair /\ fp.pair.start <= fp.pair.end
      /\ fp.pair.end - fp.pair.start + 1 = len
  BY DEF Whole, FingerprintType
<1>6. Readable(c, k[1]) /\ p = fp.pair
  BY DEF Verdict
<1>7. CASE p.end < Len(ls) /\ Slice(ls, p.start, p.end) = fp.text
  <2>1. Verdict(c, k, fp) = "kept"
    BY <1>5, <1>6, <1>7 DEF Verdict
  <2>2. fp.pair \in there
    BY <1>4, <1>5, <1>6, <1>7
  <2> QED BY <2>1, <2>2
<1>8. CASE ~ (p.end < Len(ls) /\ Slice(ls, p.start, p.end) = fp.text)
  <2>1. found.pair # p
    <3> SUFFICES ASSUME found.pair = p PROVE FALSE
      OBVIOUS
    <3>1. p \in there
      BY <1>3
    <3>2. p \in Exact(ls, fp)
      BY <1>2, <3>1
    <3>3. p.end < Len(ls)
      BY <3>2 DEF Exact
    <3> QED BY <1>4, <1>5, <1>6, <1>8, <3>1, <3>3
  <2>2. Verdict(c, k, fp) = "moved"
    <3> HIDE DEF ls, found
    <3> QED BY <1>3, <1>6, <1>8, <2>1 DEF Verdict, ls, found
  <2> QED BY <1>3, <2>2
<1> QED BY <1>7, <1>8

(***************************************************************************)
(* check and commit.                                                       *)
(***************************************************************************)
\* The verdicts share the zones of a checkpoint out.
LEMMA VerdictIsOne ==
  ASSUME NEW c, NEW k, NEW fp
  PROVE  Verdict(c, k, fp) \in {"manual", "unresolved", "kept", "changed", "moved"}
BY DEF Verdict

LEMMA DiffAccounts ==
  ASSUME NEW c, NEW saved
  PROVE  LET d == Diff(c, saved)
         IN  /\ d.base = c
             /\ DOMAIN d.updates = {k \in DOMAIN saved : Verdict(c, k, saved[k]) = "moved"}
             /\ d.manual = {k \in DOMAIN saved : Verdict(c, k, saved[k]) = "manual"}
             /\ d.unresolved = {k \in DOMAIN saved : Verdict(c, k, saved[k]) = "unresolved"}
             /\ d.changed = {k \in DOMAIN saved : Verdict(c, k, saved[k]) = "changed"}
             /\ \A k \in DOMAIN d.updates :
                  /\ d.updates[k].to = Located(Lines(c), saved[k])
                  /\ d.updates[k].expected = saved[k].pair
BY DEF Diff

LEMMA DiffIsWhole ==
  ASSUME NEW c \in Content, NEW saved, WholeCheckpoint(saved)
  PROVE  WholeDiff(Diff(c, saved))
<1> DEFINE d == Diff(c, saved)
<1>1. /\ d.base = c
      /\ DOMAIN d.updates = {k \in DOMAIN saved : Verdict(c, k, saved[k]) = "moved"}
      /\ d.manual = {k \in DOMAIN saved : Verdict(c, k, saved[k]) = "manual"}
      /\ d.unresolved = {k \in DOMAIN saved : Verdict(c, k, saved[k]) = "unresolved"}
      /\ d.changed = {k \in DOMAIN saved : Verdict(c, k, saved[k]) = "changed"}
      /\ \A k \in DOMAIN d.updates : d.updates[k].to = Located(Lines(c), saved[k])
  BY DiffAccounts
<1> HIDE DEF d
<1>2. ASSUME NEW k \in DOMAIN d.updates
      PROVE  k \in Key /\ d.updates[k].to.pair \in ZonePair
  <2>1. k \in Key /\ Whole(saved[k]) /\ Verdict(c, k, saved[k]) = "moved"
    BY <1>1 DEF WholeCheckpoint
  <2>2. Located(Lines(c), saved[k]).method # "none"
    BY <2>1, VerdictMeans
  <2>3. Lines(c) \in Seq(Line)
    BY LinesType
  <2>4. Located(Lines(c), saved[k]).pair \in ZonePair
    BY <2>1, <2>2, <2>3, LocatedType
  <2> QED BY <1>1, <2>1, <2>4
<1>3. \A s, t \in Accounts(d) : s # t => s \cap t = {}
  <2> DEFINE those(v) == {k \in DOMAIN saved : Verdict(c, k, saved[k]) = v}
  <2>1. /\ DOMAIN d.updates = those("moved") /\ d.manual = those("manual")
        /\ d.unresolved = those("unresolved") /\ d.changed = those("changed")
    BY <1>1
  <2>2. \A v, w : v # w => those(v) \cap those(w) = {}
    OBVIOUS
  <2> HIDE DEF those
  <2>3. \A s \in Accounts(d) : \E v : s = those(v)
    BY <2>1 DEF Accounts
  <2> QED BY <2>2, <2>3
<1> QED BY <1>1, <1>2, <1>3 DEF WholeDiff, d

\* build_checkpoint, where it does not refuse.
LEMMA BuildIsWhole ==
  ASSUME NEW c \in Content, CanBuild(c)
  PROVE  WholeCheckpoint(Build(c))
<1> SUFFICES ASSUME NEW k \in Active(c) PROVE k \in Key /\ Whole(Build(c)[k])
  BY DEF WholeCheckpoint, Build
<1> DEFINE p == ZoneAt(c, k[1], k[2])
<1>1. k \in Key /\ k[1] \in Rec /\ k[2] \in ZoneIdx /\ HasRec(c, k[1]) /\ p # NoZone
  BY DEF Active, Key, Readable
<1>2. p \in ZonePair
  BY <1>1, ZoneWordsType
<1>3. p.start <= p.end /\ p.end < Len(Lines(c))
  BY DEF CanBuild
<1>4. Build(c)[k] = Fingerprint(c, p)
  BY DEF Build
<1> HIDE DEF p
<1>5. Whole(Fingerprint(c, p))
  BY <1>1, <1>2, <1>3, FingerprintIsWhole
<1> QED BY <1>1, <1>4, <1>5

\* save_checkpoint_preserving, zone by zone.
Preserves(saved, c, old, unresolved) ==
  /\ saved = [k \in DOMAIN saved |-> saved[k]]
  /\ \A k : k \in DOMAIN saved <=>
              IF k \in unresolved THEN k \in DOMAIN old ELSE k \in Active(c)
  /\ \A k \in DOMAIN saved :
       /\ k \in unresolved => saved[k] = old[k]
       /\ k \notin unresolved => saved[k] = Fingerprint(c, ZoneAt(c, k[1], k[2]))

LEMMA PreservingReads ==
  ASSUME NEW c, NEW old, NEW unresolved
  PROVE  Preserves(Preserving(c, old, unresolved), c, old, unresolved)
<1>1. DOMAIN Build(c) = Active(c)
  BY DEF Build
<1>2. \A k \in Active(c) : Build(c)[k] = Fingerprint(c, ZoneAt(c, k[1], k[2]))
  BY DEF Build
<1> QED BY <1>1, <1>2 DEF Preserving, Preserves

LEMMA PreservingIsWhole ==
  ASSUME NEW c \in Content, CanBuild(c), NEW old, WholeCheckpoint(old), NEW unresolved
  PROVE  WholeCheckpoint(Preserving(c, old, unresolved))
<1>1. WholeCheckpoint(Build(c))
  BY BuildIsWhole
<1> SUFFICES ASSUME NEW k \in DOMAIN Preserving(c, old, unresolved)
             PROVE  k \in Key /\ Whole(Preserving(c, old, unresolved)[k])
  BY DEF WholeCheckpoint
<1>2. \/ k \in DOMAIN old /\ Preserving(c, old, unresolved)[k] = old[k]
      \/ k \in DOMAIN Build(c) /\ Preserving(c, old, unresolved)[k] = Build(c)[k]
  BY DEF Preserving
<1> QED BY <1>1, <1>2 DEF WholeCheckpoint

\* A checkpoint advanced to a document is that document's, and a pull that died
\* behind its checkpoint can be repeated: nothing changes the second time.
LEMMA CommittedOnce ==
  ASSUME NEW c, CanBuild(c), NEW old, NEW unresolved
  PROVE  AlreadyCommitted(c, Preserving(c, old, unresolved), unresolved)
<1> DEFINE once  == Preserving(c, old, unresolved)
           twice == Preserving(c, once, unresolved)
<1>1. Preserves(once, c, old, unresolved)
  BY PreservingReads
<1> HIDE DEF once
<1>2. Preserves(twice, c, once, unresolved)
  BY PreservingReads
<1> HIDE DEF twice
<1>3. DOMAIN twice = DOMAIN once
  BY <1>1, <1>2 DEF Preserves
<1>4. \A k \in DOMAIN once : twice[k] = once[k]
  BY <1>1, <1>2, <1>3 DEF Preserves
<1>5. once = twice
  BY <1>1, <1>2, <1>3, <1>4 DEF Preserves
<1> QED BY <1>5 DEF AlreadyCommitted, once, twice

\* Of a document the checkpoint was advanced to, check says "kept" of every zone
\* that was resolved.
LEMMA CommittedIsKept ==
  ASSUME NEW c \in Content, NEW saved, NEW unresolved,
         AlreadyCommitted(c, saved, unresolved),
         NEW k \in DOMAIN saved, k \notin unresolved
  PROVE  Verdict(c, k, saved[k]) = "kept"
<1> DEFINE p == ZoneAt(c, k[1], k[2])
<1>1. k \in Active(c) /\ saved[k] = Fingerprint(c, p)
  <2> DEFINE again == Preserving(c, saved, unresolved)
  <2>1. Preserves(again, c, saved, unresolved)
    BY PreservingReads
  <2>2. again = saved
    BY DEF AlreadyCommitted
  <2> HIDE DEF again
  <2> QED BY <2>1, <2>2 DEF Preserves
<1>2. k \in Key /\ k[1] \in Rec /\ k[2] \in ZoneIdx /\ Readable(c, k[1]) /\ p # NoZone
  BY <1>1 DEF Active, Key
<1>3. LineAt(c, AsciiLine(c, k[1])).kind = "hex"
  BY <1>2, ZoneAtType DEF Readable
<1>4. p.start <= p.end /\ p.end < Len(Lines(c))
  BY <1>1 DEF AlreadyCommitted, CanBuild
<1>5. saved[k].pair = p /\ saved[k].text = Slice(Lines(c), p.start, p.end)
  BY <1>1 DEF Fingerprint
<1> QED BY <1>2, <1>3, <1>4, <1>5 DEF Verdict

(***************************************************************************)
(* apply_diff.                                                             *)
(***************************************************************************)
Touched(c, d) == {AsciiLine(c, k[1]) : k \in DOMAIN d.updates}

Words(c, d, a) ==
  [z \in ZoneIdx |->
     LET here == {k \in DOMAIN d.updates : AsciiLine(c, k[1]) = a /\ k[2] = z}
     IN  IF here = {} THEN ZonesIn(LineAt(c, a))[z] ELSE d.updates[The(here)].to.pair]

\* The lines a pull writes are hex-word lines of the file, and stay such.
LEMMA TouchedLines ==
  ASSUME NEW c \in Content, NEW d, WholeDiff(d), CanApply(c, d), NEW a \in Touched(c, d)
  PROVE  /\ a \in 0 .. Len(Lines(c)) - 1
         /\ LineAt(c, a).kind = "hex"
         /\ Words(c, d, a) \in Zones
         /\ HexLine(Words(c, d, a)) \in Line
<1>1. PICK k \in DOMAIN d.updates : a = AsciiLine(c, k[1])
  BY DEF Touched
<1>2. Readable(c, k[1]) /\ LineAt(c, a).kind = "hex"
  BY <1>1 DEF CanApply
<1>3. a \in 0 .. Len(Lines(c)) - 1
  <2>1. HeaderLine(c, k[1]) \in Nat /\ Len(Lines(c)) \in Nat
    BY <1>2, HeaderLineType, LinesType DEF Readable
  <2> QED BY <1>1, <1>2, <2>1 DEF Readable, String3Line, AsciiLine
<1>4. ZonesIn(LineAt(c, a)) \in Zones
  <2>1. a \in Int
    BY <1>3
  <2>2. IsHexWords(LineAt(c, a))
    BY <1>2 DEF IsHexWords
  <2> QED BY <2>1, <2>2, ZonesThereType
<1>5. ASSUME NEW z \in ZoneIdx PROVE Words(c, d, a)[z] \in ZonePair
  <2> DEFINE here == {j \in DOMAIN d.updates : AsciiLine(c, j[1]) = a /\ j[2] = z}
  <2>1. Words(c, d, a)[z] = IF here = {} THEN ZonesIn(LineAt(c, a))[z]
                            ELSE d.updates[The(here)].to.pair
    BY DEF Words
  <2>2. ZonesIn(LineAt(c, a))[z] \in ZonePair
    BY <1>4 DEF Zones
  <2>3. here # {} => The(here) \in here
    BY DEF The
  <2>4. here # {} => d.updates[The(here)].to.pair \in ZonePair
    BY <2>3 DEF WholeDiff
  <2> QED BY <2>1, <2>2, <2>4
<1>6. Words(c, d, a) \in Zones
  <2>1. Words(c, d, a) = [z \in ZoneIdx |-> Words(c, d, a)[z]]
    BY DEF Words
  <2> QED BY <1>5, <2>1 DEF Zones
<1> QED BY <1>2, <1>3, <1>6, HexLineType

\* Every other line is as it was.
LEMMA AppliedReads ==
  ASSUME NEW c \in Content, NEW d, WholeDiff(d), CanApply(c, d)
  PROVE  /\ Applied(c, d) \in Content
         /\ \A n \in Int :
              LineAt(Applied(c, d), n) =
                IF n \in Touched(c, d) THEN HexLine(Words(c, d, n)) ELSE LineAt(c, n)
<1> DEFINE at  == Touched(c, d)
           new == [a \in at |-> HexLine(Words(c, d, a))]
<1>1. Applied(c, d) = UpdateLines(c, at, new)
  BY DEF Applied, Touched, Words
<1>2. \A a \in at : new[a] \in Line /\ a \in 0 .. Len(Lines(c)) - 1
  BY TouchedLines
<1>3. \A a \in at : new[a] = HexLine(Words(c, d, a))
  OBVIOUS
<1> HIDE DEF at, new
<1>4. UpdateLines(c, at, new) \in Content
  BY <1>2, UpdateLinesType
<1>5. \A n \in Int : LineAt(UpdateLines(c, at, new), n) =
                       IF n \in at /\ n \in 0 .. Len(Lines(c)) - 1 THEN new[n] ELSE LineAt(c, n)
  BY <1>2, UpdateLinesReads
<1>6. \A n \in Int : LineAt(UpdateLines(c, at, new), n) =
                       IF n \in at THEN HexLine(Words(c, d, n)) ELSE LineAt(c, n)
  BY <1>2, <1>3, <1>5
<1> QED BY <1>1, <1>4, <1>6 DEF at

\* Where a line is not a hex-word line before or after, it is the same.
LEMMA AppliedKeepsOthers ==
  ASSUME NEW c \in Content, NEW d, WholeDiff(d), CanApply(c, d), NEW n \in Int
  PROVE  \/ LineAt(Applied(c, d), n) = LineAt(c, n)
         \/ /\ n \in Touched(c, d)
            /\ LineAt(Applied(c, d), n).kind = "hex" /\ LineAt(c, n).kind = "hex"
<1>1. LineAt(Applied(c, d), n) =
        IF n \in Touched(c, d) THEN HexLine(Words(c, d, n)) ELSE LineAt(c, n)
  BY AppliedReads
<1>2. n \in Touched(c, d) => LineAt(c, n).kind = "hex"
  BY TouchedLines
<1>3. HexLine(Words(c, d, n)).kind = "hex"
  BY DEF HexLine
<1> QED BY <1>1, <1>2, <1>3

\* The records are where they were.
LEMMA AppliedKeepsRecords ==
  ASSUME NEW c \in Content, NEW d, WholeDiff(d), CanApply(c, d), NEW r
  PROVE  /\ HasRec(Applied(c, d), r) = HasRec(c, r)
         /\ AsciiLine(Applied(c, d), r) = AsciiLine(c, r)
<1> DEFINE e == Applied(c, d)
<1>1. e \in Content
  BY AppliedReads
<1>2. \A n \in Int : \/ LineAt(e, n) = LineAt(c, n)
                     \/ LineAt(e, n).kind = "hex" /\ LineAt(c, n).kind = "hex"
  BY AppliedKeepsOthers
<1> HIDE DEF e
<1>3. \A n \in Int : LineAt(e, n) = Marker <=> LineAt(c, n) = Marker
  <2>1. Marker.kind # "hex"
    BY DEF Marker
  <2> QED BY <1>2, <2>1
<1>4. \A n \in Int : LineAt(e, n) = IndexLine(r) <=> LineAt(c, n) = IndexLine(r)
  <2>1. IndexLine(r).kind # "hex"
    BY DEF IndexLine
  <2> QED BY <1>2, <2>1
<1>5. Headers(c) \subseteq Int /\ Headers(e) \subseteq Int
  BY DEF Headers
<1>6. \A h \in Int : h \in Headers(e) <=> h \in Headers(c)
  BY <1>1, <1>3, HeadersByReading
<1>7. Headers(e) = Headers(c)
  BY <1>5, <1>6
<1>8. \A h \in Headers(c) : LineAt(e, h + 1) = IndexLine(r) <=> LineAt(c, h + 1) = IndexLine(r)
  BY <1>4, <1>5
<1>9. HeadersOf(e, r) = HeadersOf(c, r)
  BY <1>7, <1>8 DEF HeadersOf
<1> QED BY <1>9 DEF HasRec, AsciiLine, HeaderLine, e

\* Two records do not share their hex-word line.
LEMMA OneRecordOfLine ==
  ASSUME NEW c, NEW q, NEW r, HasRec(c, q), HasRec(c, r), HeaderLine(c, q) = HeaderLine(c, r)
  PROVE  q = r
<1>1. HeaderLine(c, q) \in HeadersOf(c, q) /\ HeaderLine(c, r) \in HeadersOf(c, r)
  BY DEF HasRec, HeaderLine
<1>2. IndexLine(q) = IndexLine(r)
  BY <1>1 DEF HeadersOf
<1> QED BY <1>2 DEF IndexLine

\* A zone has the pair the diff proposes for it, or the one it had.
LEMMA AppliedZones ==
  ASSUME NEW c \in Content, NEW d, WholeDiff(d), CanApply(c, d),
         NEW k \in Key, HasRec(c, k[1])
  PROVE  ZoneAt(Applied(c, d), k[1], k[2]) =
           IF k \in DOMAIN d.updates THEN d.updates[k].to.pair ELSE ZoneAt(c, k[1], k[2])
<1> DEFINE e == Applied(c, d)
           a == AsciiLine(c, k[1])
           z == k[2]
           here == {j \in DOMAIN d.updates : AsciiLine(c, j[1]) = a /\ j[2] = z}
<1>1. k[1] \in Rec /\ z \in ZoneIdx /\ k = << k[1], k[2] >>
  BY DEF Key
<1>2. a \in Int
  BY HeaderLineType
<1>3. here = {} => k \notin DOMAIN d.updates
  OBVIOUS
<1>4. ASSUME NEW j \in here PROVE j = k
  <2>1. j \in Key /\ HasRec(c, j[1]) /\ AsciiLine(c, j[1]) = a /\ j[2] = k[2]
    BY DEF WholeDiff, CanApply, Readable
  <2>2. HeaderLine(c, j[1]) \in Nat /\ HeaderLine(c, k[1]) \in Nat
    BY <2>1, HeaderLineType
  <2>3. HeaderLine(c, j[1]) = HeaderLine(c, k[1])
    BY <2>1, <2>2 DEF AsciiLine
  <2>4. j[1] = k[1]
    BY <2>1, <2>3, OneRecordOfLine
  <2>5. j = << j[1], j[2] >>
    BY <2>1 DEF Key
  <2> QED BY <1>1, <2>1, <2>4, <2>5
<1>5. here # {} => k \in DOMAIN d.updates /\ The(here) = k
  <2> SUFFICES ASSUME here # {} PROVE k \in DOMAIN d.updates /\ The(here) = k
    OBVIOUS
  <2>1. The(here) \in here
    BY DEF The
  <2>2. The(here) = k
    BY <1>4, <2>1
  <2> QED BY <2>1, <2>2
<1>6. ZoneAt(e, k[1], k[2]) = ZonesIn(LineAt(e, a))[z]
  BY AppliedKeepsRecords DEF ZoneAt
<1>7. CASE a \in Touched(c, d)
  <2>1. LineAt(e, a) = HexLine(Words(c, d, a))
    BY <1>2, <1>7, AppliedReads
  <2>2. ZonesIn(LineAt(e, a)) = Words(c, d, a)
    BY <2>1 DEF ZonesIn, HexLine
  <2>3. Words(c, d, a)[z] = IF here = {} THEN ZonesIn(LineAt(c, a))[z]
                            ELSE d.updates[The(here)].to.pair
    BY <1>1 DEF Words
  <2>4. ZoneAt(c, k[1], k[2]) = ZonesIn(LineAt(c, a))[z]
    BY DEF ZoneAt
  <2> HIDE DEF e, a, z, here
  <2> QED BY <1>3, <1>5, <1>6, <2>2, <2>3, <2>4 DEF e
<1>8. CASE a \notin Touched(c, d)
  <2>1. LineAt(e, a) = LineAt(c, a)
    BY <1>2, <1>8, AppliedReads
  <2>2. k \notin DOMAIN d.updates
    BY <1>8 DEF Touched
  <2> QED BY <1>6, <2>1, <2>2 DEF ZoneAt
<1> QED BY <1>7, <1>8

\* join and lines(): an empty line that ended the file is gone, and nothing else.
LEMMA AppliedLength ==
  ASSUME NEW c \in Content, NEW d, WholeDiff(d), CanApply(c, d), DOMAIN d.updates # {}
  PROVE  /\ Len(Lines(Applied(c, d))) = Len(Lines(c)) - (IF EndsEmpty(c) THEN 1 ELSE 0)
         /\ \A i \in 1 .. Len(Lines(Applied(c, d))) :
              Lines(Applied(c, d))[i] # Lines(c)[i] => i - 1 \in Touched(c, d)
<1> DEFINE ls  == Lines(c)
           at  == Touched(c, d)
           new == [a \in at |-> HexLine(Words(c, d, a))]
           out == [i \in 1 .. Len(ls) |-> IF i - 1 \in at THEN new[i - 1] ELSE ls[i]]
           e   == Applied(c, d)
<1>1. e = Join(out)
  BY DEF Applied, UpdateLines, Touched, Words
<1>2. \A a \in at : new[a] = HexLine(Words(c, d, a)) /\ new[a] \in Line /\ a \in 0 .. Len(ls) - 1
                    /\ LineAt(c, a).kind = "hex"
  BY TouchedLines
<1>3. ls \in Seq(Line) /\ Len(ls) \in Nat
  BY LinesType
<1>4. Len(ls) # 0
  <2>1. at # {}
    BY DEF Touched
  <2> HIDE DEF ls, new, at
  <2> QED BY <1>2, <1>3, <2>1
<1> HIDE DEF ls, new, at
<1>5. out \in Seq(Line) /\ Len(out) = Len(ls) /\ out # << >>
  <2>1. \A i \in 1 .. Len(ls) : ls[i] \in Line
    BY <1>3, ElementOfSeq
  <2>2. out \in [1 .. Len(ls) -> Line]
    BY <1>2, <2>1
  <2>3. out \in Seq(Line)
    BY <1>3, <2>2, SeqDef
  <2>4. Len(out) = Len(ls)
    BY <1>3, <2>3
  <2> QED BY <1>4, <2>3, <2>4
<1>6. \A i \in 1 .. Len(ls) : out[i] = IF i - 1 \in at THEN new[i - 1] ELSE ls[i]
  OBVIOUS
<1> HIDE DEF out
<1>7. e = out
  BY <1>1, <1>5 DEF Join
<1>8. \A i \in 1 .. Len(ls) : out[i] = Blank <=> ls[i] = Blank
  <2> TAKE i \in 1 .. Len(ls)
  <2>1. CASE i - 1 \in at
    <3>1. out[i] = HexLine(Words(c, d, i - 1)) /\ LineAt(c, i - 1).kind = "hex"
      BY <1>2, <1>6, <2>1
    <3>2. LineAt(c, i - 1) = ls[i]
      <4>1. i - 1 \in Int /\ i - 1 \in 0 .. Len(ls) - 1 /\ (i - 1) + 1 = i
        BY <1>3
      <4>2. LineAt(c, i - 1) = LineAt(ls, i - 1)
        BY <4>1, LinesReadsAlike DEF ls
      <4> QED BY <4>1, <4>2 DEF LineAt
    <3> QED BY <3>1, <3>2 DEF HexLine, Blank
  <2>2. CASE i - 1 \notin at
    BY <1>6, <2>2
  <2> QED BY <2>1, <2>2
<1>9. EndsEmpty(c) <=> out[Len(ls)] = Blank
  <2>1. Len(ls) \in 1 .. Len(ls) /\ ls # << >>
    BY <1>3, <1>4
  <2> QED BY <1>8, <2>1 DEF EndsEmpty, ls
<1>10. e \in Content
  BY AppliedReads
<1>11. Len(Lines(e)) = Len(ls) - (IF EndsEmpty(c) THEN 1 ELSE 0)
  <2>1. CASE out[Len(ls)] = Blank
    <3>1. Lines(e) = SubSeq(out, 1, Len(ls) - 1)
      BY <1>5, <1>7, <2>1 DEF Lines
    <3> DEFINE b == Len(ls) - 1
    <3>2. b \in Int /\ 0 <= b /\ \A i \in 1 .. b : out[i] \in Line
      <4>1. b \in Int /\ 0 <= b
        BY <1>3, <1>4
      <4>2. \A i \in 1 .. b : i \in 1 .. Len(out)
        BY <1>3, <1>5
      <4> HIDE DEF b
      <4> QED BY <1>5, <4>1, <4>2, ElementOfSeq
    <3> HIDE DEF b
    <3>3. Len(SubSeq(out, 1, b)) = b
      <4>1. Len(SubSeq(out, 1, b)) = IF 1 <= b THEN b - 1 + 1 ELSE 0
        BY <3>2, SubSeqProperties
      <4> QED BY <3>2, <4>1
    <3>4. Len(Lines(e)) = Len(ls) - 1
      BY <3>1, <3>3 DEF b
    <3> QED BY <1>9, <2>1, <3>4
  <2>2. CASE out[Len(ls)] # Blank
    <3>1. Lines(e) = out
      BY <1>5, <1>7, <2>2 DEF Lines
    <3> QED BY <1>3, <1>5, <1>9, <2>2, <3>1
  <2> QED BY <2>1, <2>2
<1>12. ASSUME NEW i \in 1 .. Len(Lines(e)), Lines(e)[i] # ls[i] PROVE i - 1 \in at
  <2>1. i \in 1 .. Len(ls)
    <3>1. Len(Lines(e)) <= Len(ls) /\ Len(Lines(e)) \in Int
      BY <1>3, <1>11
    <3> QED BY <1>3, <3>1
  <2>2. Lines(e)[i] = out[i]
    BY <1>7, <1>10, LinesType
  <2> QED BY <1>6, <1>12, <2>1, <2>2
<1> QED BY <1>11, <1>12 DEF ls, at, e

\* Slices of two files with the same lines there.
LEMMA SlicesAlike ==
  ASSUME NEW ls \in Seq(Line), NEW ms \in Seq(Line), NEW p \in ZonePair,
         p.end < Len(ls), p.end < Len(ms),
         \A i \in p.start + 1 .. p.end + 1 : ls[i] = ms[i]
  PROVE  Slice(ls, p.start, p.end) = Slice(ms, p.start, p.end)
<1> DEFINE a == p.start + 1
           b == p.end + 1
<1>1. p.start \in Nat /\ p.end \in Int /\ a \in Nat /\ b \in Nat /\ 1 <= a
      /\ Len(ls) \in Nat /\ Len(ms) \in Nat /\ b <= Len(ls) /\ b <= Len(ms)
  BY LenProperties DEF ZonePair
<1>2. Slice(ls, p.start, p.end) = SubSeq(ls, a, b) /\ Slice(ms, p.start, p.end) = SubSeq(ms, a, b)
  BY <1>1, SliceInside
<1>3. \A i \in a .. b : ls[i] = ms[i]
  OBVIOUS
<1> HIDE DEF a, b
<1>4. \A i \in a .. b : ls[i] \in Line /\ ms[i] \in Line
  <2> TAKE i \in a .. b
  <2>1. i \in 1 .. Len(ls) /\ i \in 1 .. Len(ms)
    BY <1>1
  <2> QED BY <2>1, ElementOfSeq
<1>5. /\ SubSeq(ls, a, b) \in Seq(Line) /\ SubSeq(ms, a, b) \in Seq(Line)
      /\ Len(SubSeq(ls, a, b)) = IF a <= b THEN b - a + 1 ELSE 0
      /\ Len(SubSeq(ms, a, b)) = IF a <= b THEN b - a + 1 ELSE 0
      /\ \A i \in 1 .. b - a + 1 : SubSeq(ls, a, b)[i] = ls[a + i - 1]
      /\ \A i \in 1 .. b - a + 1 : SubSeq(ms, a, b)[i] = ms[a + i - 1]
  <2>1. a \in Int /\ b \in Int
    BY <1>1
  <2> QED BY <1>4, <2>1, SubSeqProperties
<1>6. ASSUME NEW i \in 1 .. Len(SubSeq(ls, a, b)) PROVE SubSeq(ls, a, b)[i] = SubSeq(ms, a, b)[i]
  <2>1. i \in 1 .. b - a + 1 /\ a + i - 1 \in a .. b
    BY <1>1, <1>5
  <2> QED BY <1>3, <1>5, <2>1
<1>7. SubSeq(ls, a, b) = SubSeq(ms, a, b)
  BY <1>5, <1>6, SeqEqual
<1> QED BY <1>2, <1>7

\* A text without hex-words reads as it did, where the file still has its lines.
LEMMA PlainTextStays ==
  ASSUME NEW c \in Content, NEW d, WholeDiff(d), CanApply(c, d),
         NEW p \in ZonePair, NEW text, PlainText(text), ReadsText(c, p, text),
         p.end < Len(Lines(c)), p.end < Len(Lines(Applied(c, d)))
  PROVE  ReadsText(Applied(c, d), p, text)
<1> DEFINE e  == Applied(c, d)
           ls == Lines(c)
           ms == Lines(e)
<1>1. c \in Content /\ e \in Content
  BY AppliedReads
<1>2. ls \in Seq(Line) /\ ms \in Seq(Line) /\ Len(ls) \in Nat /\ Len(ms) \in Nat
  BY <1>1, LinesType
<1>3. p.start \in Nat /\ p.end \in Nat
  BY DEF ZonePair
<1>4. ASSUME NEW i \in p.start + 1 .. p.end + 1 PROVE ls[i] = ms[i]
  <2> DEFINE n == i - 1
             m == i - p.start
  <2>1. n \in Int /\ n \in 0 .. Len(ls) - 1 /\ n \in 0 .. Len(ms) - 1 /\ n + 1 = i
    BY <1>2, <1>3
  <2>2. m \in Int /\ m \in 1 .. p.end - p.start + 1 /\ p.start + m = i /\ p.start <= p.end
        /\ (p.start + 1) + m - 1 = i
    <3> DEFINE a == p.start
               b == p.end
    <3>1. a \in Nat /\ b \in Nat /\ i \in a + 1 .. b + 1 /\ m = i - a
      BY <1>3
    <3> HIDE DEF a, b, m
    <3>2. m \in Int /\ m \in 1 .. b - a + 1 /\ a + m = i /\ a <= b /\ (a + 1) + m - 1 = i
      BY ONLY <3>1
    <3> QED BY <3>2 DEF a, b
  <2> HIDE DEF n, m, ls, ms
  <2>3. ls[i] = LineAt(c, n) /\ ms[i] = LineAt(e, n)
    <3>1. LineAt(ls, n) = LineAt(c, n) /\ LineAt(ms, n) = LineAt(e, n)
      BY <1>1, <2>1, LinesReadsAlike DEF ls, ms
    <3> QED BY <2>1, <3>1 DEF LineAt
  <2>4. ls[i].kind # "hex"
    <3>1. text = SubSeq(ls, p.start + 1, p.end + 1)
      <4>1. p.end \in Int
        BY <1>3
      <4> QED BY <1>2, <1>3, <4>1, SliceInside DEF ReadsText, ls
    <3> DEFINE a == p.start + 1
               b == p.end + 1
    <3>2. a \in Int /\ b \in Int /\ b - a + 1 = p.end - p.start + 1 /\ a <= b
      <4>1. p.start \in Nat /\ p.end \in Nat /\ p.start <= p.end
        BY <1>3, <2>2
      <4> QED BY ONLY <4>1
    <3>0. a + m - 1 = i
      BY <2>2
    <3>3. \A j \in a .. b : ls[j] \in Line
      <4> TAKE j \in a .. b
      <4>1. j \in 1 .. Len(ls)
        BY <1>2, <1>3 DEF ls
      <4> QED BY <1>2, <4>1, ElementOfSeq
    <3> HIDE DEF a, b
    <3>4. /\ Len(SubSeq(ls, a, b)) = b - a + 1
          /\ \A j \in 1 .. b - a + 1 : SubSeq(ls, a, b)[j] = ls[a + j - 1]
      BY <3>2, <3>3, SubSeqProperties
    <3>5. text = SubSeq(ls, a, b)
      BY <3>1 DEF a, b
    <3>6. m \in 1 .. Len(text) /\ text[m] = ls[i]
      BY <2>2, <3>0, <3>2, <3>4, <3>5
    <3> QED BY <3>6 DEF PlainText
  <2> QED BY <2>1, <2>3, <2>4, AppliedKeepsOthers
<1>5. Slice(ls, p.start, p.end) = Slice(ms, p.start, p.end)
  BY <1>2, <1>4, SlicesAlike
<1> QED BY <1>5 DEF ReadsText

(***************************************************************************)
(* The invariant, action by action.                                        *)
(***************************************************************************)
\* The phase of a job moves on; what it is about stays.
LEMMA JobMovesOn ==
  ASSUME JobIsWhole, job.phase # "idle", NEW phase, NEW new
  PROVE  /\ [job EXCEPT !.phase = phase] = [phase |-> phase, diff |-> job.diff, new |-> job.new]
         /\ [job EXCEPT !.phase = phase, !.new = new] =
              [phase |-> phase, diff |-> job.diff, new |-> new]
<1> DEFINE d == job.diff
           n == job.new
           f == job.phase
<1>1. job = [phase |-> f, diff |-> d, new |-> n]
  BY DEF JobIsWhole
<1> HIDE DEF d, n, f
<1>2. [[phase |-> f, diff |-> d, new |-> n] EXCEPT !.phase = phase]
        = [phase |-> phase, diff |-> d, new |-> n]
  OBVIOUS
<1>3. [[phase |-> f, diff |-> d, new |-> n] EXCEPT !.phase = phase, !.new = new]
        = [phase |-> phase, diff |-> d, new |-> new]
  <2> DEFINE r == [phase |-> f, diff |-> d, new |-> n]
             q == [r EXCEPT !.phase = phase, !.new = new]
  <2>1. DOMAIN r = {"phase", "diff", "new"} /\ r.diff = d
    OBVIOUS
  <2> HIDE DEF r
  <2>2. q = [x \in {"phase", "diff", "new"} |-> q[x]]
    BY <2>1
  <2>3. q.phase = phase
    BY <2>1
  <2>4. q.diff = d
    BY <2>1
  <2>5. q.new = new
    BY <2>1
  <2> HIDE DEF q
  <2>6. q = [phase |-> phase, diff |-> d, new |-> new]
    BY <2>2, <2>3, <2>4, <2>5
  <2> QED BY <2>6 DEF q, r
<1>4. [job EXCEPT !.phase = phase] = [phase |-> phase, diff |-> d, new |-> n]
  BY <1>1, <1>2
<1>5. [job EXCEPT !.phase = phase, !.new = new] = [phase |-> phase, diff |-> d, new |-> new]
  BY <1>1, <1>3
<1> QED BY <1>4, <1>5 DEF d, n

\* A command counts as begun.
LEMMA CountedType ==
  ASSUME counts \in [commands : Nat, edits : Nat, crashes : Nat],
         NEW what \in {"commands", "edits", "crashes"}, Counted(what)
  PROVE  counts' \in [commands : Nat, edits : Nat, crashes : Nat] /\ counts' # counts
<1>1. counts[what] \in Nat /\ counts'[what] = counts[what] + 1
  BY DEF Counted
<1>2. counts' # counts
  BY <1>1
<1> QED BY <1>2 DEF Counted

LEMMA InvInit == Init => CheckpointInv
<1> SUFFICES ASSUME Init PROVE CheckpointInv
  OBVIOUS
<1>1. FilesAreWhole
  BY CheckpointAssumption DEF Init, FilesAreWhole, Missing
<1>2. job.phase = "idle"
  BY DEF Init, Idle
<1>3. JobIsWhole
  BY <1>2 DEF JobIsWhole
<1>4. FilesAgree
  BY <1>2 DEF Init, FilesAgree, Missing
<1> QED BY <1>1, <1>3, <1>4 DEF CheckpointInv

LEMMA InvCommitFirst ==
  ASSUME CheckpointInv, CommitFirst
  PROVE  CheckpointInv'
<1>1. /\ doc' = doc /\ undo' = undo /\ diff' = diff /\ job' = job /\ overlap' = overlap
      /\ checkpoint = Missing /\ checkpoint' = << Build(doc) >> /\ CanBuild(doc)
      /\ job.phase = "idle" /\ Counted("commands")
  BY DEF CommitFirst, Begins
<1>2. diff = Missing /\ doc \in Content /\ undo \in Content
      /\ counts \in [commands : Nat, edits : Nat, crashes : Nat]
  BY <1>1 DEF CheckpointInv, FilesAreWhole
<1>3. WholeCheckpoint(Build(doc))
  BY <1>1, <1>2, BuildIsWhole
<1>4. counts' \in [commands : Nat, edits : Nat, crashes : Nat]
  BY <1>1, <1>2, CountedType
<1> DEFINE built == Build(doc)
<1>5. checkpoint' = << built >> /\ WholeCheckpoint(built)
  BY <1>1, <1>3
<1> HIDE DEF built
<1>6. FilesAreWhole'
  <2>1. checkpoint'[1] = built
    BY <1>5
  <2> QED BY <1>1, <1>2, <1>4, <1>5, <2>1 DEF FilesAreWhole, Missing
<1>7. JobIsWhole'
  BY <1>1 DEF JobIsWhole
<1>8. FilesAgree'
  BY <1>1, <1>2 DEF FilesAgree
<1> QED BY <1>6, <1>7, <1>8 DEF CheckpointInv

\* check, and the first half of a later commit: a diff of the document as it is.
LEMMA FreshDiff ==
  ASSUME CheckpointInv, checkpoint # Missing
  PROVE  LET d == Diff(doc, checkpoint[1])
         IN  WholeDiff(d) /\ Agreed(d, checkpoint[1])
<1>1. doc \in Content /\ WholeCheckpoint(checkpoint[1])
  BY DEF CheckpointInv, FilesAreWhole
<1>2. Diff(doc, checkpoint[1]).base = doc
  BY DiffAccounts
<1> QED BY <1>1, <1>2, DiffIsWhole DEF Agreed

LEMMA InvCheck ==
  ASSUME CheckpointInv, Check
  PROVE  CheckpointInv'
<1> DEFINE d == Diff(doc, checkpoint[1])
<1>1. /\ doc' = doc /\ undo' = undo /\ diff' = << d >> /\ job' = job /\ overlap' = overlap
      /\ checkpoint # Missing /\ checkpoint' = checkpoint
      /\ job.phase = "idle" /\ Counted("commands")
  BY DEF Check, Begins
<1>2. WholeDiff(d) /\ Agreed(d, checkpoint[1])
  BY <1>1, FreshDiff
<1>3. counts' \in [commands : Nat, edits : Nat, crashes : Nat]
  BY <1>1, CountedType DEF CheckpointInv, FilesAreWhole
<1> HIDE DEF d
<1>4. diff'[1] = d
  BY <1>1
<1>5. FilesAreWhole'
  BY <1>1, <1>2, <1>3, <1>4 DEF CheckpointInv, FilesAreWhole
<1>6. JobIsWhole'
  BY <1>1 DEF JobIsWhole
<1>7. FilesAgree'
  BY <1>1, <1>2, <1>4 DEF FilesAgree
<1> QED BY <1>5, <1>6, <1>7 DEF CheckpointInv

LEMMA InvCommit ==
  ASSUME CheckpointInv, NEW accept \in BOOLEAN, Commit(accept)
  PROVE  CheckpointInv'
<1> DEFINE d == Diff(doc, checkpoint[1])
<1>1. /\ doc' = doc /\ undo' = undo /\ diff' = << d >> /\ overlap' = overlap
      /\ checkpoint # Missing /\ checkpoint' = checkpoint /\ Counted("commands")
  BY DEF Commit, Begins
<1>2. WholeDiff(d) /\ Agreed(d, checkpoint[1])
  BY <1>1, FreshDiff
<1>3. counts' \in [commands : Nat, edits : Nat, crashes : Nat]
  BY <1>1, CountedType DEF CheckpointInv, FilesAreWhole
<1>4. \/ job' = Job("pulling", d) /\ DOMAIN d.updates # {}
      \/ job' = Job("written", d) /\ DOMAIN d.updates = {}
      \/ job' = Idle
  BY DEF Commit
<1>0. d = Diff(doc, checkpoint[1])
  OBVIOUS
<1> HIDE DEF d
<1>5. diff'[1] = d /\ diff' # Missing
  BY <1>1 DEF Missing
<1>6. FilesAreWhole'
  BY <1>1, <1>2, <1>3, <1>5 DEF CheckpointInv, FilesAreWhole
<1>7. JobIsWhole'
  BY <1>1, <1>4, <1>5 DEF JobIsWhole, Job, Idle
<1>8. /\ job'.phase \in {"pulling", "written", "idle"}
      /\ job'.phase = "written" => job'.diff = d /\ DOMAIN d.updates = {}
  BY <1>4 DEF Job, Idle
<1>9. FilesAgree'
  BY <1>0, <1>1, <1>2, <1>5, <1>8 DEF FilesAgree
<1> QED BY <1>6, <1>7, <1>9 DEF CheckpointInv

LEMMA InvPull ==
  ASSUME CheckpointInv, Pull
  PROVE  CheckpointInv'
<1> DEFINE d == diff[1]
<1>1. /\ doc' = doc /\ undo' = undo /\ diff' = diff /\ overlap' = overlap
      /\ checkpoint' = checkpoint /\ Counted("commands")
      /\ diff # Missing /\ DOMAIN d.updates # {} /\ job' = Job("pulling", d)
  BY DEF Pull, Begins
<1>2. checkpoint # Missing
  BY <1>1 DEF CheckpointInv, FilesAreWhole
<1>3. counts' \in [commands : Nat, edits : Nat, crashes : Nat]
  BY <1>1, CountedType DEF CheckpointInv, FilesAreWhole
<1>4. FilesAreWhole'
  BY <1>1, <1>3 DEF CheckpointInv, FilesAreWhole
<1>0. diff'[1] = d
  BY <1>1
<1> HIDE DEF d
<1>5. JobIsWhole'
  BY <1>0, <1>1, <1>2 DEF JobIsWhole, Job
<1>6. FilesAgree'
  <2>1. job'.phase = "pulling"
    BY <1>1 DEF Job
  <2> QED BY <1>1, <2>1 DEF CheckpointInv, FilesAgree
<1> QED BY <1>4, <1>5, <1>6 DEF CheckpointInv

LEMMA InvApply ==
  ASSUME CheckpointInv, Apply
  PROVE  CheckpointInv'
<1> DEFINE d == job.diff
<1>1. /\ doc' = doc /\ undo' = undo /\ diff' = diff /\ overlap' = overlap
      /\ checkpoint' = checkpoint /\ counts' = counts /\ job.phase = "pulling"
  BY DEF Apply
<1>2. \/ /\ CanApply(doc, d)
         /\ job' = [phase |-> "applied", diff |-> d, new |-> Applied(doc, d)]
      \/ job' = Idle
  <2>1. \/ CanApply(doc, d) /\ job' = [job EXCEPT !.phase = "applied", !.new = Applied(doc, d)]
        \/ job' = Idle
    BY DEF Apply
  <2> DEFINE new == Applied(doc, d)
  <2> HIDE DEF new
  <2>2. [job EXCEPT !.phase = "applied", !.new = new] = [phase |-> "applied", diff |-> d, new |-> new]
    BY <1>1, JobMovesOn DEF CheckpointInv
  <2> QED BY <2>1, <2>2 DEF new
<1>3. /\ checkpoint # Missing /\ diff # Missing /\ diff[1] = d /\ DOMAIN d.updates # {}
      /\ doc \in Content /\ WholeDiff(d)
  BY <1>1 DEF CheckpointInv, JobIsWhole, FilesAreWhole
<1>4. CanApply(doc, d) => Applied(doc, d) \in Content
  BY <1>3, AppliedReads
<1> HIDE DEF d
<1>5. FilesAreWhole'
  BY <1>1 DEF CheckpointInv, FilesAreWhole
<1>6. JobIsWhole'
  <2>1. CASE job' = Idle
    BY <2>1 DEF JobIsWhole, Idle
  <2>2. CASE /\ CanApply(doc, d)
             /\ job' = [phase |-> "applied", diff |-> d, new |-> Applied(doc, d)]
    BY <1>1, <1>3, <1>4, <2>2 DEF JobIsWhole
  <2> QED BY <1>2, <2>1, <2>2
<1>7. FilesAgree'
  <2>1. \/ job'.phase = "idle"
        \/ /\ job'.phase = "applied" /\ CanApply(doc, d)
           /\ job'.diff = d /\ job'.new = Applied(doc, d)
    BY <1>2 DEF Idle
  <2> QED BY <1>1, <2>1 DEF CheckpointInv, FilesAgree
<1> QED BY <1>5, <1>6, <1>7 DEF CheckpointInv

LEMMA InvWritePulled ==
  ASSUME CheckpointInv, WritePulled
  PROVE  CheckpointInv'
<1> DEFINE d == job.diff
<1>1. /\ undo' = doc /\ doc' = job.new /\ diff' = diff /\ overlap' = overlap
      /\ checkpoint' = checkpoint /\ counts' = counts /\ job.phase = "applied"
  BY DEF WritePulled
<1>2. job' = [phase |-> "written", diff |-> d, new |-> job.new]
  BY <1>1, JobMovesOn DEF CheckpointInv, WritePulled
<1>3. /\ checkpoint # Missing /\ diff # Missing /\ diff[1] = d /\ DOMAIN d.updates # {}
      /\ doc \in Content /\ job.new \in Content
  BY <1>1 DEF CheckpointInv, JobIsWhole, FilesAreWhole
<1>4. ~ overlap => CanApply(doc, d) /\ job.new = Applied(doc, d) /\ doc = d.base
  BY <1>1 DEF CheckpointInv, FilesAgree, CanApply
<1>5. job'.phase = "written" /\ job'.diff = d
  BY <1>2
<1> HIDE DEF d
<1>6. FilesAreWhole'
  BY <1>1, <1>3 DEF CheckpointInv, FilesAreWhole
<1>7. JobIsWhole'
  BY <1>1, <1>2, <1>3 DEF JobIsWhole
<1>8. FilesAgree'
  BY <1>1, <1>3, <1>4, <1>5 DEF CheckpointInv, FilesAgree
<1> QED BY <1>6, <1>7, <1>8 DEF CheckpointInv

LEMMA InvSaveCheckpoint ==
  ASSUME CheckpointInv, SaveCheckpoint
  PROVE  CheckpointInv'
<1> DEFINE d     == job.diff
           saved == Preserving(doc, checkpoint[1], d.unresolved)
           next  == IF d.unresolved = {} THEN "clearing" ELSE "rechecking"
<1>1. /\ doc' = doc /\ undo' = undo /\ diff' = diff /\ overlap' = overlap /\ counts' = counts
      /\ checkpoint' = << saved >> /\ job.phase = "written" /\ CanBuild(doc)
      /\ job' = [job EXCEPT !.phase = next]
  BY DEF SaveCheckpoint
<1>2. /\ doc \in Content /\ checkpoint # Missing /\ WholeCheckpoint(checkpoint[1])
      /\ diff # Missing /\ diff[1] = d
  BY <1>1 DEF CheckpointInv, JobIsWhole, FilesAreWhole
<1>3. WholeCheckpoint(saved)
  BY <1>1, <1>2, PreservingIsWhole
<1>4. AlreadyCommitted(doc, saved, d.unresolved)
  BY <1>1, CommittedOnce
<1> HIDE DEF saved
<1>5. checkpoint'[1] = saved /\ checkpoint' # Missing /\ checkpoint' = << checkpoint'[1] >>
  BY <1>1 DEF Missing
<1>6. job' = [phase |-> next, diff |-> d, new |-> job.new]
  <2> HIDE DEF next
  <2> QED BY <1>1, JobMovesOn DEF CheckpointInv
<1>7. /\ job'.diff = d /\ job'.phase \in {"clearing", "rechecking"}
      /\ job'.phase = "clearing" => d.unresolved = {}
      /\ job'.phase = "rechecking" => d.unresolved # {}
  BY <1>6
<1>0. job' = [phase |-> job'.phase, diff |-> job'.diff, new |-> job'.new]
  <2> HIDE DEF next
  <2> QED BY <1>6
<1> HIDE DEF d, next
<1>8. FilesAreWhole'
  BY <1>1, <1>2, <1>3, <1>5 DEF CheckpointInv, FilesAreWhole
<1>9. JobIsWhole'
  BY <1>0, <1>1, <1>2, <1>5, <1>7 DEF JobIsWhole
<1>10. ~ overlap => Agreed(d, saved)
  <2> SUFFICES ASSUME ~ overlap, DOMAIN d.updates # {} PROVE AlreadyCommitted(Applied(d.base, d), saved, d.unresolved)
    BY DEF Agreed
  <2>1. doc = Applied(d.base, d)
    BY <1>1 DEF CheckpointInv, FilesAgree, d
  <2> QED BY <1>4, <2>1
<1>11. FilesAgree'
  BY <1>1, <1>2, <1>4, <1>5, <1>7, <1>10 DEF FilesAgree
<1> QED BY <1>8, <1>9, <1>11 DEF CheckpointInv

\* A command that ends leaves the files as they are.
LEMMA InvEnds ==
  ASSUME CheckpointInv, job' = Idle,
         counts' \in [commands : Nat, edits : Nat, crashes : Nat],
         UNCHANGED << doc, undo, checkpoint, diff, overlap >>
  PROVE  CheckpointInv'
<1>1. job'.phase = "idle"
  BY DEF Idle
<1>2. FilesAreWhole'
  BY DEF CheckpointInv, FilesAreWhole
<1>3. JobIsWhole'
  BY <1>1 DEF JobIsWhole
<1>4. FilesAgree'
  BY <1>1 DEF CheckpointInv, FilesAgree
<1> QED BY <1>2, <1>3, <1>4 DEF CheckpointInv

LEMMA InvClearDiff ==
  ASSUME CheckpointInv, ClearDiff
  PROVE  CheckpointInv'
<1>1. /\ doc' = doc /\ undo' = undo /\ diff' = Missing /\ overlap' = overlap /\ counts' = counts
      /\ checkpoint' = checkpoint /\ job'.phase = "idle"
  BY DEF ClearDiff, Idle
<1>2. FilesAreWhole'
  BY <1>1 DEF CheckpointInv, FilesAreWhole
<1>3. JobIsWhole'
  BY <1>1 DEF JobIsWhole
<1>4. FilesAgree'
  BY <1>1 DEF FilesAgree
<1> QED BY <1>2, <1>3, <1>4 DEF CheckpointInv

LEMMA InvRecheck ==
  ASSUME CheckpointInv, Recheck
  PROVE  CheckpointInv'
<1> DEFINE d == Diff(doc, checkpoint[1])
<1>1. /\ doc' = doc /\ undo' = undo /\ overlap' = overlap /\ counts' = counts
      /\ checkpoint' = checkpoint /\ job' = Idle /\ job.phase = "rechecking"
      /\ diff' = << d >> \/ diff' = diff
  BY DEF Recheck
<1>2. checkpoint # Missing
  BY <1>1 DEF CheckpointInv, JobIsWhole
<1>3. WholeDiff(d) /\ Agreed(d, checkpoint[1])
  BY <1>2, FreshDiff
<1> HIDE DEF d
<1>4. CASE diff' = diff
  BY <1>1, <1>4, InvEnds DEF CheckpointInv, FilesAreWhole
<1>5. CASE diff' = << d >>
  <2>1. diff'[1] = d /\ job'.phase = "idle"
    BY <1>1, <1>5 DEF Idle
  <2>2. FilesAreWhole'
    BY <1>1, <1>2, <1>3, <2>1 DEF CheckpointInv, FilesAreWhole
  <2>3. JobIsWhole'
    BY <2>1 DEF JobIsWhole
  <2>4. FilesAgree'
    BY <1>1, <1>3, <2>1 DEF FilesAgree
  <2> QED BY <2>2, <2>3, <2>4 DEF CheckpointInv
<1> QED BY <1>1, <1>4, <1>5

\* Somebody else saves the document, a command running or not.
LEMMA InvSaves ==
  ASSUME CheckpointInv, NEW new \in Content, Saves(new)
  PROVE  CheckpointInv'
<1>1. /\ doc' = new /\ undo' = undo /\ checkpoint' = checkpoint /\ diff' = diff /\ job' = job
      /\ overlap' = (overlap \/ job.phase # "idle") /\ Counted("edits")
  BY DEF Saves
<1>2. counts' \in [commands : Nat, edits : Nat, crashes : Nat]
  BY <1>1, CountedType DEF CheckpointInv, FilesAreWhole
<1>3. FilesAreWhole'
  BY <1>1, <1>2 DEF CheckpointInv, FilesAreWhole
<1>4. JobIsWhole'
  BY <1>1 DEF CheckpointInv, JobIsWhole
<1>5. FilesAgree'
  <2> SUFFICES ASSUME ~ overlap' PROVE FilesAgree'
    BY DEF FilesAgree
  <2>1. ~ overlap /\ job.phase = "idle"
    BY <1>1
  <2> QED BY <1>1, <2>1 DEF CheckpointInv, FilesAgree
<1> QED BY <1>3, <1>4, <1>5 DEF CheckpointInv

LEMMA InvEdits ==
  ASSUME CheckpointInv, Edit \/ RetypePair \/ UserUndo
  PROVE  CheckpointInv'
<1>1. doc \in Content /\ undo \in Content
  BY DEF CheckpointInv, FilesAreWhole
<1>2. CASE Edit
  <2>1. PICK e \in Edits : Saves(Splice(doc, e[1], e[2], e[3]))
    BY <1>2 DEF Edit
  <2>2. e[1] \in Nat /\ e[2] \in Int /\ e[2] >= -1 /\ e[3] \in Seq(Line)
    BY CheckpointAssumption
  <2>3. Splice(doc, e[1], e[2], e[3]) \in Content
    BY <1>1, <2>2, SpliceType
  <2> QED BY <2>1, <2>3, InvSaves
<1>3. CASE RetypePair
  <2> DEFINE zones(e) == [LineAt(doc, AsciiLine(doc, e[1])).zones EXCEPT ![e[2]] = e[3]]
  <2>1. PICK e \in HandPairs :
          /\ Readable(doc, e[1]) /\ LineAt(doc, AsciiLine(doc, e[1])).kind = "hex"
          /\ Saves(UpdateLine(doc, AsciiLine(doc, e[1]), HexLine(zones(e))))
    BY <1>3 DEF RetypePair
  <2> DEFINE a    == AsciiLine(doc, e[1])
             line == LineAt(doc, a)
  <2>2. e[2] \in ZoneIdx /\ e[3] \in ZonePair
    BY CheckpointAssumption
  <2>3. a \in Int
    BY <1>1, <2>1, HeaderLineType DEF Readable
  <2>4. line.zones \in Zones
    <3>1. line \in Line
      BY <1>1, <2>3, LineAtType DEF Content
    <3> HIDE DEF line, a
    <3> QED BY <2>1, <3>1 DEF Line, Blank, Marker, line, a
  <2>5. zones(e) \in Zones
    <3> DEFINE zs == line.zones
    <3>1. zs \in Zones
      BY <2>4
    <3>2. zones(e) = [zs EXCEPT ![e[2]] = e[3]]
      OBVIOUS
    <3> HIDE DEF zs, zones
    <3> QED BY <2>2, <3>1, <3>2 DEF Zones
  <2> HIDE DEF zones
  <2>6. HexLine(zones(e)) \in Line
    BY <2>5, HexLineType
  <2>7. UpdateLine(doc, a, HexLine(zones(e))) \in Content
    BY <1>1, <2>6, UpdateLineType
  <2> QED BY <2>1, <2>7, InvSaves
<1>4. CASE UserUndo
  BY <1>1, <1>4, InvSaves DEF UserUndo
<1> QED BY <1>2, <1>3, <1>4

LEMMA InvNext ==
  ASSUME CheckpointInv, [Next]_vars
  PROVE  CheckpointInv'
<1>1. CASE CommitFirst
  BY <1>1, InvCommitFirst
<1>2. CASE Check
  BY <1>2, InvCheck
<1>3. ASSUME NEW accept \in BOOLEAN, Commit(accept) PROVE CheckpointInv'
  BY <1>3, InvCommit
<1>4. CASE Pull
  BY <1>4, InvPull
<1>5. CASE Apply
  BY <1>5, InvApply
<1>6. CASE WritePulled
  BY <1>6, InvWritePulled
<1>7. CASE SaveCheckpoint
  BY <1>7, InvSaveCheckpoint
<1>8. CASE SaveFails
  BY <1>8, InvEnds DEF SaveFails, CheckpointInv, FilesAreWhole
<1>9. CASE ClearDiff
  BY <1>9, InvClearDiff
<1>10. CASE Recheck
  BY <1>10, InvRecheck
<1>11. CASE Crash
  <2>1. counts' \in [commands : Nat, edits : Nat, crashes : Nat]
    BY <1>11, CountedType DEF Crash, CheckpointInv, FilesAreWhole
  <2> QED BY <1>11, <2>1, InvEnds DEF Crash
<1>12. CASE Edit \/ RetypePair \/ UserUndo
  BY <1>12, InvEdits
<1>13. CASE UNCHANGED vars
  <2>1. /\ doc' = doc /\ undo' = undo /\ checkpoint' = checkpoint /\ diff' = diff
        /\ job' = job /\ counts' = counts /\ overlap' = overlap
    BY <1>13 DEF vars
  <2>2. FilesAreWhole'
    BY <2>1 DEF CheckpointInv, FilesAreWhole
  <2>3. JobIsWhole'
    BY <2>1 DEF CheckpointInv, JobIsWhole
  <2>4. FilesAgree'
    BY <2>1 DEF CheckpointInv, FilesAgree
  <2> QED BY <2>2, <2>3, <2>4 DEF CheckpointInv
<1> QED
  BY <1>1, <1>2, <1>3, <1>4, <1>5, <1>6, <1>7, <1>8, <1>9, <1>10, <1>11, <1>12, <1>13 DEF Next

LEMMA SpecInv == Spec => []CheckpointInv
<1>1. Init => CheckpointInv
  BY InvInit
<1>2. CheckpointInv /\ [Next]_vars => CheckpointInv'
  BY InvNext
<1> QED BY <1>1, <1>2, PTL DEF Spec

(***************************************************************************)
(* The theorems.                                                           *)
(***************************************************************************)
\* The three files and the job have their types in every session: a diff accounts
\* for each zone once, a fingerprint has as many lines as its pair names.
THEOREM TypeCorrect == Spec => []TypeOK
<1>1. ASSUME CheckpointInv PROVE TypeOK
  <2>1. FilesAreWhole /\ JobIsWhole
    BY <1>1 DEF CheckpointInv
  <2>2. checkpoint # Missing =>
          \A k \in DOMAIN checkpoint[1] :
            /\ k \in Key /\ checkpoint[1][k] \in FingerprintType
            /\ Len(checkpoint[1][k].text) = checkpoint[1][k].pair.end - checkpoint[1][k].pair.start + 1
    BY <2>1 DEF FilesAreWhole, WholeCheckpoint, Whole
  <2>3. diff # Missing =>
          /\ diff[1].base \in Content
          /\ \A s, t \in {DOMAIN diff[1].updates, diff[1].manual, diff[1].unresolved, diff[1].changed} :
               s # t => s \cap t = {}
    BY <2>1 DEF FilesAreWhole, WholeDiff, Accounts
  <2> QED BY <2>1, <2>2, <2>3 DEF TypeOK, FilesAreWhole, JobIsWhole
<1> QED BY <1>1, SpecInv, PTL

\* Text that stands in the document once is found by check, wherever it went.
THEOREM UniqueText == Spec => []UniqueTextIsFound
<1>1. ASSUME CheckpointInv PROVE UniqueTextIsFound
  <2> SUFFICES ASSUME checkpoint # Missing, NEW k \in DOMAIN checkpoint[1],
                      Single(Places(Lines(doc), checkpoint[1][k].text)),
                      Verdict(doc, k, checkpoint[1][k]) # "manual",
                      LineAt(doc, AsciiLine(doc, k[1])).kind = "hex"
               PROVE  \/ /\ Verdict(doc, k, checkpoint[1][k]) = "kept"
                         /\ checkpoint[1][k].pair \in Places(Lines(doc), checkpoint[1][k].text)
                      \/ /\ Verdict(doc, k, checkpoint[1][k]) = "moved"
                         /\ Located(Lines(doc), checkpoint[1][k]).pair
                              \in Places(Lines(doc), checkpoint[1][k].text)
    BY DEF UniqueTextIsFound
  <2> DEFINE fp == checkpoint[1][k]
  <2>1. doc \in Content /\ k \in Key /\ Whole(fp)
    BY <1>1 DEF CheckpointInv, FilesAreWhole, WholeCheckpoint
  <2>2. /\ Single(Places(Lines(doc), fp.text)) /\ Verdict(doc, k, fp) # "manual"
        /\ LineAt(doc, AsciiLine(doc, k[1])).kind = "hex"
    OBVIOUS
  <2> HIDE DEF fp
  <2>3. \/ Verdict(doc, k, fp) = "kept" /\ fp.pair \in Places(Lines(doc), fp.text)
        \/ Verdict(doc, k, fp) = "moved" /\ Located(Lines(doc), fp).pair \in Places(Lines(doc), fp.text)
    BY <2>1, <2>2, UniqueIsFound
  <2> QED BY <2>3 DEF fp
<1> QED BY <1>1, SpecInv, PTL

\* What is left to find after a pull that ran to its end.
LEMMA FinishedStep ==
  ASSUME CheckpointInv, [Next]_vars,
         job.phase \in {"clearing", "rechecking"}, job'.phase = "idle", ~ overlap,
         counts' = counts
  PROVE  LET left == Diff(doc, checkpoint[1])
         IN  /\ DOMAIN left.updates \cup left.unresolved \cup left.manual
                  \subseteq job.diff.unresolved
             /\ diff' = IF job.diff.unresolved = {} THEN Missing ELSE << left >>
<1> DEFINE left  == Diff(doc, checkpoint[1])
           saved == checkpoint[1]
           U     == job.diff.unresolved
<1>1. AlreadyCommitted(doc, saved, U) /\ doc \in Content
  BY DEF CheckpointInv, FilesAreWhole, FilesAgree
<1>2. /\ DOMAIN left.updates = {k \in DOMAIN saved : Verdict(doc, k, saved[k]) = "moved"}
      /\ left.manual = {k \in DOMAIN saved : Verdict(doc, k, saved[k]) = "manual"}
      /\ left.unresolved = {k \in DOMAIN saved : Verdict(doc, k, saved[k]) = "unresolved"}
  BY DiffAccounts
<1>3. \A k \in DOMAIN saved : k \notin U => Verdict(doc, k, saved[k]) = "kept"
  BY <1>1, CommittedIsKept
<1>4. DOMAIN left.updates \cup left.unresolved \cup left.manual \subseteq U
  <2> HIDE DEF left, saved, U
  <2> QED BY <1>2, <1>3
<1>5. diff' = IF U = {} THEN Missing ELSE << left >>
  <2>1. counts \in [commands : Nat, edits : Nat, crashes : Nat]
    BY DEF CheckpointInv, FilesAreWhole
  <2>2. ~ Crash
    BY <2>1, CountedType DEF Crash
  <2>3. ClearDiff \/ Recheck
    <3>1. job.phase \notin {"idle", "pulling", "applied", "written"} /\ job' # job
      OBVIOUS
    <3>2. ~ UNCHANGED vars /\ \A new : ~ Saves(new)
      BY <3>1 DEF vars, Saves
    <3>3. ~ Edit /\ ~ RetypePair /\ ~ UserUndo
      BY <3>2 DEF Edit, RetypePair, UserUndo
    <3>4. ~ CommitFirst /\ ~ Check /\ ~ (\E accept \in BOOLEAN : Commit(accept)) /\ ~ Pull
      BY <3>1 DEF CommitFirst, Check, Commit, Pull, Begins
    <3>5. ~ Apply /\ ~ WritePulled /\ ~ SaveCheckpoint /\ ~ SaveFails
      BY <3>1 DEF Apply, WritePulled, SaveCheckpoint, SaveFails
    <3> QED BY <2>2, <3>2, <3>3, <3>4, <3>5 DEF Next
  <2>4. CASE ClearDiff
    <3>1. U = {} /\ diff' = Missing
      BY <2>4 DEF ClearDiff, CheckpointInv, JobIsWhole
    <3> QED BY <3>1
  <2>5. CASE Recheck
    <3>1. U # {} /\ Scans(doc)
      BY <1>1, <2>5 DEF Recheck, CheckpointInv, JobIsWhole, AlreadyCommitted, CanBuild
    <3> QED BY <2>5, <3>1 DEF Recheck
  <2> QED BY <2>3, <2>4, <2>5
<1> QED BY <1>4, <1>5

\* After a pull that ran to its end nothing is pending but what it reported as
\* unresolved: the checkpoint was taken of the very document it left.
THEOREM PullsFinish == Spec => FinishedPullsAgree
<1>1. CheckpointInv /\ [Next]_vars =>
        [job.phase \in {"clearing", "rechecking"} /\ job'.phase = "idle" /\ ~ overlap
         /\ counts' = counts =>
           LET left == Diff(doc, checkpoint[1])
           IN  /\ DOMAIN left.updates \cup left.unresolved \cup left.manual
                    \subseteq job.diff.unresolved
               /\ diff' = IF job.diff.unresolved = {} THEN Missing ELSE << left >>]_vars
  BY FinishedStep
<1> QED BY <1>1, SpecInv, PTL DEF Spec, FinishedPullsAgree

\* The step that writes a pull, with the document it was computed for.
LEMMA WritingStep ==
  ASSUME CheckpointInv, [Next]_vars,
         job.phase = "applied", job'.phase = "written", ~ overlap
  PROVE  /\ doc \in Content /\ doc' = Applied(doc, job.diff)
         /\ WholeDiff(job.diff) /\ CanApply(doc, job.diff)
         /\ DOMAIN job.diff.updates # {}
         /\ WholeCheckpoint(checkpoint[1])
         /\ \/ job.diff = Diff(doc, checkpoint[1])
            \/ AlreadyCommitted(doc', checkpoint[1], job.diff.unresolved)
<1>1. doc' = job.new
  <2>1. job' # job /\ job'.phase # "idle"
    OBVIOUS
  <2>2. ~ UNCHANGED vars /\ \A new : ~ Saves(new)
    BY <2>1 DEF vars, Saves
  <2>3. ~ Edit /\ ~ RetypePair /\ ~ UserUndo
    BY <2>2 DEF Edit, RetypePair, UserUndo
  <2>4. ~ CommitFirst /\ ~ Check /\ ~ (\E accept \in BOOLEAN : Commit(accept)) /\ ~ Pull
    BY DEF CommitFirst, Check, Commit, Pull, Begins
  <2>5. ~ Apply /\ ~ SaveCheckpoint /\ ~ SaveFails /\ ~ ClearDiff /\ ~ Recheck /\ ~ Crash
    BY <2>1 DEF Apply, SaveCheckpoint, SaveFails, ClearDiff, Recheck, Crash, Idle
  <2>6. WritePulled
    BY <2>2, <2>3, <2>4, <2>5 DEF Next
  <2> QED BY <2>6 DEF WritePulled
<1>2. /\ doc \in Content /\ CanApply(doc, job.diff) /\ job.new = Applied(doc, job.diff)
      /\ DOMAIN job.diff.updates # {} /\ checkpoint # Missing /\ diff # Missing /\ diff[1] = job.diff
  BY DEF CheckpointInv, FilesAreWhole, JobIsWhole, FilesAgree
<1>3. WholeDiff(job.diff) /\ WholeCheckpoint(checkpoint[1])
  BY <1>2 DEF CheckpointInv, FilesAreWhole
<1>4. Agreed(job.diff, checkpoint[1])
  BY <1>2 DEF CheckpointInv, FilesAgree
<1>5. job.diff.base = doc
  BY <1>2 DEF CanApply
<1> QED BY <1>1, <1>2, <1>3, <1>4, <1>5 DEF Agreed

\* A zone a fresh diff moves: it no longer read its text, and reads it again.
LEMMA MovedZones ==
  ASSUME NEW c \in Content, NEW saved, WholeCheckpoint(saved), NEW d, d = Diff(c, saved),
         WholeDiff(d), CanApply(c, d), NEW k \in DOMAIN d.updates
  PROVE  /\ k \in DOMAIN saved /\ k \in Key /\ Readable(c, k[1])
         /\ saved[k].pair = ZoneAt(c, k[1], k[2])
         /\ ~ ReadsText(c, ZoneAt(c, k[1], k[2]), saved[k].text)
         /\ ZoneAt(Applied(c, d), k[1], k[2]) = d.updates[k].to.pair
         /\ /\ MovesByContent(d.updates[k]) /\ PlainText(saved[k].text)
            /\ d.updates[k].to.pair.end < Len(Lines(Applied(c, d)))
            => ReadsText(Applied(c, d), d.updates[k].to.pair, saved[k].text)
<1> DEFINE fp == saved[k]
           p  == d.updates[k].to.pair
<1>1. k \in DOMAIN saved /\ Verdict(c, k, fp) = "moved" /\ d.updates[k].to = Located(Lines(c), fp)
  BY DiffAccounts
<1>2. k \in Key /\ Whole(fp) /\ p \in ZonePair
  BY <1>1 DEF WholeCheckpoint, WholeDiff
<1>3. /\ Readable(c, k[1]) /\ fp.pair = ZoneAt(c, k[1], k[2])
      /\ ~ ReadsText(c, ZoneAt(c, k[1], k[2]), fp.text)
  <2> HIDE DEF fp, p
  <2> QED BY <1>1, <1>2, VerdictMeans
<1>4. ZoneAt(Applied(c, d), k[1], k[2]) = p
  BY <1>2, <1>3, AppliedZones DEF Readable
<1>5. ASSUME MovesByContent(d.updates[k]), PlainText(fp.text), p.end < Len(Lines(Applied(c, d)))
      PROVE  ReadsText(Applied(c, d), p, fp.text)
  <2>0. Lines(c) \in Seq(Line)
    BY LinesType
  <2>1. Located(Lines(c), fp).method = "exact-content" /\ p = Located(Lines(c), fp).pair
    BY <1>1, <1>5 DEF MovesByContent
  <2>2. p \in Exact(Lines(c), fp)
    <3> HIDE DEF fp, p
    <3> QED BY <2>1, SingleHasOne DEF Located
  <2>3. p.end < Len(Lines(c)) /\ ReadsText(c, p, fp.text)
    BY <2>2 DEF Exact, ReadsText
  <2> HIDE DEF fp, p
  <2> QED BY <1>2, <1>5, <2>3, PlainTextStays
<1> QED BY <1>1, <1>2, <1>3, <1>4, <1>5

\* A pull changes the coordinates of zones that no longer read what was committed,
\* and nothing else of the document.
THEOREM PullsMoveLostZones == Spec => PullsMoveLostZonesOnly
<1>1. ASSUME CheckpointInv, [Next]_vars,
             job.phase = "applied", job'.phase = "written", ~ overlap
      PROVE  /\ Len(Lines(doc')) = Len(Lines(doc)) - (IF EndsEmpty(doc) THEN 1 ELSE 0)
             /\ \A i \in 1 .. Len(Lines(doc')) :
                  Lines(doc')[i] # Lines(doc)[i] =>
                    \E k \in DOMAIN job.diff.updates : AsciiLine(doc, k[1]) = i - 1
             /\ \/ AlreadyCommitted(doc', checkpoint[1], job.diff.unresolved)
                \/ \A k \in Key :
                     Readable(doc, k[1]) /\ ZoneAt(doc', k[1], k[2]) # ZoneAt(doc, k[1], k[2]) =>
                       /\ k \in DOMAIN checkpoint[1]
                       /\ checkpoint[1][k].pair = ZoneAt(doc, k[1], k[2])
                       /\ ~ ReadsText(doc, ZoneAt(doc, k[1], k[2]), checkpoint[1][k].text)
                       /\ /\ MovesByContent(job.diff.updates[k])
                          /\ PlainText(checkpoint[1][k].text)
                          /\ ZoneAt(doc', k[1], k[2]).end < Len(Lines(doc'))
                          => ReadsText(doc', ZoneAt(doc', k[1], k[2]), checkpoint[1][k].text)
  <2> DEFINE d     == job.diff
             saved == checkpoint[1]
             c     == doc
             e     == Applied(c, d)
  <2>1. /\ c \in Content /\ doc' = e /\ WholeDiff(d) /\ CanApply(c, d)
        /\ DOMAIN d.updates # {} /\ WholeCheckpoint(saved)
        /\ d = Diff(c, saved) \/ AlreadyCommitted(doc', saved, d.unresolved)
    BY <1>1, WritingStep
  <2> HIDE DEF d, saved, c
  <2>2. /\ Len(Lines(e)) = Len(Lines(c)) - (IF EndsEmpty(c) THEN 1 ELSE 0)
        /\ \A i \in 1 .. Len(Lines(e)) : Lines(e)[i] # Lines(c)[i] => i - 1 \in Touched(c, d)
    BY <2>1, AppliedLength
  <2>3. \A i \in 1 .. Len(Lines(e)) :
          Lines(e)[i] # Lines(c)[i] => \E k \in DOMAIN d.updates : AsciiLine(c, k[1]) = i - 1
    <3> HIDE DEF e
    <3> QED BY <2>2 DEF Touched
  <2>4. ASSUME d = Diff(c, saved), NEW k \in Key, Readable(c, k[1]),
               ZoneAt(e, k[1], k[2]) # ZoneAt(c, k[1], k[2])
        PROVE  /\ k \in DOMAIN saved
               /\ saved[k].pair = ZoneAt(c, k[1], k[2])
               /\ ~ ReadsText(c, ZoneAt(c, k[1], k[2]), saved[k].text)
               /\ /\ MovesByContent(d.updates[k])
                  /\ PlainText(saved[k].text)
                  /\ ZoneAt(e, k[1], k[2]).end < Len(Lines(e))
                  => ReadsText(e, ZoneAt(e, k[1], k[2]), saved[k].text)
    <3>1. k \in DOMAIN d.updates
      BY <2>1, <2>4, AppliedZones DEF Readable
    <3>2. /\ k \in DOMAIN saved
          /\ saved[k].pair = ZoneAt(c, k[1], k[2])
          /\ ~ ReadsText(c, ZoneAt(c, k[1], k[2]), saved[k].text)
          /\ ZoneAt(e, k[1], k[2]) = d.updates[k].to.pair
          /\ /\ MovesByContent(d.updates[k]) /\ PlainText(saved[k].text)
             /\ d.updates[k].to.pair.end < Len(Lines(e))
             => ReadsText(e, d.updates[k].to.pair, saved[k].text)
      BY <2>1, <2>4, <3>1, MovedZones
    <3> HIDE DEF e
    <3> QED BY <3>2
  <2> HIDE DEF e
  <2> QED BY <2>1, <2>2, <2>3, <2>4 DEF c, d, saved
<1>2. CheckpointInv /\ [Next]_vars =>
        [job.phase = "applied" /\ job'.phase = "written" /\ ~ overlap =>
           /\ Len(Lines(doc')) = Len(Lines(doc)) - (IF EndsEmpty(doc) THEN 1 ELSE 0)
           /\ \A i \in 1 .. Len(Lines(doc')) :
                Lines(doc')[i] # Lines(doc)[i] =>
                  \E k \in DOMAIN job.diff.updates : AsciiLine(doc, k[1]) = i - 1
           /\ \/ AlreadyCommitted(doc', checkpoint[1], job.diff.unresolved)
              \/ \A k \in Key :
                   Readable(doc, k[1]) /\ ZoneAt(doc', k[1], k[2]) # ZoneAt(doc, k[1], k[2]) =>
                     /\ k \in DOMAIN checkpoint[1]
                     /\ checkpoint[1][k].pair = ZoneAt(doc, k[1], k[2])
                     /\ ~ ReadsText(doc, ZoneAt(doc, k[1], k[2]), checkpoint[1][k].text)
                     /\ /\ MovesByContent(job.diff.updates[k])
                        /\ PlainText(checkpoint[1][k].text)
                        /\ ZoneAt(doc', k[1], k[2]).end < Len(Lines(doc'))
                        => ReadsText(doc', ZoneAt(doc', k[1], k[2]), checkpoint[1][k].text)]_vars
  BY <1>1
<1> QED BY <1>2, SpecInv, PTL DEF Spec, PullsMoveLostZonesOnly

\* A zone whose text the document still has at its pair has it in the new
\* fingerprint too.
HasText(saved, k, text) == k \in DOMAIN saved /\ saved[k].text = text

LEMMA BuiltText ==
  ASSUME NEW c \in Content, CanBuild(c), NEW k \in Key, Readable(c, k[1]),
         NEW p, ZoneAt(c, k[1], k[2]) = p, p # NoZone,
         NEW old, NEW unresolved, k \notin unresolved, NEW text,
         p.end < Len(Lines(c)) => ReadsText(c, p, text)
  PROVE  HasText(Preserving(c, old, unresolved), k, text)
<1> DEFINE saved == Preserving(c, old, unresolved)
<1>1. k \in Active(c)
  BY DEF Active
<1>2. p.end < Len(Lines(c))
  BY <1>1 DEF CanBuild
<1>3. Preserves(saved, c, old, unresolved)
  BY PreservingReads
<1> HIDE DEF saved
<1>4. k \in DOMAIN saved /\ saved[k] = Fingerprint(c, ZoneAt(c, k[1], k[2]))
  BY <1>1, <1>3 DEF Preserves
<1>5. saved[k].text = Slice(Lines(c), p.start, p.end)
  BY <1>4 DEF Fingerprint
<1> QED BY <1>2, <1>4, <1>5 DEF ReadsText, HasText, saved

\* The zones a fresh diff has nothing to say of.
LEMMA KeptZones ==
  ASSUME NEW c \in Content, NEW saved, WholeCheckpoint(saved), NEW d, d = Diff(c, saved),
         NEW k \in DOMAIN saved,
         k \notin d.manual, k \notin d.changed, k \notin d.unresolved, k \notin DOMAIN d.updates
  PROVE  /\ k \in Key /\ Readable(c, k[1]) /\ ZoneAt(c, k[1], k[2]) = saved[k].pair
         /\ saved[k].pair \in ZonePair /\ saved[k].pair # NoZone
         /\ saved[k].pair.end < Len(Lines(c)) /\ ReadsText(c, saved[k].pair, saved[k].text)
<1> DEFINE fp == saved[k]
<1>1. k \in Key /\ Whole(fp)
  BY DEF WholeCheckpoint
<1>2. /\ DOMAIN d.updates = {j \in DOMAIN saved : Verdict(c, j, saved[j]) = "moved"}
      /\ d.manual = {j \in DOMAIN saved : Verdict(c, j, saved[j]) = "manual"}
      /\ d.unresolved = {j \in DOMAIN saved : Verdict(c, j, saved[j]) = "unresolved"}
      /\ d.changed = {j \in DOMAIN saved : Verdict(c, j, saved[j]) = "changed"}
  BY DiffAccounts
<1>3. Verdict(c, k, fp) = "kept"
  BY <1>2, VerdictIsOne
<1> HIDE DEF fp
<1>4. /\ Readable(c, k[1]) /\ ZoneAt(c, k[1], k[2]) = fp.pair
      /\ fp.pair.end < Len(Lines(c)) /\ ReadsText(c, fp.pair, fp.text)
  BY <1>1, <1>3, VerdictMeans
<1>5. fp.pair \in ZonePair /\ fp.pair # NoZone
  BY <1>1 DEF Whole, FingerprintType
<1> QED BY <1>1, <1>4, <1>5 DEF fp

\* The step that advances the checkpoint, for one zone.
LEMMA AdvancingStep ==
  ASSUME CheckpointInv, SaveCheckpoint, checkpoint' # checkpoint, ~ overlap,
         NEW k \in DOMAIN checkpoint[1],
         k \notin job.diff.manual, k \notin job.diff.changed,
         Readable(doc, k[1]), PlainText(checkpoint[1][k].text),
         k \in DOMAIN job.diff.updates => MovesByContent(job.diff.updates[k])
  PROVE  k \in DOMAIN checkpoint'[1] /\ checkpoint'[1][k].text = checkpoint[1][k].text
<1> DEFINE d     == job.diff
           U     == job.diff.unresolved
           saved == checkpoint[1]
           next  == Preserving(doc, saved, U)
           b     == d.base
<1>1. /\ job.phase = "written" /\ CanBuild(doc) /\ checkpoint' = << next >>
      /\ checkpoint # Missing
  BY DEF SaveCheckpoint, CheckpointInv, JobIsWhole
<1>2. /\ doc \in Content /\ WholeCheckpoint(saved) /\ checkpoint = << saved >>
      /\ diff # Missing /\ diff[1] = d /\ WholeDiff(d)
  BY <1>1 DEF CheckpointInv, JobIsWhole, FilesAreWhole
<1>3. checkpoint'[1] = next
  BY <1>1
<1>4. next # saved
  <2> HIDE DEF next, saved
  <2> QED BY <1>1, <1>2
<1>5. k \in DOMAIN saved /\ k \in Key /\ PlainText(saved[k].text)
      /\ k \notin d.manual /\ k \notin d.changed
      /\ (k \in DOMAIN d.updates => MovesByContent(d.updates[k]))
  BY <1>2 DEF WholeCheckpoint
<1>6. CASE k \in U
  <2>1. Preserves(next, doc, saved, U)
    BY PreservingReads
  <2> HIDE DEF next, saved, U
  <2>2. k \in DOMAIN next /\ next[k] = saved[k]
    BY <1>5, <1>6, <2>1 DEF Preserves
  <2>3. k \in DOMAIN next /\ next[k].text = saved[k].text
    BY <2>2
  <2> QED BY <1>3, <2>3 DEF saved
<1>7. CASE k \notin U /\ DOMAIN d.updates = {}
  <2>1. d = Diff(doc, saved)
    BY <1>1, <1>7 DEF CheckpointInv, FilesAgree
  <2>2. k \notin d.unresolved
    BY <1>7
  <2> HIDE DEF d, saved
  <2>3. /\ ZoneAt(doc, k[1], k[2]) = saved[k].pair /\ saved[k].pair # NoZone
        /\ ReadsText(doc, saved[k].pair, saved[k].text)
    BY <1>2, <1>5, <1>7, <2>1, <2>2, KeptZones
  <2> DEFINE p    == saved[k].pair
             text == saved[k].text
  <2>4. ZoneAt(doc, k[1], k[2]) = p /\ p # NoZone /\ ReadsText(doc, p, text)
    BY <2>3
  <2> HIDE DEF p, text, U
  <2>5. HasText(Preserving(doc, saved, U), k, text)
    BY <1>1, <1>2, <1>5, <1>7, <2>4, BuiltText
  <2> QED BY <1>3, <2>5 DEF HasText, text, saved
<1>8. CASE k \notin U /\ DOMAIN d.updates # {}
  <2>1. CanApply(b, d) /\ doc = Applied(b, d)
    BY <1>1, <1>8 DEF CheckpointInv, FilesAgree
  <2>2. d = Diff(b, saved)
    <3>1. Agreed(d, saved)
      BY <1>2 DEF CheckpointInv, FilesAgree
    <3>2. ~ AlreadyCommitted(doc, saved, U)
      BY <1>4 DEF AlreadyCommitted
    <3> QED BY <1>8, <2>1, <3>1, <3>2 DEF Agreed
  <2>3. b \in Content
    BY <1>2 DEF WholeDiff
  <2>4. k \notin d.unresolved
    BY <1>8
  <2> HIDE DEF b, d, saved
  <2> DEFINE p    == IF k \in DOMAIN d.updates THEN d.updates[k].to.pair ELSE saved[k].pair
             text == saved[k].text
  <2>5. ZoneAt(doc, k[1], k[2]) = p /\ p # NoZone /\ (p.end < Len(Lines(doc)) => ReadsText(doc, p, text))
    <3>1. CASE k \in DOMAIN d.updates
      <4> DEFINE q == d.updates[k].to.pair
      <4>1. /\ ZoneAt(Applied(b, d), k[1], k[2]) = q
            /\ MovesByContent(d.updates[k]) /\ PlainText(saved[k].text)
               /\ q.end < Len(Lines(Applied(b, d)))
               => ReadsText(Applied(b, d), q, saved[k].text)
        BY <1>2, <2>1, <2>2, <2>3, <3>1, MovedZones
      <4>2. q # NoZone
        BY <1>5, <3>1 DEF MovesByContent
      <4>3. ZoneAt(doc, k[1], k[2]) = q /\ (q.end < Len(Lines(doc)) => ReadsText(doc, q, text))
        BY <1>5, <2>1, <3>1, <4>1
      <4> QED BY <3>1, <4>2, <4>3
    <3>2. CASE k \notin DOMAIN d.updates
      <4> DEFINE q == saved[k].pair
      <4>1. /\ Readable(b, k[1]) /\ ZoneAt(b, k[1], k[2]) = q /\ q \in ZonePair /\ q # NoZone
            /\ q.end < Len(Lines(b)) /\ ReadsText(b, q, text)
        BY <1>2, <1>5, <2>2, <2>3, <2>4, <3>2, KeptZones
      <4>2. ZoneAt(doc, k[1], k[2]) = q
        <5>1. ZoneAt(Applied(b, d), k[1], k[2]) = ZoneAt(b, k[1], k[2])
          BY <1>2, <1>5, <2>1, <2>3, <3>2, <4>1, AppliedZones DEF Readable
        <5> QED BY <2>1, <4>1, <5>1
      <4>3. q.end < Len(Lines(doc)) => ReadsText(doc, q, text)
        <5> HIDE DEF q
        <5>1. PlainText(text)
          BY <1>5
        <5> HIDE DEF text
        <5>2. q.end < Len(Lines(Applied(b, d))) => ReadsText(Applied(b, d), q, text)
          BY <1>2, <2>1, <2>3, <4>1, <5>1, PlainTextStays
        <5> QED BY <2>1, <5>2
      <4> QED BY <3>2, <4>1, <4>2, <4>3
    <3> QED BY <3>1, <3>2
  <2> HIDE DEF p, text, U
  <2>6. HasText(Preserving(doc, saved, U), k, text)
    BY <1>1, <1>2, <1>5, <1>8, <2>5, BuiltText
  <2> QED BY <1>3, <2>6 DEF HasText, text, saved
<1> QED BY <1>6, <1>7, <1>8

\* The committed text of a zone outlives every pull that found it by its content.
THEOREM CommittedTextsStay == Spec => CheckpointKeepsTexts
<1>1. ASSUME CheckpointInv, [Next]_vars, checkpoint # Missing, checkpoint' # checkpoint, ~ overlap,
             NEW k \in DOMAIN checkpoint[1] \ (job.diff.manual \cup job.diff.changed),
             Readable(doc, k[1]), PlainText(checkpoint[1][k].text),
             k \in DOMAIN job.diff.updates => MovesByContent(job.diff.updates[k])
      PROVE  k \in DOMAIN checkpoint'[1] /\ checkpoint'[1][k].text = checkpoint[1][k].text
  <2>1. SaveCheckpoint
    <3>1. ~ UNCHANGED vars /\ \A new : ~ Saves(new)
      BY <1>1 DEF vars, Saves
    <3>2. ~ Edit /\ ~ RetypePair /\ ~ UserUndo
      BY <3>1 DEF Edit, RetypePair, UserUndo
    <3>3. ~ CommitFirst /\ ~ Check /\ ~ (\E accept \in BOOLEAN : Commit(accept)) /\ ~ Pull
      BY <1>1 DEF CommitFirst, Check, Commit, Pull
    <3>4. ~ Apply /\ ~ WritePulled /\ ~ SaveFails /\ ~ ClearDiff /\ ~ Recheck /\ ~ Crash
      BY <1>1 DEF Apply, WritePulled, SaveFails, ClearDiff, Recheck, Crash
    <3> QED BY <1>1, <3>1, <3>2, <3>3, <3>4 DEF Next
  <2> QED BY <1>1, <2>1, AdvancingStep
<1>2. CheckpointInv /\ [Next]_vars =>
        [checkpoint # Missing /\ checkpoint' # checkpoint /\ ~ overlap =>
           \A k \in DOMAIN checkpoint[1] \ (job.diff.manual \cup job.diff.changed) :
             /\ Readable(doc, k[1])
             /\ PlainText(checkpoint[1][k].text)
             /\ (k \in DOMAIN job.diff.updates => MovesByContent(job.diff.updates[k]))
             => k \in DOMAIN checkpoint'[1] /\ checkpoint'[1][k].text = checkpoint[1][k].text]_vars
  BY <1>1
<1> QED BY <1>2, SpecInv, PTL DEF Spec, CheckpointKeepsTexts
=============================================================================
