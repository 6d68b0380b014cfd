------------------------- MODULE TransactionsProofs -------------------------
(***************************************************************************)
(* For any number of clients, operations and interrupted writes: while a   *)
(* transaction that nobody came between is staging, no other one begins.   *)
(***************************************************************************)
EXTENDS Transactions, SequenceTheorems, FiniteSetTheorems, WellFoundedInduction, TLAPS

(***************************************************************************)
(* Logs without a commit line.                                             *)
(***************************************************************************)
ASequence(s) == \E S : s \in Seq(S)
Unmarked(s)  == \A i \in 1 .. Len(s) : s[i].kind # "commit"

\* Lines a to b of a log.
LEMMA PieceOfALog ==
  ASSUME NEW S, NEW s \in Seq(S), NEW a \in 1 .. Len(s) + 1, NEW b \in 0 .. Len(s), a <= b + 1
  PROVE  /\ SubSeq(s, a, b) \in Seq(S)
         /\ Len(SubSeq(s, a, b)) = b - a + 1
         /\ \A i \in 1 .. b - a + 1 : SubSeq(s, a, b)[i] = s[a + i - 1]
<1>1. Len(s) \in Nat /\ a \in Int /\ b \in Int
  BY LenProperties
<1>2. \A i \in a .. b : s[i] \in S
  BY <1>1, ElementOfSeq
<1>3. /\ SubSeq(s, a, b) \in Seq(S)
      /\ Len(SubSeq(s, a, b)) = IF a <= b THEN b - a + 1 ELSE 0
      /\ \A i \in 1 .. b - a + 1 : SubSeq(s, a, b)[i] = s[a + i - 1]
  BY <1>1, <1>2, SubSeqProperties
<1>4. Len(SubSeq(s, a, b)) = b - a + 1
  BY <1>1, <1>3
<1> QED BY <1>3, <1>4

\* Where the lines of a log come from: the old ones keep their places, but an
\* unended last one takes the first new one on; the new ones follow.
LEMMA AppendedLines ==
  ASSUME NEW S, NEW file \in Seq(S), NEW T, NEW new \in Seq(T)
  PROVE  /\ ASequence(Appended(file, new))
         /\ Len(Appended(file, new)) >= Len(file)
         /\ \A i \in 1 .. Len(file) :
              \/ Appended(file, new)[i] = file[i]
              \/ /\ i = Len(file) /\ ~ file[i].ended /\ new # << >>
                 /\ Appended(file, new)[i] = Glued(file[i], new[1])
         /\ \A i \in Len(file) + 1 .. Len(Appended(file, new)) :
              \E j \in 1 .. Len(new) : Appended(file, new)[i] = new[j]
         /\ \A j \in 2 .. Len(new) :
              \E i \in 1 .. Len(Appended(file, new)) : Appended(file, new)[i] = new[j]
<1>1. CASE file # << >> /\ new # << >> /\ ~ file[Len(file)].ended
  <2> DEFINE m     == Len(file)
             n     == Len(new)
             glue  == Glued(file[m], new[1])
             front == SubSeq(file, 1, m - 1)
             back  == SubSeq(new, 2, n)
             all   == front \o << glue >> \o back
             U     == S \cup T \cup {glue}
  <2>1. m \in Nat \ {0} /\ n \in Nat \ {0} BY <1>1
  <2>2. S \subseteq U /\ T \subseteq U /\ file \in Seq(U) /\ new \in Seq(U)
    <3> HIDE DEF glue
    <3> QED OBVIOUS
  <2>3. /\ front \in Seq(U) /\ Len(front) = m - 1
        /\ \A i \in 1 .. m - 1 : front[i] = file[i]
    <3> DEFINE k == m - 1
    <3>1. 1 \in 1 .. Len(file) + 1 /\ k \in 0 .. Len(file) /\ 1 <= k + 1
          /\ k - 1 + 1 = k /\ \A i \in 1 .. k : 1 + i - 1 = i
      BY <2>1
    <3> HIDE DEF glue, U, k, m
    <3>2. /\ SubSeq(file, 1, k) \in Seq(U)
          /\ Len(SubSeq(file, 1, k)) = k - 1 + 1
          /\ \A i \in 1 .. k - 1 + 1 : SubSeq(file, 1, k)[i] = file[1 + i - 1]
      BY <2>2, <3>1, PieceOfALog
    <3>3. \A i \in 1 .. k : SubSeq(file, 1, k)[i] = file[i] BY <3>1, <3>2
    <3> QED BY <3>1, <3>2, <3>3 DEF k
  <2>4. /\ back \in Seq(U) /\ Len(back) = n - 1
        /\ \A i \in 1 .. n - 1 : back[i] = new[i + 1]
    <3>1. 2 \in 1 .. n + 1 /\ n \in 0 .. n /\ 2 <= n + 1 /\ n - 2 + 1 = n - 1
          /\ \A i \in 1 .. n - 1 : 2 + i - 1 = i + 1
      BY <2>1
    <3> HIDE DEF glue, U
    <3>2. /\ SubSeq(new, 2, n) \in Seq(U)
          /\ Len(SubSeq(new, 2, n)) = n - 2 + 1
          /\ \A i \in 1 .. n - 2 + 1 : SubSeq(new, 2, n)[i] = new[2 + i - 1]
      BY <2>2, <3>1, PieceOfALog
    <3> HIDE DEF n
    <3>3. \A i \in 1 .. n - 1 : SubSeq(new, 2, n)[i] = new[i + 1] BY <3>1, <3>2
    <3> QED BY <3>1, <3>2, <3>3 DEF n
  <2>5. << glue >> \in Seq(U) /\ Len(<< glue >>) = 1 /\ << glue >>[1] = glue
    <3> HIDE DEF glue
    <3> QED OBVIOUS
  <2> HIDE DEF front, back, glue, U
  <2>6. /\ all \in Seq(U)
        /\ Len(all) = (Len(front) + 1) + Len(back)
        /\ \A i \in 1 .. Len(front) : all[i] = front[i]
        /\ all[Len(front) + 1] = glue
        /\ \A i \in 1 .. Len(back) : all[(Len(front) + 1) + i] = back[i]
    <3>1. front \in Seq(U) /\ back \in Seq(U) BY <2>3, <2>4
    <3> QED BY <2>5, <3>1
  <2> HIDE DEF all
  <2>7. Len(all) = m + (n - 1) /\ all[m] = glue BY <2>1, <2>3, <2>4, <2>6
  <2>8. \A i \in 1 .. m - 1 : all[i] = file[i] BY <2>1, <2>3, <2>6
  <2>9. \A i \in 1 .. n - 1 : all[m + i] = new[i + 1]
    BY <2>1, <2>3, <2>4, <2>6
  <2>10. \A i \in 1 .. m : all[i] = file[i] \/ (i = m /\ all[i] = glue)
    BY <2>1, <2>7, <2>8
  <2>11. \A i \in m + 1 .. Len(all) : \E j \in 1 .. n : all[i] = new[j]
    <3> SUFFICES ASSUME NEW i \in m + 1 .. Len(all) PROVE \E j \in 1 .. n : all[i] = new[j]
      OBVIOUS
    <3> DEFINE k == i - m
    <3>1. k \in 1 .. n - 1 /\ m + k = i /\ k + 1 \in 1 .. n BY <2>1, <2>7
    <3>2. all[m + k] = new[k + 1]
      <4> HIDE DEF k
      <4> QED BY <2>9, <3>1
    <3> QED BY <3>1, <3>2
  <2>12. \A j \in 2 .. n : \E i \in 1 .. Len(all) : all[i] = new[j]
    <3> SUFFICES ASSUME NEW j \in 2 .. n PROVE \E i \in 1 .. Len(all) : all[i] = new[j]
      OBVIOUS
    <3> DEFINE k == j - 1
    <3>1. k \in 1 .. n - 1 /\ k + 1 = j /\ m + k \in 1 .. Len(all) BY <2>1, <2>7
    <3>2. all[m + k] = new[k + 1]
      <4> HIDE DEF k
      <4> QED BY <2>9, <3>1
    <3> QED BY <3>1, <3>2
  <2>13. Appended(file, new) = all BY <1>1 DEF Appended, all, front, back, glue
  <2>14. Len(all) >= m BY <2>1, <2>7
  <2> QED BY <1>1, <2>6, <2>10, <2>11, <2>12, <2>13, <2>14 DEF ASequence, glue
<1>2. CASE ~ (file # << >> /\ new # << >> /\ ~ file[Len(file)].ended)
  <2> DEFINE all == file \o new
             m   == Len(file)
             n   == Len(new)
  <2>1. Appended(file, new) = all BY <1>2 DEF Appended
  <2>2. file \in Seq(S \cup T) /\ new \in Seq(S \cup T) /\ m \in Nat /\ n \in Nat
    OBVIOUS
  <2>3. /\ all \in Seq(S \cup T) /\ Len(all) = m + n
        /\ \A i \in 1 .. m : all[i] = file[i]
        /\ \A i \in 1 .. n : all[m + i] = new[i]
    BY <2>2
  <2> HIDE DEF all, m, n
  <2>4. \A i \in m + 1 .. Len(all) : \E j \in 1 .. n : all[i] = new[j]
    <3> SUFFICES ASSUME NEW i \in m + 1 .. Len(all) PROVE \E j \in 1 .. n : all[i] = new[j]
      OBVIOUS
    <3> DEFINE k == i - m
    <3>1. k \in 1 .. n /\ m + k = i BY <2>2, <2>3
    <3>2. all[m + k] = new[k]
      <4> HIDE DEF k
      <4> QED BY <2>3, <3>1
    <3> QED BY <3>1, <3>2
  <2>5. \A j \in 2 .. n : m + j \in 1 .. Len(all) BY <2>2, <2>3
  <2>6. \A j \in 2 .. n : \E i \in 1 .. Len(all) : all[i] = new[j] BY <2>2, <2>3, <2>5
  <2>7. Len(all) >= m BY <2>2, <2>3
  <2> QED BY <2>1, <2>3, <2>4, <2>6, <2>7 DEF ASequence, m, n
<1> QED BY <1>1, <1>2

\* Gluing a line to the last one makes a commit line of neither.
LEMMA AppendingMarksNothing ==
  ASSUME NEW S, NEW file \in Seq(S), NEW T, NEW new \in Seq(T)
  PROVE  /\ ASequence(Appended(file, new))
         /\ Unmarked(file) /\ Unmarked(new) => Unmarked(Appended(file, new))
<1> DEFINE all == Appended(file, new)
<1>1. /\ ASequence(all) /\ Len(file) \in Nat /\ Len(all) \in Nat
      /\ \A i \in 1 .. Len(file) :
           \/ all[i] = file[i]
           \/ i = Len(file) /\ all[i] = Glued(file[i], new[1])
      /\ \A i \in Len(file) + 1 .. Len(all) : \E j \in 1 .. Len(new) : all[i] = new[j]
  <2>1. ASequence(all) BY AppendedLines
  <2>2. Len(all) \in Nat BY <2>1 DEF ASequence
  <2> QED BY <2>1, <2>2, AppendedLines
<1> HIDE DEF all
<1>2. ASSUME Unmarked(file), Unmarked(new), NEW i \in 1 .. Len(all) PROVE all[i].kind # "commit"
  <2>1. CASE i \in 1 .. Len(file)
    <3>1. file[i].kind # "commit" BY <1>2, <2>1 DEF Unmarked
    <3>2. Glued(file[i], new[1]).kind # "commit" BY <3>1 DEF Glued
    <3> QED BY <1>1, <2>1, <3>1, <3>2
  <2>2. CASE i \in Len(file) + 1 .. Len(all) BY <1>1, <1>2, <2>2 DEF Unmarked
  <2> QED BY <1>1, <2>1, <2>2
<1> QED BY <1>1, <1>2 DEF Unmarked, all

\* What an interrupted write leaves behind.
LEMMA PartsAreSequences ==
  ASSUME NEW T, NEW new \in Seq(T), NEW part \in Partly(new)
  PROVE  part \in Seq(T \cup UNION {Torn(t) : t \in T})
<1> DEFINE parts == T \cup UNION {Torn(t) : t \in T}
<1>1. T \subseteq parts OBVIOUS
<1>2. ASSUME NEW k \in 0 .. Len(new) PROVE SubSeq(new, 1, k) \in Seq(T)
  OBVIOUS
<1>3. ASSUME NEW k \in 1 .. Len(new), NEW t \in Torn(new[k])
      PROVE  Append(SubSeq(new, 1, k - 1), t) \in Seq(parts)
  <2>1. SubSeq(new, 1, k - 1) \in Seq(T) /\ new[k] \in T OBVIOUS
  <2>2. t \in parts BY <2>1
  <2> HIDE DEF parts
  <2> QED BY <1>1, <2>1, <2>2
<1>4. CASE \E k \in 0 .. Len(new) : part = SubSeq(new, 1, k)
  <2> HIDE DEF parts
  <2> QED BY <1>1, <1>2, <1>4
<1>5. CASE \E k \in 1 .. Len(new) : \E t \in Torn(new[k]) : part = Append(SubSeq(new, 1, k - 1), t)
  BY <1>3, <1>5
<1> QED BY <1>4, <1>5 DEF Partly

\* The text of an append, whole or cut short, holds no commit line.
LEMMA LoggingMarksNothing ==
  ASSUME NEW c, NEW op
  PROVE  /\ Logging(c, op) \in Partly(Logging(c, op))
         /\ \A part \in Partly(Logging(c, op)) : ASequence(part) /\ Unmarked(part)
<1> DEFINE e     == Entry(tx[c].seq, op)
           T     == {Head0, Separator, e}
           parts == T \cup UNION {Torn(t) : t \in T}
           new   == Logging(c, op)
<1>1. new \in Seq(T)
  <2>1. CASE tx[c].held BY <2>1 DEF Logging, Header
  <2>2. CASE ~ tx[c].held BY <2>2 DEF Logging, Header
  <2> QED BY <2>1, <2>2
<1>2. \A l \in parts : l.kind # "commit"
  <2>1. \A l \in T : l.kind # "commit" BY DEF Head0, Separator, Entry
  <2>2. \A l \in Torn(Head0) : l.kind # "commit" BY DEF Torn, Head0
  <2>3. \A l \in Torn(Separator) : l.kind # "commit" BY DEF Torn, Separator
  <2>4. \A l \in Torn(e) : l.kind # "commit" BY DEF Torn, Entry
  <2> QED BY <2>1, <2>2, <2>3, <2>4
<1>3. ASSUME NEW part \in Partly(new) PROVE ASequence(part) /\ Unmarked(part)
  <2>1. part \in Seq(parts)
    <3> HIDE DEF new, T
    <3> QED BY <1>1, PartsAreSequences
  <2> HIDE DEF parts
  <2> QED BY <1>2, <2>1 DEF ASequence, Unmarked
<1>4. new \in Partly(new)
  <2> HIDE DEF new, T
  <2>1. new = SubSeq(new, 1, Len(new)) /\ Len(new) \in 0 .. Len(new) BY <1>1
  <2> QED BY <2>1 DEF Partly
<1> QED BY <1>3, <1>4

LEMMA CommittingKeepsASequence ==
  ASSUME ASequence(lines), NEW part \in Partly(CommitLines) \cup {CommitLines}
  PROVE  ASequence(Appended(lines, part))
<1>1. CommitLines \in Seq({Separator, CommitMarker}) BY DEF CommitLines
<1>2. \E T : part \in Seq(T) BY <1>1, PartsAreSequences
<1> QED BY <1>2, AppendingMarksNothing DEF ASequence

(***************************************************************************)
(* The inductive invariant.                                                *)
(***************************************************************************)
\* Which fields a handle and a history have.
HandleIsWhole(c) ==
  tx[c] = Handle(tx[c].state, tx[c].seq, tx[c].held, tx[c].staged)

HistoryIsWhole(c) ==
  seen[c] = History(seen[c].tried, seen[c].kept, seen[c].solo, seen[c].fresh,
                    seen[c].shut)

Whole ==
  /\ DOMAIN tx = Client /\ \A c \in Client : HandleIsWhole(c)
  /\ DOMAIN seen = Client /\ \A c \in Client : HistoryIsWhole(c)

\* A transaction in progress that found no log, has not been disturbed and has not
\* half committed.
Alone(c) ==
  /\ seen[c].solo /\ seen[c].fresh /\ seen[c].shut = {}
  /\ tx[c].state \in {"Started", "Staging"}

\* Its log bears no commit line, and is there once an operation was accepted.
LockInv ==
  /\ Whole
  /\ ASequence(lines) /\ (~ exists => lines = << >>)
  /\ \A c \in Client : Alone(c) => Unmarked(lines) /\ (seen[c].kept # {} => exists)

(***************************************************************************)
(* Steps that leave the log alone, or leave nobody alone on it.            *)
(***************************************************************************)
LEMMA DisturbKeepsHistories ==
  ASSUME Whole, NEW keep, Disturb(keep)
  PROVE  /\ DOMAIN seen' = Client
         /\ \A c \in Client :
              /\ seen'[c] = History(seen[c].tried, seen[c].kept, seen[c].solo /\ c \in keep,
                                    seen[c].fresh, seen[c].shut)
              /\ HistoryIsWhole(c)'
              /\ c \notin keep => seen'[c].solo = FALSE
<1>1. DOMAIN seen' = Client BY DEF Disturb
<1>2. ASSUME NEW c \in Client
      PROVE  seen'[c] = History(seen[c].tried, seen[c].kept, seen[c].solo /\ c \in keep,
                                seen[c].fresh, seen[c].shut)
  <2>1. seen'[c] = [seen[c] EXCEPT !.solo = seen[c].solo /\ c \in keep] BY DEF Disturb
  <2> QED BY <2>1 DEF Whole, HistoryIsWhole, History
<1>3. ASSUME NEW c \in Client
      PROVE  HistoryIsWhole(c)' /\ (c \notin keep => seen'[c].solo = FALSE)
  <2> DEFINE s == seen[c].solo /\ c \in keep
  <2>1. c \notin keep => s = FALSE OBVIOUS
  <2>2. seen'[c] = History(seen[c].tried, seen[c].kept, s, seen[c].fresh, seen[c].shut) BY <1>2
  <2> HIDE DEF s
  <2> QED BY <2>1, <2>2 DEF HistoryIsWhole, History
<1> QED BY <1>1, <1>2, <1>3

\* The log is written or removed by someone all the others did not expect.
LEMMA DisturbedStepKeepsLock ==
  ASSUME LockInv, NEW keep, Disturb(keep),
         DOMAIN tx' = Client, \A c \in Client : HandleIsWhole(c)',
         ASequence(lines'), ~ exists' => lines' = << >>,
         \A c \in Client \cap keep : tx'[c].state \notin {"Started", "Staging"}
  PROVE  LockInv'
<1>1. /\ DOMAIN seen' = Client
      /\ \A c \in Client : HistoryIsWhole(c)' /\ (c \notin keep => seen'[c].solo = FALSE)
  BY DisturbKeepsHistories DEF LockInv
<1>2. \A c \in Client : ~ Alone(c)' BY <1>1 DEF Alone
<1> QED BY <1>1, <1>2 DEF LockInv, Whole

\* Crashed, Started and the like: only the handle of c changes.
LEMMA HandleStepKeepsLock ==
  ASSUME LockInv, NEW c \in Client, UNCHANGED << exists, lines, seen >>,
         DOMAIN tx' = Client, \A d \in Client \ {c} : tx'[d] = tx[d],
         HandleIsWhole(c)', tx'[c].state \notin {"Started", "Staging"}
  PROVE  LockInv'
<1>1. Whole' BY DEF LockInv, Whole, HandleIsWhole, HistoryIsWhole
<1>2. \A d \in Client : Alone(d)' => Alone(d) BY DEF Alone
<1> QED BY <1>1, <1>2 DEF LockInv

LEMMA CrashedHandle ==
  ASSUME Whole, NEW c \in Client, tx' = [tx EXCEPT ![c].state = "Crashed"]
  PROVE  /\ DOMAIN tx' = Client /\ \A d \in Client \ {c} : tx'[d] = tx[d]
         /\ HandleIsWhole(c)' /\ tx'[c].state = "Crashed"
<1>1. tx'[c] = [tx[c] EXCEPT !.state = "Crashed"] BY DEF Whole
<1>2. tx'[c] = Handle("Crashed", tx[c].seq, tx[c].held, tx[c].staged)
  BY <1>1 DEF Whole, HandleIsWhole, Handle
<1> QED BY <1>2 DEF Whole, HandleIsWhole, Handle

\* What commit and rollback leave of the handle.
LEMMA EndedHandle ==
  ASSUME Whole, NEW c \in Client,
         \/ tx' = [tx EXCEPT ![c] = NoHandle]
         \/ tx' = [tx EXCEPT ![c] = [@ EXCEPT !.state = "Committed"]]
         \/ tx' = [tx EXCEPT ![c] = Handle("RolledBack", @.seq, FALSE, << >>)]
  PROVE  /\ DOMAIN tx' = Client /\ \A d \in Client \ {c} : tx'[d] = tx[d]
         /\ HandleIsWhole(c)' /\ tx'[c].state \notin {"Started", "Staging"}
<1>1. DOMAIN tx' = Client /\ \A d \in Client \ {c} : tx'[d] = tx[d] BY DEF Whole
<1>2. \/ tx'[c] = NoHandle
      \/ tx'[c] = [tx[c] EXCEPT !.state = "Committed"]
      \/ tx'[c] = Handle("RolledBack", tx[c].seq, FALSE, << >>)
  BY DEF Whole
<1>3. \/ tx'[c] = NoHandle
      \/ tx'[c] = Handle("Committed", tx[c].seq, tx[c].held, tx[c].staged)
      \/ tx'[c] = Handle("RolledBack", tx[c].seq, FALSE, << >>)
  BY <1>2 DEF Whole, HandleIsWhole, Handle
<1>4. HandleIsWhole(c)' /\ tx'[c].state \notin {"Started", "Staging"}
  BY <1>3 DEF NoHandle, Whole, HandleIsWhole, Handle
<1> QED BY <1>1, <1>4

(***************************************************************************)
(* The steps of a transaction on its own log.                              *)
(***************************************************************************)
\* The writer keeps what it notes; everyone else is disturbed.
LEMMA NotedHistories ==
  ASSUME Whole, NEW c \in Client, NEW history, Noted(c, history)
  PROVE  /\ DOMAIN seen' = Client /\ seen'[c] = history
         /\ \A d \in Client \ {c} : seen'[d].solo = FALSE /\ HistoryIsWhole(d)'
<1>1. DOMAIN seen' = Client /\ seen'[c] = history BY DEF Noted
<1>2. ASSUME NEW d \in Client \ {c} PROVE seen'[d].solo = FALSE /\ HistoryIsWhole(d)'
  <2>1. seen'[d] = [seen[d] EXCEPT !.solo = FALSE] BY DEF Noted
  <2>2. seen'[d] = History(seen[d].tried, seen[d].kept, FALSE, seen[d].fresh, seen[d].shut)
    BY <2>1 DEF Whole, HistoryIsWhole, History
  <2> QED BY <2>2 DEF HistoryIsWhole, History
<1> QED BY <1>1, <1>2

\* An attempt changes what was tried and what was kept.
LEMMA TriedHistory ==
  ASSUME Whole, NEW c \in Client, NEW op, NEW kept, Tried(c, op, kept)
  PROVE  seen'[c] = History(seen[c].tried \cup {<< tx[c].seq, op >>}, seen[c].kept \cup kept,
                            seen[c].solo, seen[c].fresh, seen[c].shut)
<1> DEFINE tried == seen[c].tried \cup {<< tx[c].seq, op >>}
           all   == seen[c].kept \cup kept
<1>1. seen'[c] = [seen[c] EXCEPT !.tried = tried, !.kept = all] BY NotedHistories DEF Tried
<1> HIDE DEF tried, all
<1>2. seen'[c] = History(tried, all, seen[c].solo, seen[c].fresh, seen[c].shut)
  BY <1>1 DEF Whole, HistoryIsWhole, History
<1> QED BY <1>2 DEF tried, all

\* So does a commit that fails, if it wrote something, to when it was shut.
LEMMA HalfShutHistory ==
  ASSUME Whole, NEW c \in Client, NEW part, HalfShut(c, part)
  PROVE  \E shut : /\ seen'[c] = History(seen[c].tried, seen[c].kept, seen[c].solo,
                                         seen[c].fresh, shut)
                   /\ shut = seen[c].shut \cup (IF part = << >> THEN {} ELSE {tx[c].seq})
<1>1. CASE part = << >>
  <2>1. seen'[c] = seen[c] BY <1>1, NotedHistories DEF HalfShut
  <2>2. seen[c].shut = seen[c].shut \cup {} OBVIOUS
  <2> QED BY <1>1, <2>1, <2>2 DEF Whole, HistoryIsWhole
<1>2. CASE part # << >>
  <2> DEFINE shut == seen[c].shut \cup {tx[c].seq}
  <2>1. seen'[c] = [seen[c] EXCEPT !.shut = shut] BY <1>2, NotedHistories DEF HalfShut
  <2> HIDE DEF shut
  <2>2. seen'[c] = History(seen[c].tried, seen[c].kept, seen[c].solo, seen[c].fresh, shut)
    BY <2>1 DEF Whole, HistoryIsWhole, History
  <2> QED BY <1>2, <2>2 DEF shut
<1> QED BY <1>1, <1>2

\* An append, whole or cut short, of a client that goes on or dies.
LEMMA AppendKeepsLock ==
  ASSUME LockInv, NEW c \in Client, NEW op, NEW part \in Partly(Logging(c, op)),
         NEW kept, CanStage(c), Tried(c, op, kept),
         \/ exists' = TRUE /\ lines' = Appended(Base(c), part)
         \/ kept = {} /\ UNCHANGED << exists, lines >>,
         DOMAIN tx' = Client, \A d \in Client \ {c} : tx'[d] = tx[d], HandleIsWhole(c)'
  PROVE  LockInv'
<1>1. /\ DOMAIN seen' = Client
      /\ \A d \in Client \ {c} : seen'[d].solo = FALSE /\ HistoryIsWhole(d)'
  BY NotedHistories DEF Tried, LockInv
<1>2. \A d \in Client \ {c} : seen'[d].solo = FALSE BY <1>1
<1>3. /\ HistoryIsWhole(c)' /\ seen'[c].kept = seen[c].kept \cup kept
      /\ seen'[c].fresh = seen[c].fresh /\ seen'[c].solo = seen[c].solo
      /\ seen'[c].shut = seen[c].shut
  <2> DEFINE tried == seen[c].tried \cup {<< tx[c].seq, op >>}
             all   == seen[c].kept \cup kept
  <2>1. seen'[c] = History(tried, all, seen[c].solo, seen[c].fresh, seen[c].shut)
    BY TriedHistory DEF LockInv
  <2> HIDE DEF tried, all
  <2>2. HistoryIsWhole(c)' /\ seen'[c].kept = all /\ seen'[c].fresh = seen[c].fresh
        /\ seen'[c].solo = seen[c].solo /\ seen'[c].shut = seen[c].shut
    BY <2>1 DEF HistoryIsWhole, History
  <2> QED BY <2>2 DEF all
<1>4. Whole' BY <1>1, <1>2, <1>3 DEF LockInv, Whole, HandleIsWhole
<1>5. ASequence(Base(c)) /\ (Unmarked(lines) => Unmarked(Base(c)))
  <2>1. CASE tx[c].held BY <2>1 DEF Base, LockInv
  <2>2. CASE ~ tx[c].held
    <3>1. Base(c) = << >> BY <2>2 DEF Base
    <3> QED BY <3>1 DEF ASequence, Unmarked
  <2> QED BY <2>1, <2>2
<1>6. /\ ASequence(Appended(Base(c), part))
      /\ Unmarked(lines) => Unmarked(Appended(Base(c), part))
  BY <1>5, LoggingMarksNothing, AppendingMarksNothing DEF ASequence
<1>7. ASequence(lines') /\ (~ exists' => lines' = << >>) /\ (Unmarked(lines) => Unmarked(lines'))
  BY <1>6 DEF LockInv
<1>8. Alone(c)' => Unmarked(lines') /\ (seen'[c].kept # {} => exists')
  <2> SUFFICES ASSUME Alone(c)' PROVE Unmarked(lines') /\ (seen'[c].kept # {} => exists')
    OBVIOUS
  <2>1. Alone(c) BY <1>3 DEF Alone, CanStage
  <2>2. Unmarked(lines) /\ (seen[c].kept # {} => exists) BY <2>1 DEF LockInv
  <2> QED BY <1>3, <1>7, <2>2
<1>9. \A d \in Client \ {c} : ~ Alone(d)' BY <1>2 DEF Alone
<1>10. \A d \in Client : Alone(d)' => Unmarked(lines)' /\ (seen'[d].kept # {} => exists')
  BY <1>8, <1>9 DEF Unmarked
<1> QED BY <1>4, <1>7, <1>10 DEF LockInv

\* begin writes nothing; the log is empty, or the transaction is not fresh.
LEMMA BeginKeepsLock == ASSUME LockInv, NEW c \in Client, Begin(c) PROVE LockInv'
<1>1. /\ tx' = [tx EXCEPT ![c] = Handle("Started", NextSeq(lines), Scanned(lines) # {}, << >>)]
      /\ seen' = [seen EXCEPT ![c] = History({}, {}, TRUE, ~ exists, {})]
      /\ UNCHANGED << exists, lines >>
  BY DEF Begin
<1>2. /\ DOMAIN tx' = Client /\ HandleIsWhole(c)'
      /\ \A d \in Client \ {c} : tx'[d] = tx[d] /\ seen'[d] = seen[d]
  <2> DEFINE n == NextSeq(lines)  h == (Scanned(lines) # {})
  <2>1. tx'[c] = Handle("Started", n, h, << >>) BY <1>1 DEF LockInv, Whole
  <2> HIDE DEF n, h
  <2>2. HandleIsWhole(c)' BY <2>1 DEF HandleIsWhole, Handle
  <2> QED BY <1>1, <2>2 DEF LockInv, Whole
<1>3. /\ DOMAIN seen' = Client /\ HistoryIsWhole(c)' /\ seen'[c].kept = {}
      /\ exists => seen'[c].fresh = FALSE
  <2> DEFINE f == ~ exists
  <2>1. seen'[c] = History({}, {}, TRUE, f, {}) /\ (exists => f = FALSE) BY <1>1 DEF LockInv, Whole
  <2> HIDE DEF f
  <2> QED BY <1>1, <2>1 DEF LockInv, Whole, HistoryIsWhole, History
<1>4. Whole' BY <1>2, <1>3 DEF LockInv, Whole, HandleIsWhole, HistoryIsWhole
<1>5. Alone(c)' => Unmarked(lines) BY <1>3 DEF Alone, LockInv, Unmarked
<1>6. \A d \in Client \ {c} : Alone(d)' => Alone(d) BY <1>2 DEF Alone
<1>7. \A d \in Client : Alone(d)' => Unmarked(lines)' /\ (seen'[d].kept # {} => exists')
  BY <1>1, <1>2, <1>3, <1>5, <1>6 DEF LockInv, Unmarked
<1> QED BY <1>1, <1>4, <1>7 DEF LockInv

LEMMA StageKeepsLock ==
  ASSUME LockInv, NEW c \in Client, NEW op \in Op,
         Stage(c, op) \/ StageFails(c, op) \/ StageCrashes(c, op)
  PROVE  LockInv'
<1>1. CASE Stage(c, op)
  <2>1. DOMAIN tx' = Client /\ HandleIsWhole(c)' /\ \A d \in Client \ {c} : tx'[d] = tx[d]
    BY <1>1 DEF Stage, LockInv, Whole, HandleIsWhole, Handle
  <2> QED BY <1>1, <2>1, AppendKeepsLock, LoggingMarksNothing DEF Stage, Write
<1>2. CASE StageFails(c, op)
  <2>1. PICK part \in Partly(Logging(c, op)) :
          /\ StageCut(c, op, part)
          /\ tx' = [tx EXCEPT ![c].seq = @ + 1]
          /\ Tried(c, op, {})
    BY <1>2 DEF StageFails
  <2>2. tx'[c] = Handle(tx[c].state, tx[c].seq + 1, tx[c].held, tx[c].staged)
    BY <2>1 DEF LockInv, Whole, HandleIsWhole, Handle
  <2>3. DOMAIN tx' = Client /\ HandleIsWhole(c)' /\ \A d \in Client \ {c} : tx'[d] = tx[d]
    BY <2>1, <2>2 DEF LockInv, Whole, HandleIsWhole, Handle
  <2> QED BY <2>1, <2>3, AppendKeepsLock DEF StageCut, Write
<1>3. CASE StageCrashes(c, op)
  <2>1. PICK part \in Partly(Logging(c, op)) :
          /\ StageCut(c, op, part)
          /\ tx' = [tx EXCEPT ![c].state = "Crashed"]
          /\ Tried(c, op, {})
    BY <1>3 DEF StageCrashes
  <2>2. DOMAIN tx' = Client /\ HandleIsWhole(c)' /\ \A d \in Client \ {c} : tx'[d] = tx[d]
    BY <2>1, CrashedHandle DEF LockInv
  <2> QED BY <2>1, <2>2, AppendKeepsLock DEF StageCut, Write
<1> QED BY <1>1, <1>2, <1>3

(***************************************************************************)
(* The end of a transaction.                                               *)
(***************************************************************************)
LEMMA EndKeepsLock ==
  ASSUME LockInv, NEW c \in Client,
         Commit(c) \/ CommitFails(c) \/ CommitCrashes(c) \/ CommitNothing(c) \/ Rollback(c)
  PROVE  LockInv'
<1>0. Whole /\ ASequence(lines) /\ ASequence(<< >>) BY DEF LockInv, ASequence
<1>1. CASE Commit(c)
  <2>1. /\ DOMAIN tx' = Client /\ \A d \in Client \ {c} : tx'[d] = tx[d]
        /\ HandleIsWhole(c)' /\ tx'[c].state \notin {"Started", "Staging"}
    <3>1. CASE c \in Managed BY <3>1, <1>0, <1>1, EndedHandle DEF Commit
    <3>2. CASE c \notin Managed BY <3>2, <1>0, <1>1, EndedHandle DEF Commit
    <3> QED BY <3>1, <3>2
  <2>2. ASequence(lines') /\ exists' = TRUE
    BY <1>0, <1>1, CommittingKeepsASequence DEF Commit, Write
  <2>3. \A d \in Client : HandleIsWhole(d)' BY <2>1 DEF LockInv, Whole, HandleIsWhole
  <2> QED BY <1>1, <2>1, <2>2, <2>3, DisturbedStepKeepsLock DEF Commit
<1>2. CASE CommitFails(c)
  <2>1. PICK part \in Partly(CommitLines) : Write(Appended(lines, part)) /\ HalfShut(c, part)
    BY <1>2 DEF CommitFails
  <2>2. /\ ASequence(lines') /\ exists' = TRUE /\ lines' = Appended(lines, part)
        /\ tx' = tx /\ exists
    BY <1>0, <1>2, <2>1, CommittingKeepsASequence DEF CommitFails, CanCommit, Write
  <2>3. /\ DOMAIN seen' = Client
        /\ \A d \in Client \ {c} : seen'[d].solo = FALSE /\ HistoryIsWhole(d)'
    BY <1>0, <2>1, NotedHistories DEF HalfShut
  <2>4. PICK shut : /\ seen'[c] = History(seen[c].tried, seen[c].kept, seen[c].solo,
                                          seen[c].fresh, shut)
                    /\ shut = seen[c].shut \cup (IF part = << >> THEN {} ELSE {tx[c].seq})
    BY <1>0, <2>1, HalfShutHistory
  <2>5. /\ HistoryIsWhole(c)' /\ seen'[c].kept = seen[c].kept /\ seen'[c].shut = shut
        /\ seen'[c].solo = seen[c].solo /\ seen'[c].fresh = seen[c].fresh
    BY <2>4 DEF HistoryIsWhole, History
  <2>6. Whole'
    <3>1. DOMAIN tx' = Client /\ \A d \in Client : HandleIsWhole(d)'
      BY <2>2 DEF LockInv, Whole, HandleIsWhole
    <3> QED BY <2>3, <2>5, <3>1 DEF Whole
  <2>7. \A d \in Client \ {c} : ~ Alone(d)' BY <2>3 DEF Alone
  <2>8. Alone(c)' => Unmarked(lines') /\ (seen'[c].kept # {} => exists')
    <3> SUFFICES ASSUME Alone(c)' PROVE Unmarked(lines')
      BY <2>2
    <3>1. shut = {} BY <2>5 DEF Alone
    <3>2. part = << >> /\ seen[c].shut = {} BY <2>4, <3>1
    <3>3. lines' = lines
      <4>1. Appended(lines, << >>) = lines \o << >> BY DEF Appended
      <4>2. lines \o << >> = lines BY <1>0 DEF ASequence
      <4> QED BY <2>2, <3>2, <4>1, <4>2
    <3>4. Alone(c) BY <2>2, <2>5, <3>2 DEF Alone
    <3> QED BY <3>3, <3>4 DEF LockInv
  <2>9. \A d \in Client : Alone(d)' => Unmarked(lines)' /\ (seen'[d].kept # {} => exists')
    BY <2>7, <2>8 DEF Unmarked
  <2> QED BY <2>2, <2>6, <2>9 DEF LockInv
<1>3. CASE CommitCrashes(c)
  <2>1. /\ DOMAIN tx' = Client /\ \A d \in Client \ {c} : tx'[d] = tx[d]
        /\ HandleIsWhole(c)' /\ tx'[c].state = "Crashed"
    BY <1>0, <1>3, CrashedHandle DEF CommitCrashes
  <2>2. ASequence(lines') /\ exists' = TRUE
    BY <1>0, <1>3, CommittingKeepsASequence DEF CommitCrashes, Write
  <2>3. \A d \in Client : HandleIsWhole(d)' BY <2>1 DEF LockInv, Whole, HandleIsWhole
  <2> QED BY <1>3, <2>1, <2>2, <2>3, DisturbedStepKeepsLock DEF CommitCrashes
<1>4. CASE CommitNothing(c) \/ Rollback(c)
  <2>1. Disturb({}) /\ exists' = FALSE /\ lines' = << >>
    BY <1>4 DEF CommitNothing, Rollback, Remove
  <2>2. \/ tx' = [tx EXCEPT ![c] = NoHandle]
        \/ tx' = [tx EXCEPT ![c] = [@ EXCEPT !.state = "Committed"]]
        \/ tx' = [tx EXCEPT ![c] = Handle("RolledBack", @.seq, FALSE, << >>)]
    <3>1. CASE c \in Managed BY <3>1, <1>4 DEF CommitNothing, Rollback
    <3>2. CASE c \notin Managed BY <3>2, <1>4 DEF CommitNothing, Rollback
    <3> QED BY <3>1, <3>2
  <2>3. DOMAIN tx' = Client /\ \A d \in Client : HandleIsWhole(d)'
    BY <1>0, <2>2, EndedHandle DEF Whole, HandleIsWhole
  <2> QED BY <1>0, <2>1, <2>3, DisturbedStepKeepsLock
<1> QED BY <1>1, <1>2, <1>3, <1>4

\* The tx commands and wal-replay, processes without a handle.
LEMMA CommandKeepsLock ==
  ASSUME LockInv, TxBegin \/ TxCommit \/ TxCommitCrashes \/ TxRollback \/ WalReplay
  PROVE  LockInv'
<1>0. /\ Whole /\ ASequence(lines) /\ ASequence(<< >>) /\ ASequence(Header) /\ tx' = tx
  <2>1. Header \in Seq({Head0, Separator}) BY DEF Header
  <2> QED BY <2>1 DEF LockInv, ASequence, TxBegin, TxCommit, TxCommitCrashes, TxRollback, WalReplay
<1>1. PICK keep \in {{}, Crashed} : Disturb(keep)
  BY DEF TxBegin, TxCommit, TxCommitCrashes, TxRollback, WalReplay
<1>2. ASequence(lines') /\ (~ exists' => lines' = << >>)
  BY <1>0, CommittingKeepsASequence
     DEF TxBegin, TxCommit, TxCommitCrashes, TxRollback, WalReplay, Write, Remove
<1>3. \A d \in Client \cap keep : tx'[d].state \notin {"Started", "Staging"}
  BY <1>0, <1>1 DEF Crashed
<1>4. DOMAIN tx' = Client /\ \A d \in Client : HandleIsWhole(d)'
  BY <1>0 DEF Whole, HandleIsWhole
<1> QED BY <1>1, <1>2, <1>3, <1>4, DisturbedStepKeepsLock

(***************************************************************************)
(* The theorem.                                                            *)
(***************************************************************************)
LEMMA StepKeepsLock == LockInv /\ [Next]_vars => LockInv'
<1> SUFFICES ASSUME LockInv, [Next]_vars PROVE LockInv'
  OBVIOUS
<1>1. ASSUME NEW c \in Client, Begin(c) PROVE LockInv' BY <1>1, BeginKeepsLock
<1>2. ASSUME NEW c \in Client, NEW op \in Op,
             Stage(c, op) \/ StageFails(c, op) \/ StageCrashes(c, op)
      PROVE  LockInv'
  BY <1>2, StageKeepsLock
<1>3. ASSUME NEW c \in Client,
             Commit(c) \/ CommitFails(c) \/ CommitCrashes(c) \/ CommitNothing(c) \/ Rollback(c)
      PROVE  LockInv'
  BY <1>3, EndKeepsLock
<1>4. ASSUME NEW c \in Client, Apply(c) PROVE LockInv'
  BY <1>4 DEF Apply, LockInv, Whole, HandleIsWhole, HistoryIsWhole, Alone, Unmarked, ASequence
<1>5. ASSUME NEW c \in Client, Crash(c) PROVE LockInv'
  <2>1. tx' = [tx EXCEPT ![c].state = "Crashed"] /\ UNCHANGED << exists, lines, seen >>
    BY <1>5 DEF Crash
  <2> QED BY <2>1, CrashedHandle, HandleStepKeepsLock DEF LockInv
<1>6. CASE TxBegin \/ TxCommit \/ TxCommitCrashes \/ TxRollback \/ WalReplay
  BY <1>6, CommandKeepsLock
<1>7. CASE UNCHANGED vars
  BY <1>7 DEF vars, LockInv, Whole, HandleIsWhole, HistoryIsWhole, Alone, Unmarked, ASequence
<1> QED BY <1>1, <1>2, <1>3, <1>4, <1>5, <1>6, <1>7 DEF Next

LEMMA InitLock == Init => LockInv
<1> SUFFICES ASSUME Init PROVE LockInv
  OBVIOUS
<1>1. Whole
  BY DEF Init, Whole, HandleIsWhole, HistoryIsWhole, NoHandle, Handle, History
<1>2. ASequence(lines) BY DEF Init, ASequence
<1>3. \A c \in Client : ~ Alone(c) BY DEF Init, Alone, NoHandle, Handle
<1> QED BY <1>1, <1>2, <1>3 DEF Init, LockInv

\* While a transaction that found no log and that nobody came between is staging,
\* and none of its commits has failed half way, neither a handle nor a session begins, whatever crashes and whatever is cut
\* short: its log is there and bears no commit line (Transaction::begin,
\* Wal::begin_session).
THEOREM StagingIsALock == Spec => StagingLocksOthersOut
<1>1. ASSUME LockInv, [Next]_vars, NEW c \in Client, Undisturbed(c), tx[c].state = "Staging",
             seen[c].shut = {}
      PROVE  begins' = begins
  <2>1. exists /\ ~ Committed(lines)
    BY <1>1 DEF LockInv, Alone, Undisturbed, Unmarked, Committed
  <2>2. ~ TxBegin /\ \A d \in Client : ~ Begin(d) BY <2>1 DEF TxBegin, Begin
  <2>3. CASE UNCHANGED vars BY <2>3 DEF vars
  <2>4. CASE Next
    BY <2>2, <2>4 DEF Next, Stage, StageFails, StageCrashes, Commit, CommitFails, CommitCrashes,
         CommitNothing, Rollback, Apply, Crash, TxCommit, TxCommitCrashes, TxRollback, WalReplay
  <2> QED BY <1>1, <2>3, <2>4
<1>2. LockInv /\ [Next]_vars =>
        [(\E c \in Client : Undisturbed(c) /\ tx[c].state = "Staging" /\ seen[c].shut = {})
           => begins' = begins]_vars
  BY <1>1
<1> QED BY <1>2, InitLock, StepKeepsLock, PTL DEF Spec, StagingLocksOthersOut

(***************************************************************************)
(* Type correctness.                                                       *)
(***************************************************************************)
LEMMA LinesOf ==
  ASSUME NEW s, ASequence(s), NEW V, \A i \in 1 .. Len(s) : s[i] \in V
  PROVE  s \in Seq(V)
<1>1. PICK S : s \in Seq(S) BY DEF ASequence
<1>2. s \in [1 .. Len(s) -> V] /\ Len(s) \in Nat BY <1>1
<1> QED BY <1>2, SeqDef

\* One of finitely many numbers is the largest.
LEMMA OneIsLargest ==
  ASSUME NEW n \in Nat \ {0}, NEW f, \A i \in 1 .. n : f[i] \in Nat
  PROVE  \E i \in 1 .. n : \A j \in 1 .. n : f[j] <= f[i]
<1> DEFINE HasLargest(k) == \E i \in 1 .. k : \A j \in 1 .. k : f[j] <= f[i]
           Bad           == {k \in Nat : k \in 1 .. n /\ ~ HasLargest(k)}
<1> SUFFICES ASSUME Bad # {} PROVE FALSE
  <2>1. n \in 1 .. n OBVIOUS
  <2>2. Bad = {} => HasLargest(n) BY <2>1
  <2> QED BY <2>2
<1>1. PICK k \in Bad : \A l \in Bad : ~ (<< l, k >> \in OpToRel(<, Nat))
  <2>1. Bad \subseteq Nat OBVIOUS
  <2> HIDE DEF Bad
  <2> QED BY <2>1, NatLessThanWellFounded, WFMin
<1>2. \A l \in Bad : ~ (l < k) BY <1>1 DEF OpToRel
<1>3. k \in 1 .. n /\ ~ HasLargest(k) OBVIOUS
<1>4. k # 1
  <2>1. f[1] \in Nat BY <1>3
  <2>2. HasLargest(1) BY <2>1
  <2> QED BY <1>3, <2>2
<1>5. k - 1 \in 1 .. n /\ k - 1 < k /\ k - 1 \in Nat BY <1>3, <1>4
<1>6. HasLargest(k - 1) BY <1>2, <1>5
<1>7. PICK i \in 1 .. k - 1 : \A j \in 1 .. k - 1 : f[j] <= f[i] BY <1>6
<1>8. f[i] \in Nat /\ f[k] \in Nat /\ i \in 1 .. k /\ k \in 1 .. k
  BY <1>3, <1>5, <1>7
<1>9. \A j \in 1 .. k : j \in 1 .. k - 1 \/ j = k BY <1>3
<1>10. \A j \in 1 .. k : f[j] \in Nat BY <1>3
<1>11. CASE f[k] <= f[i] BY <1>3, <1>7, <1>8, <1>9, <1>11
<1>12. CASE ~ (f[k] <= f[i])
  <2>1. f[i] < f[k] BY <1>8, <1>12
  <2>2. ASSUME NEW j \in 1 .. k PROVE f[j] <= f[k]
    <3>1. CASE j = k BY <1>8, <3>1
    <3>2. CASE j \in 1 .. k - 1
      <4>1. f[j] \in Nat /\ f[j] <= f[i] BY <1>7, <1>10, <3>2
      <4> QED BY <1>8, <2>1, <4>1
    <3> QED BY <1>9, <3>1, <3>2
  <2> QED BY <1>3, <1>8, <2>2
<1> QED BY <1>11, <1>12

\* scan_existing finds a next number for every log.
LEMMA NextSeqIsNatural ==
  ASSUME NEW file \in Seq(LogLine)
  PROVE  NextSeq(file) \in Nat
<1> DEFINE at   == Scanned(file)
           some == {1} \cup {file[i].seq + 1 : i \in at}
<1>1. Len(file) \in Nat /\ at \subseteq 1 .. Len(file) BY DEF Scanned
<1>2. \A i \in at : file[i].seq \in Nat
  <2>1. \A i \in 1 .. Len(file) : file[i] \in LogLine OBVIOUS
  <2>2. \A i \in at : file[i] \in LogLine /\ file[i].kind = "entry"
    BY <2>1 DEF Scanned, ScannedAt
  <2>3. \A l \in LogLine : l.kind = "entry" => l.seq \in Nat BY DEF LogLine
  <2> QED BY <2>2, <2>3
<1> HIDE DEF at
<1>3. \E n \in some : \A i \in at : file[i].seq < n
  <2>1. CASE at = {} BY <2>1
  <2>2. CASE at # {}
    <3> DEFINE m == Len(file)
               f == [i \in 1 .. m |-> IF i \in at THEN file[i].seq ELSE 0]
    <3>1. m \in Nat \ {0}
      <4>1. PICK i \in at : i \in 1 .. m BY <1>1, <2>2
      <4>2. m \in Nat BY <1>1
      <4> QED BY <4>1, <4>2
    <3>2. \A i \in 1 .. m : f[i] = IF i \in at THEN file[i].seq ELSE 0 OBVIOUS
    <3>3. \A i \in 1 .. m : f[i] \in Nat BY <1>2
    <3> HIDE DEF f, m
    <3>4. PICK i \in 1 .. m : \A j \in 1 .. m : f[j] <= f[i] BY <3>1, <3>3, OneIsLargest
    <3>5. \A j \in at : file[j].seq \in Nat /\ file[j].seq <= f[i]
      BY <1>1, <1>2, <3>2, <3>4 DEF m
    <3>6. CASE i \in at
      <4>1. f[i] = file[i].seq BY <3>2, <3>6
      <4>2. \A j \in at : file[j].seq < file[i].seq + 1 BY <1>2, <3>5, <3>6, <4>1
      <4> QED BY <3>6, <4>2
    <3>7. CASE i \notin at
      <4>1. f[i] = 0 BY <3>2, <3>7
      <4>2. \A j \in at : file[j].seq < 1 BY <3>5, <4>1
      <4> QED BY <4>2
    <3> QED BY <3>6, <3>7
  <2> QED BY <2>1, <2>2
<1>4. NextSeq(file) \in some BY <1>3 DEF NextSeq, at
<1> QED BY <1>2, <1>4

\* What can land in a log is made of lines.
LEMMA LinesAreTyped ==
  /\ Head0 \in LogLine /\ Separator \in LogLine /\ CommitMarker \in LogLine
  /\ \A n \in Nat, o \in Op : Entry(n, o) \in LogLine
  /\ \A l \in LogLine : Torn(l) \subseteq LogLine
  /\ \A l, k \in LogLine : Glued(l, k) \in LogLine
<1>1. /\ Head0 \in LogLine /\ Separator \in LogLine /\ CommitMarker \in LogLine
      /\ \A n \in Nat, o \in Op : Entry(n, o) \in LogLine
  BY DEF LogLine, Head0, Separator, CommitMarker, Entry
<1>2. ASSUME NEW l \in LogLine PROVE Torn(l) \subseteq LogLine
  <2>1. [l EXCEPT !.ended = FALSE] \in LogLine BY DEF LogLine
  <2>2. [kind |-> IF l.kind = "head" THEN "head" ELSE "junk", ended |-> FALSE] \in LogLine
    BY DEF LogLine
  <2> QED BY <2>1, <2>2 DEF Torn
<1>3. ASSUME NEW l \in LogLine, NEW k \in LogLine PROVE Glued(l, k) \in LogLine
  <2>1. k.ended \in BOOLEAN BY DEF LogLine
  <2> DEFINE e == k.ended
             d == IF l.kind \in {"head", "commit"} THEN l.kind ELSE "junk"
  <2>2. d \in {"head", "commit", "junk"} OBVIOUS
  <2>3. Glued(l, k) = [kind |-> d, ended |-> e] BY DEF Glued
  <2>4. e \in BOOLEAN BY <2>1
  <2> HIDE DEF d, e
  <2> QED BY <2>2, <2>3, <2>4 DEF LogLine
<1> QED BY <1>1, <1>2, <1>3

LEMMA AppendingIsTyped ==
  ASSUME NEW file \in Seq(LogLine), NEW new \in Seq(LogLine)
  PROVE  Appended(file, new) \in Seq(LogLine)
<1> DEFINE all == Appended(file, new)
<1>1. /\ ASequence(all) /\ Len(file) \in Nat /\ Len(new) \in Nat
      /\ \A i \in 1 .. Len(file) :
           \/ all[i] = file[i]
           \/ i = Len(file) /\ new # << >> /\ all[i] = Glued(file[i], new[1])
      /\ \A i \in Len(file) + 1 .. Len(all) : \E j \in 1 .. Len(new) : all[i] = new[j]
  BY AppendedLines
<1>2. Len(all) \in Nat BY <1>1 DEF ASequence
<1>3. (\A i \in 1 .. Len(file) : file[i] \in LogLine) /\ (\A i \in 1 .. Len(new) : new[i] \in LogLine)
  OBVIOUS
<1>4. new # << >> => new[1] \in LogLine OBVIOUS
<1> HIDE DEF all
<1>5. ASSUME NEW i \in 1 .. Len(all) PROVE all[i] \in LogLine
  <2>1. CASE i \in 1 .. Len(file) BY <1>1, <1>3, <1>4, <2>1, LinesAreTyped
  <2>2. CASE i \in Len(file) + 1 .. Len(all) BY <1>1, <1>3, <2>2, SMTT(30)
  <2> QED BY <1>1, <1>2, <2>1, <2>2
<1> QED BY <1>1, <1>5, LinesOf DEF all

\* All of the text of a write, and any part of it.
LEMMA PartsAreTyped ==
  ASSUME NEW new \in Seq(LogLine)
  PROVE  new \in Partly(new) /\ Partly(new) \subseteq Seq(LogLine)
<1> DEFINE parts == LogLine \cup UNION {Torn(t) : t \in LogLine}
<1>1. parts = LogLine BY LinesAreTyped
<1> HIDE DEF parts
<1>2. Partly(new) \subseteq Seq(LogLine) BY <1>1, PartsAreSequences DEF parts
<1>3. new = SubSeq(new, 1, Len(new)) /\ Len(new) \in 0 .. Len(new) OBVIOUS
<1> QED BY <1>2, <1>3 DEF Partly

LEMMA WritesAreTyped ==
  /\ Header \in Seq(LogLine) /\ CommitLines \in Seq(LogLine)
  /\ \A c, op : tx[c].seq \in Nat /\ op \in Op => Logging(c, op) \in Seq(LogLine)
<1>1. Header \in Seq(LogLine) /\ CommitLines \in Seq(LogLine)
  BY LinesAreTyped DEF Header, CommitLines
<1>2. ASSUME NEW c, NEW op \in Op, tx[c].seq \in Nat PROVE Logging(c, op) \in Seq(LogLine)
  <2> DEFINE e == Entry(tx[c].seq, op)
  <2>1. e \in LogLine BY <1>2, LinesAreTyped
  <2> HIDE DEF e
  <2>2. << e >> \in Seq(LogLine) /\ << >> \in Seq(LogLine) BY <2>1
  <2>3. CASE tx[c].held
    <3>1. Logging(c, op) = << >> \o << e >> BY <2>3 DEF Logging, e
    <3> QED BY <2>2, <3>1
  <2>4. CASE ~ tx[c].held
    <3>1. Logging(c, op) = Header \o << e >> BY <2>4 DEF Logging, e
    <3> HIDE DEF e
    <3> QED BY <1>1, <2>2, <3>1
  <2> QED BY <2>3, <2>4
<1> QED BY <1>1, <1>2

Handles   == [state : State, seq : Nat, held : BOOLEAN, staged : Seq(Op)]
Histories == [tried : SUBSET (Nat \X Op), kept : SUBSET (Nat \X Op),
              solo : BOOLEAN, fresh : BOOLEAN, shut : SUBSET Nat]

LogTyped == exists \in BOOLEAN /\ lines \in Seq(LogLine) /\ (~ exists => lines = << >>)

HandlesTyped ==
  tx \in [Client -> Handles] /\ \A c \in Client : tx[c].staged # << >> => tx[c].held

RestTyped ==
  /\ returned \in [Client -> Seq(Op)] /\ applied \subseteq Op
  /\ begins \in 0 .. MaxBegins /\ cuts \in 0 .. MaxCuts

LEMMA TypeOKIs == TypeOK <=> LogTyped /\ HandlesTyped /\ RestTyped /\ seen \in [Client -> Histories]
BY DEF TypeOK, LogTyped, HandlesTyped, RestTyped, Handles, Histories

LEMMA TypedAgain ==
  ASSUME LogTyped', HandlesTyped', RestTyped', seen' \in [Client -> Histories]
  PROVE  TypeOK'
BY DEF TypeOK, LogTyped, HandlesTyped, RestTyped, Handles, Histories

\* The handle of one client is replaced.
LEMMA HandleChanges ==
  ASSUME HandlesTyped, NEW c \in Client, NEW h \in Handles, tx' = [tx EXCEPT ![c] = h],
         h.staged # << >> => h.held
  PROVE  HandlesTyped'
BY DEF HandlesTyped

\* What the steps make of a handle.
LEMMA HandleIsTyped ==
  ASSUME NEW h \in Handles, h.staged # << >> => h.held
  PROVE  /\ h.seq \in Nat /\ h.staged \in Seq(Op)
         /\ NoHandle \in Handles /\ NoHandle.staged = << >>
         /\ Handle("RolledBack", h.seq, FALSE, << >>) \in Handles
         /\ Handle("RolledBack", h.seq, FALSE, << >>).staged = << >>
         /\ \A st \in State : /\ [h EXCEPT !.state = st] \in Handles
                              /\ [h EXCEPT !.state = st].staged # << >> => [h EXCEPT !.state = st].held
         /\ [h EXCEPT !.seq = h.seq + 1] \in Handles
         /\ [h EXCEPT !.seq = h.seq + 1].staged # << >> => [h EXCEPT !.seq = h.seq + 1].held
         /\ \A op \in Op :
              /\ Handle("Staging", h.seq + 1, TRUE, Append(h.staged, op)) \in Handles
              /\ Handle("Staging", h.seq + 1, TRUE, Append(h.staged, op)).held
<1>1. h.seq \in Nat /\ h.staged \in Seq(Op) /\ h.held \in BOOLEAN BY DEF Handles
<1>2. "None" \in State /\ "RolledBack" \in State /\ "Staging" \in State BY DEF State, Live
<1>3. << >> \in Seq(Op) OBVIOUS
<1>4. NoHandle \in Handles /\ NoHandle.staged = << >>
  BY <1>2, <1>3 DEF NoHandle, Handle, Handles
<1>5. /\ Handle("RolledBack", h.seq, FALSE, << >>) \in Handles
      /\ Handle("RolledBack", h.seq, FALSE, << >>).staged = << >>
  BY <1>1, <1>2, <1>3 DEF Handle, Handles
<1>6. ASSUME NEW st \in State
      PROVE  /\ [h EXCEPT !.state = st] \in Handles
             /\ [h EXCEPT !.state = st].staged # << >> => [h EXCEPT !.state = st].held
  BY DEF Handles
<1>7. /\ [h EXCEPT !.seq = h.seq + 1] \in Handles
      /\ [h EXCEPT !.seq = h.seq + 1].staged # << >> => [h EXCEPT !.seq = h.seq + 1].held
  <2> DEFINE n == h.seq + 1
  <2>1. n \in Nat BY <1>1
  <2> HIDE DEF n
  <2>2. /\ [h EXCEPT !.seq = n] \in Handles
        /\ [h EXCEPT !.seq = n].staged # << >> => [h EXCEPT !.seq = n].held
    BY <2>1 DEF Handles
  <2> QED BY <2>2 DEF n
<1>8. ASSUME NEW op \in Op
      PROVE  /\ Handle("Staging", h.seq + 1, TRUE, Append(h.staged, op)) \in Handles
             /\ Handle("Staging", h.seq + 1, TRUE, Append(h.staged, op)).held
  <2> DEFINE n == h.seq + 1  s == Append(h.staged, op)
  <2>1. n \in Nat /\ s \in Seq(Op) BY <1>1
  <2> HIDE DEF n, s
  <2>2. /\ Handle("Staging", n, TRUE, s) \in Handles /\ Handle("Staging", n, TRUE, s).held
    BY <1>2, <2>1 DEF Handle, Handles
  <2> QED BY <2>2 DEF n, s
<1> QED BY <1>1, <1>4, <1>5, <1>6, <1>7, <1>8

\* What the steps make of the histories.
LEMMA HistoriesStayTyped ==
  ASSUME seen \in [Client -> Histories]
  PROVE  /\ \A keep : Disturb(keep) => seen' \in [Client -> Histories]
         /\ \A c \in Client : \A history \in Histories :
              Noted(c, history) => seen' \in [Client -> Histories]
         /\ \A c \in Client, op \in Op :
              tx[c].seq \in Nat =>
                /\ Tried(c, op, {}) => seen' \in [Client -> Histories]
                /\ Tried(c, op, {<< tx[c].seq, op >>}) => seen' \in [Client -> Histories]
         /\ \A c \in Client : \A part :
              tx[c].seq \in Nat /\ HalfShut(c, part) => seen' \in [Client -> Histories]
<1>1. ASSUME NEW keep, Disturb(keep) PROVE seen' \in [Client -> Histories]
  <2>1. ASSUME NEW d \in Client PROVE [seen[d] EXCEPT !.solo = seen[d].solo /\ d \in keep] \in Histories
    <3> DEFINE s == seen[d].solo /\ d \in keep
    <3>1. s \in BOOLEAN OBVIOUS
    <3>2. seen[d] \in Histories OBVIOUS
    <3> HIDE DEF s
    <3>3. [seen[d] EXCEPT !.solo = s] \in Histories BY <3>1, <3>2 DEF Histories
    <3> QED BY <3>3 DEF s
  <2> QED BY <1>1, <2>1 DEF Disturb
<1>2. ASSUME NEW c \in Client, NEW history \in Histories, Noted(c, history)
      PROVE  seen' \in [Client -> Histories]
  <2>1. \A d \in Client : [seen[d] EXCEPT !.solo = FALSE] \in Histories BY DEF Histories
  <2> QED BY <1>2, <2>1 DEF Noted
<1>3. ASSUME NEW c \in Client, NEW op \in Op, tx[c].seq \in Nat,
             NEW kept \in SUBSET {<< tx[c].seq, op >>}, Tried(c, op, kept)
      PROVE  seen' \in [Client -> Histories]
  <2> DEFINE tried == seen[c].tried \cup {<< tx[c].seq, op >>}
             k     == seen[c].kept \cup kept
  <2>1. seen[c] \in Histories OBVIOUS
  <2>2. seen[c].tried \subseteq Nat \X Op /\ seen[c].kept \subseteq Nat \X Op
    BY <2>1 DEF Histories
  <2>3. << tx[c].seq, op >> \in Nat \X Op BY <1>3
  <2>4. tried \subseteq Nat \X Op /\ k \subseteq Nat \X Op BY <2>2, <2>3
  <2>5. Noted(c, [seen[c] EXCEPT !.tried = tried, !.kept = k]) BY <1>3 DEF Tried
  <2> HIDE DEF tried, k
  <2>6. [seen[c] EXCEPT !.tried = tried, !.kept = k] \in Histories BY <2>1, <2>4 DEF Histories
  <2> QED BY <1>2, <2>5, <2>6
<1>4. ASSUME NEW c \in Client, NEW part, tx[c].seq \in Nat, HalfShut(c, part)
      PROVE  seen' \in [Client -> Histories]
  <2> DEFINE shut == seen[c].shut \cup {tx[c].seq}
  <2>1. seen[c] \in Histories OBVIOUS
  <2>2. shut \subseteq Nat BY <1>4, <2>1 DEF Histories
  <2>3. CASE part = << >> BY <1>2, <1>4, <2>1, <2>3 DEF HalfShut
  <2>4. CASE part # << >>
    <3>1. Noted(c, [seen[c] EXCEPT !.shut = shut]) BY <1>4, <2>4 DEF HalfShut
    <3> HIDE DEF shut
    <3>2. [seen[c] EXCEPT !.shut = shut] \in Histories BY <2>1, <2>2 DEF Histories
    <3> QED BY <1>2, <3>1, <3>2
  <2> QED BY <2>3, <2>4
<1> QED BY <1>1, <1>2, <1>3, <1>4

\* A write of the text new, or of a part of it, to the log or over it.
LEMMA WritingKeepsLogTyped ==
  ASSUME LogTyped, NEW new \in Seq(LogLine), NEW part \in Partly(new)
  PROVE  /\ Write(Appended(lines, part)) => LogTyped'
         /\ Write(Appended(<< >>, part)) => LogTyped'
         /\ Remove => LogTyped'
<1>1. part \in Seq(LogLine) BY PartsAreTyped
<1>2. << >> \in Seq(LogLine) OBVIOUS
<1>3. Appended(lines, part) \in Seq(LogLine) /\ Appended(<< >>, part) \in Seq(LogLine)
  BY <1>1, <1>2, AppendingIsTyped DEF LogTyped
<1> QED BY <1>2, <1>3 DEF Write, Remove, LogTyped

LEMMA BeginIsTyped ==
  ASSUME TypeOK, NEW c \in Client, Begin(c)
  PROVE  TypeOK'
<1>0. LogTyped /\ HandlesTyped /\ RestTyped /\ seen \in [Client -> Histories] BY TypeOKIs
<1> DEFINE n == NextSeq(lines)
           b == (Scanned(lines) # {})
           h == Handle("Started", n, b, << >>)
           f == ~ exists
           s == History({}, {}, TRUE, f, {})
<1>1. h \in Handles /\ h.staged = << >>
  <2>1. n \in Nat BY <1>0, NextSeqIsNatural DEF LogTyped
  <2>2. b \in BOOLEAN /\ "Started" \in State /\ << >> \in Seq(Op) BY DEF State, Live
  <2> HIDE DEF n, b
  <2> QED BY <2>1, <2>2 DEF Handle, Handles
<1>2. s \in Histories
  <2>1. f \in BOOLEAN OBVIOUS
  <2> HIDE DEF f
  <2> QED BY <2>1 DEF History, Histories
<1>3. /\ tx' = [tx EXCEPT ![c] = h] /\ seen' = [seen EXCEPT ![c] = s]
      /\ begins < MaxBegins /\ begins' = begins + 1
      /\ UNCHANGED << exists, lines, returned, applied, cuts >>
  BY DEF Begin
<1> HIDE DEF h, s
<1>4. HandlesTyped' BY <1>0, <1>1, <1>3, HandleChanges
<1>5. seen' \in [Client -> Histories] BY <1>0, <1>2, <1>3
<1>6. begins' \in 0 .. MaxBegins BY <1>0, <1>3, TransactionAssumption DEF RestTyped
<1>7. LogTyped' BY <1>0, <1>3 DEF LogTyped
<1>8. RestTyped' BY <1>0, <1>3, <1>6 DEF RestTyped
<1> QED BY <1>4, <1>5, <1>7, <1>8, TypedAgain

LEMMA StageIsTyped ==
  ASSUME TypeOK, NEW c \in Client, NEW op \in Op,
         Stage(c, op) \/ StageFails(c, op) \/ StageCrashes(c, op)
  PROVE  TypeOK'
<1>0. /\ LogTyped /\ HandlesTyped /\ RestTyped /\ seen \in [Client -> Histories]
      /\ tx[c] \in Handles /\ (tx[c].staged # << >> => tx[c].held) /\ tx[c].seq \in Nat
      /\ tx[c].held \in BOOLEAN
  <2>1. LogTyped /\ HandlesTyped /\ RestTyped /\ seen \in [Client -> Histories] BY TypeOKIs
  <2> QED BY <2>1 DEF HandlesTyped, Handles
<1>1. Logging(c, op) \in Seq(LogLine) BY <1>0, WritesAreTyped
<1>2. ASSUME NEW part \in Partly(Logging(c, op)), Write(Appended(Base(c), part)) PROVE LogTyped'
  <2>1. Base(c) = lines \/ Base(c) = << >> BY DEF Base
  <2> QED BY <1>0, <1>1, <1>2, <2>1, WritingKeepsLogTyped
<1>3. CASE Stage(c, op)
  <2>1. LogTyped' BY <1>1, <1>2, <1>3, PartsAreTyped DEF Stage
  <2> DEFINE h == Handle("Staging", tx[c].seq + 1, TRUE, Append(tx[c].staged, op))
  <2>2. h \in Handles /\ h.held BY <1>0, HandleIsTyped
  <2>3. tx' = [tx EXCEPT ![c] = h] BY <1>3 DEF Stage
  <2> HIDE DEF h
  <2>4. HandlesTyped' BY <1>0, <2>2, <2>3, HandleChanges
  <2>5. seen' \in [Client -> Histories]
    <3>1. Tried(c, op, {<< tx[c].seq, op >>}) BY <1>3 DEF Stage
    <3> QED BY <1>0, <3>1, HistoriesStayTyped
  <2>6. RestTyped' BY <1>0, <1>3 DEF Stage, RestTyped
  <2> QED BY <2>1, <2>4, <2>5, <2>6, TypedAgain
<1>4. CASE StageFails(c, op)
  <2>1. PICK part \in Partly(Logging(c, op)) :
          /\ StageCut(c, op, part)
          /\ tx' = [tx EXCEPT ![c].seq = @ + 1]
          /\ Tried(c, op, {})
          /\ UNCHANGED << returned, applied, begins >>
    BY <1>4 DEF StageFails
  <2>2. LogTyped' BY <1>0, <1>2, <2>1 DEF StageCut, LogTyped
  <2> DEFINE h == [tx[c] EXCEPT !.seq = tx[c].seq + 1]
  <2>3. h \in Handles /\ (h.staged # << >> => h.held) BY <1>0, HandleIsTyped
  <2>4. tx' = [tx EXCEPT ![c] = h] BY <2>1
  <2> HIDE DEF h
  <2>5. HandlesTyped' BY <1>0, <2>3, <2>4, HandleChanges
  <2>6. seen' \in [Client -> Histories] BY <1>0, <2>1, HistoriesStayTyped
  <2>7. cuts' \in 0 .. MaxCuts
    BY <1>0, <2>1, TransactionAssumption DEF StageCut, Cut, RestTyped
  <2>8. RestTyped' BY <1>0, <2>1, <2>7 DEF RestTyped
  <2> QED BY <2>2, <2>5, <2>6, <2>8, TypedAgain
<1>5. CASE StageCrashes(c, op)
  <2>1. PICK part \in Partly(Logging(c, op)) :
          /\ StageCut(c, op, part)
          /\ tx' = [tx EXCEPT ![c].state = "Crashed"]
          /\ returned' = [returned EXCEPT ![c] = << >>]
          /\ Tried(c, op, {})
          /\ UNCHANGED << applied, begins >>
    BY <1>5 DEF StageCrashes
  <2>2. LogTyped' BY <1>0, <1>2, <2>1 DEF StageCut, LogTyped
  <2> DEFINE h == [tx[c] EXCEPT !.state = "Crashed"]
  <2>3. h \in Handles /\ (h.staged # << >> => h.held) BY <1>0, HandleIsTyped DEF State
  <2>4. tx' = [tx EXCEPT ![c] = h] BY <2>1
  <2> HIDE DEF h
  <2>5. HandlesTyped' BY <1>0, <2>3, <2>4, HandleChanges
  <2>6. seen' \in [Client -> Histories] BY <1>0, <2>1, HistoriesStayTyped
  <2>7. cuts' \in 0 .. MaxCuts
    BY <1>0, <2>1, TransactionAssumption DEF StageCut, Cut, RestTyped
  <2>8. << >> \in Seq(Op) OBVIOUS
  <2>9. RestTyped' BY <1>0, <2>1, <2>7, <2>8 DEF RestTyped
  <2> QED BY <2>2, <2>5, <2>6, <2>9, TypedAgain
<1> QED BY <1>3, <1>4, <1>5

LEMMA EndIsTyped ==
  ASSUME TypeOK, NEW c \in Client,
         Commit(c) \/ CommitFails(c) \/ CommitCrashes(c) \/ CommitNothing(c) \/ Rollback(c)
  PROVE  TypeOK'
<1>0. /\ LogTyped /\ HandlesTyped /\ RestTyped /\ seen \in [Client -> Histories]
      /\ tx[c] \in Handles /\ (tx[c].staged # << >> => tx[c].held)
      /\ CommitLines \in Seq(LogLine) /\ CommitLines \in Partly(CommitLines) /\ << >> \in Seq(Op)
  <2>1. LogTyped /\ HandlesTyped /\ RestTyped /\ seen \in [Client -> Histories] BY TypeOKIs
  <2> QED BY <2>1, WritesAreTyped, PartsAreTyped DEF HandlesTyped
<1>1. seen' \in [Client -> Histories]
  <2>1. (\E keep : Disturb(keep)) \/ \E part : HalfShut(c, part)
    BY DEF Commit, CommitFails, CommitCrashes, CommitNothing, Rollback
  <2>2. tx[c].seq \in Nat BY <1>0 DEF Handles
  <2> QED BY <1>0, <2>1, <2>2, HistoriesStayTyped
<1>2. ASSUME NEW h \in Handles, h.staged # << >> => h.held, tx' = [tx EXCEPT ![c] = h]
      PROVE  HandlesTyped'
  BY <1>0, <1>2, HandleChanges
<1>3. ASSUME \/ tx' = [tx EXCEPT ![c] = NoHandle]
             \/ tx' = [tx EXCEPT ![c] = [tx[c] EXCEPT !.state = "Committed"]]
             \/ tx' = [tx EXCEPT ![c] = [tx[c] EXCEPT !.state = "Crashed"]]
             \/ tx' = [tx EXCEPT ![c] = Handle("RolledBack", tx[c].seq, FALSE, << >>)]
      PROVE  HandlesTyped'
  <2> DEFINE committed == [tx[c] EXCEPT !.state = "Committed"]
             crashed   == [tx[c] EXCEPT !.state = "Crashed"]
             undone    == Handle("RolledBack", tx[c].seq, FALSE, << >>)
  <2>1. /\ committed \in Handles /\ (committed.staged # << >> => committed.held)
        /\ crashed \in Handles /\ (crashed.staged # << >> => crashed.held)
        /\ undone \in Handles /\ undone.staged = << >>
        /\ NoHandle \in Handles /\ NoHandle.staged = << >>
    BY <1>0, HandleIsTyped DEF State, Live
  <2>2. \/ tx' = [tx EXCEPT ![c] = NoHandle] \/ tx' = [tx EXCEPT ![c] = committed]
        \/ tx' = [tx EXCEPT ![c] = crashed] \/ tx' = [tx EXCEPT ![c] = undone]
    BY <1>3
  <2> HIDE DEF committed, crashed, undone
  <2> QED BY <1>2, <2>1, <2>2
<1>4. CASE Commit(c)
  <2>1. LogTyped' BY <1>0, <1>4, WritingKeepsLogTyped DEF Commit
  <2>2. HandlesTyped'
    <3>1. CASE c \in Managed BY <1>3, <1>4, <3>1 DEF Commit
    <3>2. CASE c \notin Managed BY <1>3, <1>4, <3>2 DEF Commit
    <3> QED BY <3>1, <3>2
  <2>3. RestTyped'
    <3> DEFINE r == returned[c] \o tx[c].staged
    <3>1. returned[c] \in Seq(Op) /\ tx[c].staged \in Seq(Op) BY <1>0 DEF RestTyped, Handles
    <3>2. r \in Seq(Op) BY <3>1
    <3>3. returned' = [returned EXCEPT ![c] = r] /\ UNCHANGED << applied, begins, cuts >>
      BY <1>4 DEF Commit
    <3> HIDE DEF r
    <3> QED BY <1>0, <3>2, <3>3 DEF RestTyped
  <2> QED BY <1>1, <2>1, <2>2, <2>3, TypedAgain
<1>5. CASE CommitFails(c)
  <2>1. LogTyped' BY <1>0, <1>5, WritingKeepsLogTyped DEF CommitFails
  <2>2. HandlesTyped' BY <1>0, <1>5 DEF CommitFails, HandlesTyped
  <2>3. cuts' \in 0 .. MaxCuts
    BY <1>0, <1>5, TransactionAssumption DEF CommitFails, Cut, RestTyped
  <2>4. RestTyped' BY <1>0, <1>5, <2>3 DEF CommitFails, RestTyped
  <2> QED BY <1>1, <2>1, <2>2, <2>4, TypedAgain
<1>6. CASE CommitCrashes(c)
  <2>1. LogTyped' BY <1>0, <1>6, WritingKeepsLogTyped DEF CommitCrashes
  <2>2. HandlesTyped' BY <1>3, <1>6 DEF CommitCrashes
  <2>3. cuts' \in 0 .. MaxCuts
    BY <1>0, <1>6, TransactionAssumption DEF CommitCrashes, Cut, RestTyped
  <2>4. RestTyped' BY <1>0, <1>6, <2>3 DEF CommitCrashes, RestTyped
  <2> QED BY <1>1, <2>1, <2>2, <2>4, TypedAgain
<1>7. CASE CommitNothing(c) \/ Rollback(c)
  <2>1. LogTyped' BY <1>0, <1>7, WritingKeepsLogTyped DEF CommitNothing, Rollback
  <2>2. HandlesTyped'
    <3>1. CASE c \in Managed BY <1>3, <1>7, <3>1 DEF CommitNothing, Rollback
    <3>2. CASE c \notin Managed BY <1>3, <1>7, <3>2 DEF CommitNothing, Rollback
    <3> QED BY <3>1, <3>2
  <2>3. RestTyped' BY <1>0, <1>7 DEF CommitNothing, Rollback, RestTyped
  <2> QED BY <1>1, <2>1, <2>2, <2>3, TypedAgain
<1> QED BY <1>4, <1>5, <1>6, <1>7

LEMMA CommandIsTyped ==
  ASSUME TypeOK, TxBegin \/ TxCommit \/ TxCommitCrashes \/ TxRollback \/ WalReplay
  PROVE  TypeOK'
<1>0. LogTyped /\ HandlesTyped /\ RestTyped /\ seen \in [Client -> Histories] BY TypeOKIs
<1>1. seen' \in [Client -> Histories]
  <2>1. \E keep : Disturb(keep)
    BY DEF TxBegin, TxCommit, TxCommitCrashes, TxRollback, WalReplay
  <2> QED BY <1>0, <2>1, HistoriesStayTyped
<1>2. LogTyped'
  <2>1. CommitLines \in Partly(CommitLines) /\ CommitLines \in Seq(LogLine) /\ Header \in Seq(LogLine)
    BY WritesAreTyped, PartsAreTyped
  <2>2. CASE TxBegin BY <2>1, <2>2 DEF TxBegin, Write, LogTyped
  <2>3. CASE TxCommit BY <1>0, <2>1, <2>3, WritingKeepsLogTyped DEF TxCommit
  <2>4. CASE TxCommitCrashes BY <1>0, <2>1, <2>4, WritingKeepsLogTyped DEF TxCommitCrashes
  <2>5. CASE TxRollback \/ WalReplay
    BY <1>0, <2>1, <2>5, WritingKeepsLogTyped DEF TxRollback, WalReplay
  <2> QED BY <2>2, <2>3, <2>4, <2>5
<1>3. tx' = tx /\ UNCHANGED << returned, applied >>
  BY DEF TxBegin, TxCommit, TxCommitCrashes, TxRollback, WalReplay
<1>4. HandlesTyped' BY <1>0, <1>3 DEF HandlesTyped
<1>5. begins' \in 0 .. MaxBegins /\ cuts' \in 0 .. MaxCuts
  BY <1>0, TransactionAssumption
     DEF RestTyped, TxBegin, TxCommit, TxCommitCrashes, TxRollback, WalReplay, Cut
<1>6. RestTyped' BY <1>0, <1>3, <1>5 DEF RestTyped
<1> QED BY <1>1, <1>2, <1>4, <1>6, TypedAgain

LEMMA StepIsTyped == TypeOK /\ [Next]_vars => TypeOK'
<1> SUFFICES ASSUME TypeOK, [Next]_vars PROVE TypeOK'
  OBVIOUS
<1>0. LogTyped /\ HandlesTyped /\ RestTyped /\ seen \in [Client -> Histories] BY TypeOKIs
<1>1. ASSUME NEW c \in Client, Begin(c) PROVE TypeOK' BY <1>1, BeginIsTyped
<1>2. ASSUME NEW c \in Client, NEW op \in Op,
             Stage(c, op) \/ StageFails(c, op) \/ StageCrashes(c, op)
      PROVE  TypeOK'
  BY <1>2, StageIsTyped
<1>3. ASSUME NEW c \in Client,
             Commit(c) \/ CommitFails(c) \/ CommitCrashes(c) \/ CommitNothing(c) \/ Rollback(c)
      PROVE  TypeOK'
  BY <1>3, EndIsTyped
<1>4. ASSUME NEW c \in Client, Apply(c) PROVE TypeOK'
  <2>1. LogTyped' /\ HandlesTyped' /\ seen' \in [Client -> Histories]
    BY <1>0, <1>4 DEF Apply, LogTyped, HandlesTyped
  <2>2. returned[c] \in Seq(Op) BY <1>0 DEF RestTyped
  <2>3. {returned[c][n] : n \in 1 .. Len(returned[c])} \subseteq Op BY <2>2
  <2>4. << >> \in Seq(Op) OBVIOUS
  <2>5. RestTyped' BY <1>0, <1>4, <2>3, <2>4 DEF Apply, RestTyped
  <2> QED BY <2>1, <2>5, TypedAgain
<1>5. ASSUME NEW c \in Client, Crash(c) PROVE TypeOK'
  <2>1. LogTyped' /\ seen' \in [Client -> Histories] BY <1>0, <1>5 DEF Crash, LogTyped
  <2> DEFINE h == [tx[c] EXCEPT !.state = "Crashed"]
  <2>2. h \in Handles /\ (h.staged # << >> => h.held)
    <3>1. tx[c] \in Handles /\ (tx[c].staged # << >> => tx[c].held) BY <1>0 DEF HandlesTyped
    <3> QED BY <3>1, HandleIsTyped DEF State
  <2>3. tx' = [tx EXCEPT ![c] = h] BY <1>5 DEF Crash
  <2> HIDE DEF h
  <2>4. HandlesTyped' BY <1>0, <2>2, <2>3, HandleChanges
  <2>5. << >> \in Seq(Op) OBVIOUS
  <2>6. RestTyped' BY <1>0, <1>5, <2>5 DEF Crash, RestTyped
  <2> QED BY <2>1, <2>4, <2>6, TypedAgain
<1>6. CASE TxBegin \/ TxCommit \/ TxCommitCrashes \/ TxRollback \/ WalReplay
  BY <1>6, CommandIsTyped
<1>7. CASE UNCHANGED vars BY <1>7 DEF vars, TypeOK
<1> QED BY <1>1, <1>2, <1>3, <1>4, <1>5, <1>6, <1>7 DEF Next

LEMMA InitIsTyped == Init => TypeOK
<1> SUFFICES ASSUME Init PROVE TypeOK
  OBVIOUS
<1>1. << >> \in Seq(LogLine) /\ << >> \in Seq(Op) OBVIOUS
<1>2. NoHandle \in Handles /\ NoHandle.staged = << >>
  BY <1>1 DEF NoHandle, Handle, Handles, State
<1>3. History({}, {}, FALSE, FALSE, {}) \in Histories BY DEF History, Histories
<1>4. LogTyped BY <1>1 DEF Init, LogTyped
<1>5. HandlesTyped BY <1>2 DEF Init, HandlesTyped
<1>6. RestTyped BY <1>1, TransactionAssumption DEF Init, RestTyped
<1>7. seen \in [Client -> Histories] BY <1>3 DEF Init
<1> QED BY <1>4, <1>5, <1>6, <1>7, TypeOKIs

\* Whatever the clients do and wherever a write stops, the log stays a sequence
\* of lines, and a handle that has staged something has an entry in memory, so
\* that no append writes the header over it (Wal::append).
THEOREM TypeCorrect == Spec => []TypeOK
BY InitIsTyped, StepIsTyped, PTL DEF Spec

(***************************************************************************)
(* What the log of a transaction holds.                                    *)
(***************************************************************************)
Logged(file, i) == << file[i].seq, file[i].op >>

\* The one separator before line i is line 2, below the header.
Opened(file, i) ==
  i > 2 /\ file[2].kind = "sep" /\ \A j \in 1 .. i - 1 : file[j].kind = "sep" => j = 2

\* Every entry was attempted and comes after those with smaller numbers.
InOrder(file, tried) ==
  \A i \in 1 .. Len(file) : file[i].kind = "entry" =>
    /\ Logged(file, i) \in tried
    /\ \A j \in 1 .. i - 1 : file[j].kind = "entry" => file[j].seq < file[i].seq

\* Each of these operations is in a line that is read and that nothing can be
\* glued to.
KeepsAll(file, kept) ==
  \A k \in kept : \E i \in 1 .. Len(file) :
    file[i].kind = "entry" /\ file[i].ended /\ Opened(file, i) /\ Logged(file, i) = k

HoldsTheBatch(file, tried, kept) == InOrder(file, tried) /\ KeepsAll(file, kept)

\* What comes next will be read; what has an entry's number is below n.
OneSeparator(file) ==
  Len(file) > 2 /\ file[2].kind = "sep" /\ \A j \in 1 .. Len(file) : file[j].kind = "sep" => j = 2

Below(file, n) == \A i \in 1 .. Len(file) : file[i].kind = "entry" => file[i].seq < n

\* The lines of file are in all, but for a last one that another was glued to.
Continues(all, file) ==
  /\ Len(all) \in Nat /\ Len(file) \in Nat /\ Len(all) >= Len(file)
  /\ \A i \in 1 .. Len(file) :
       \/ all[i] = file[i]
       \/ i = Len(file) /\ ~ file[i].ended /\ all[i].kind \notin {"entry", "sep"}

LEMMA MoreTriedLessKept ==
  ASSUME NEW file, NEW tried, NEW kept, NEW more, NEW less, tried \subseteq more,
         less \subseteq kept, HoldsTheBatch(file, tried, kept)
  PROVE  HoldsTheBatch(file, more, less)
BY DEF HoldsTheBatch, InOrder, KeepsAll

LEMMA SequenceNumbersAreNatural ==
  ASSUME NEW file \in Seq(LogLine)
  PROVE  \A i \in 1 .. Len(file) : file[i].kind = "entry" => file[i].seq \in Nat
<1>1. \A i \in 1 .. Len(file) : file[i] \in LogLine OBVIOUS
<1>2. \A l \in LogLine : l.kind = "entry" => l.seq \in Nat BY DEF LogLine
<1> QED BY <1>1, <1>2

LEMMA LargerNumbersAreBelow ==
  ASSUME NEW file \in Seq(LogLine), NEW n \in Nat, Below(file, n)
  PROVE  Below(file, n + 1)
BY SequenceNumbersAreNatural DEF Below

\* What was kept stays, whatever is appended.
LEMMA KeptLinesStay ==
  ASSUME NEW all, NEW file, NEW kept, Continues(all, file), KeepsAll(file, kept)
  PROVE  KeepsAll(all, kept)
<1> SUFFICES ASSUME NEW k \in kept
             PROVE  \E i \in 1 .. Len(all) :
                      all[i].kind = "entry" /\ all[i].ended /\ Opened(all, i) /\ Logged(all, i) = k
  BY DEF KeepsAll
<1>1. PICK i \in 1 .. Len(file) :
        file[i].kind = "entry" /\ file[i].ended /\ Opened(file, i) /\ Logged(file, i) = k
  BY DEF KeepsAll
<1>2. all[i] = file[i] /\ i \in 1 .. Len(all) BY <1>1 DEF Continues
<1>3. \A j \in 1 .. i - 1 : all[j] = file[j]
  <2>1. \A j \in 1 .. i - 1 : j \in 1 .. Len(file) /\ j # Len(file) BY <1>1 DEF Continues
  <2> QED BY <2>1 DEF Continues
<1>4. 2 \in 1 .. i - 1 BY <1>1 DEF Opened, Continues
<1>5. Opened(all, i) BY <1>1, <1>3, <1>4 DEF Opened
<1> QED BY <1>1, <1>2, <1>5 DEF Logged

\* The first append of a transaction: a header and an entry, over whatever a
\* failed first append may have left.
LEMMA FirstEntry ==
  ASSUME NEW n \in Nat, NEW o \in Op, NEW tried, << n, o >> \in tried
  PROVE  LET file == Header \o << Entry(n, o) >>
         IN  /\ HoldsTheBatch(file, tried, {<< n, o >>})
             /\ OneSeparator(file) /\ Below(file, n + 1) /\ file[Len(file)].ended
<1> DEFINE e    == Entry(n, o)
           file == Header \o << e >>
<1>1. e.kind = "entry" /\ e.ended /\ e.seq = n /\ e.op = o BY DEF Entry
<1> HIDE DEF e
<1>2. /\ Len(file) = 3 /\ file[1].kind = "head" /\ file[2].kind = "sep"
      /\ file[3].kind = "entry" /\ file[3].ended /\ file[3].seq = n /\ file[3].op = o
  <2> DEFINE U == {Head0, Separator, e}
  <2>1. Header \in Seq(U) /\ Len(Header) = 2 /\ Header[1] = Head0 /\ Header[2] = Separator
    <3> HIDE DEF U
    <3>1. Head0 \in U /\ Separator \in U BY DEF U
    <3> QED BY <3>1 DEF Header
  <2> DEFINE one == << e >>
  <2>2. one \in Seq(U) /\ Len(one) = 1 /\ one[1] = e OBVIOUS
  <2> HIDE DEF U, one, file
  <2>3. /\ Len(Header \o one) = Len(Header) + Len(one)
        /\ \A i \in 1 .. Len(Header) : (Header \o one)[i] = Header[i]
        /\ \A i \in 1 .. Len(one) : (Header \o one)[Len(Header) + i] = one[i]
    <3>1. Header \in Seq(U) /\ one \in Seq(U) BY <2>1, <2>2
    <3> QED BY <3>1
  <2>4. /\ Len(Header \o one) = 3 /\ (Header \o one)[1] = Head0
        /\ (Header \o one)[2] = Separator /\ (Header \o one)[3] = e
    BY <2>1, <2>2, <2>3
  <2>5. Len(file) = 3 /\ file[1] = Head0 /\ file[2] = Separator /\ file[3] = e
    BY <2>4 DEF file, one
  <2> QED BY <1>1, <2>5 DEF Head0, Separator
<1> HIDE DEF file
<1>3. \A i \in 1 .. Len(file) : i = 1 \/ i = 2 \/ i = 3 BY <1>2
<1>4. \A i \in 1 .. Len(file) : file[i].kind = "entry" => i = 3 BY <1>2, <1>3
<1>5. Opened(file, 3)
  <2>1. \A j \in 1 .. 3 - 1 : j = 1 \/ j = 2 OBVIOUS
  <2> QED BY <1>2, <2>1 DEF Opened
<1>6. \A j \in 1 .. 3 - 1 : file[j].kind # "entry"
  <2>1. \A j \in 1 .. 3 - 1 : j = 1 \/ j = 2 OBVIOUS
  <2> QED BY <1>2, <2>1
<1>7. Logged(file, 3) = << n, o >> BY <1>2 DEF Logged
<1>8. 3 \in 1 .. Len(file) BY <1>2
<1>9. InOrder(file, tried) BY <1>4, <1>6, <1>7 DEF InOrder
<1>10. KeepsAll(file, {<< n, o >>}) BY <1>2, <1>5, <1>7, <1>8 DEF KeepsAll
<1>11. OneSeparator(file) BY <1>2, <1>3 DEF OneSeparator
<1>12. Below(file, n + 1) BY <1>2, <1>4 DEF Below
<1>13. file[Len(file)].ended BY <1>2
<1> QED BY <1>9, <1>10, <1>11, <1>12, <1>13 DEF HoldsTheBatch, file, e

\* A line appended on its own, or glued to an unended one.
LEMMA OneMoreLine ==
  ASSUME NEW file \in Seq(LogLine), file # << >>, NEW l
  PROVE  LET all == Appended(file, << l >>)  m == Len(file)
         IN  \/ /\ file[m].ended /\ Len(all) = m + 1 /\ all[m + 1] = l
                /\ \A i \in 1 .. m : all[i] = file[i]
             \/ /\ ~ file[m].ended /\ Len(all) = m /\ all[m] = Glued(file[m], l)
                /\ \A i \in 1 .. m - 1 : all[i] = file[i]
<1> DEFINE all == Appended(file, << l >>)
           m   == Len(file)
           one == << l >>
<1>1. m \in Nat \ {0} /\ Len(one) = 1 /\ one[1] = l /\ one # << >> OBVIOUS
<1>2. CASE file[m].ended
  <2>1. all = file \o one BY <1>2 DEF Appended
  <2>2. file \in Seq(LogLine \cup {l}) /\ one \in Seq(LogLine \cup {l}) OBVIOUS
  <2>3. /\ Len(file \o one) = m + 1 /\ (file \o one)[m + 1] = l
        /\ \A i \in 1 .. m : (file \o one)[i] = file[i]
    BY <1>1, <2>2
  <2> QED BY <1>2, <2>1, <2>3
<1>3. CASE ~ file[m].ended
  <2> DEFINE glue == Glued(file[m], one[1])
             front == SubSeq(file, 1, m - 1)
             U == LogLine \cup {glue}
  <2>1. SubSeq(one, 2, Len(one)) = << >>
    <3>1. one \in Seq({l}) OBVIOUS
    <3> HIDE DEF one
    <3>2. SubSeq(one, 2, 1) \in Seq({l}) /\ Len(SubSeq(one, 2, 1)) = 0 BY <1>1, <3>1
    <3> QED BY <1>1, <3>2, EmptySeq
  <2>2. all = front \o << glue >> \o << >> BY <1>1, <1>3, <2>1 DEF Appended
  <2>3. front \in Seq(LogLine) /\ Len(front) = m - 1 /\ \A i \in 1 .. m - 1 : front[i] = file[i]
    <3>1. m - 1 \in 0 .. Len(file) /\ 1 \in 1 .. Len(file) + 1 /\ 1 <= m - 1 + 1 BY <1>1
    <3> DEFINE k == m - 1
    <3>2. k - 1 + 1 = k /\ \A i \in 1 .. k : 1 + i - 1 = i BY <1>1
    <3>3. k \in 0 .. Len(file) /\ 1 <= k + 1 BY <3>1
    <3> HIDE DEF k, m
    <3>4. /\ SubSeq(file, 1, k) \in Seq(LogLine)
          /\ Len(SubSeq(file, 1, k)) = k - 1 + 1
          /\ \A i \in 1 .. k - 1 + 1 : SubSeq(file, 1, k)[i] = file[1 + i - 1]
      BY <3>1, <3>3, PieceOfALog
    <3>5. \A i \in 1 .. k : SubSeq(file, 1, k)[i] = file[i] BY <3>2, <3>4
    <3> QED BY <3>2, <3>4, <3>5 DEF k
  <2> HIDE DEF glue, front, all, one
  <2>4. front \in Seq(U) /\ << glue >> \in Seq(U) /\ Len(<< glue >>) = 1 /\ << glue >>[1] = glue
    BY <2>3
  <2> HIDE DEF U
  <2>5. /\ front \o << glue >> \in Seq(U) /\ Len(front \o << glue >>) = Len(front) + 1
        /\ \A i \in 1 .. Len(front) : (front \o << glue >>)[i] = front[i]
        /\ (front \o << glue >>)[Len(front) + 1] = glue
    BY <2>4
  <2>6. front \o << glue >> \o << >> = front \o << glue >>
    <3> DEFINE s == front \o << glue >>
    <3>1. s \in Seq(U) BY <2>5
    <3> HIDE DEF s
    <3>2. s \o << >> = s BY <3>1
    <3> QED BY <3>2 DEF s
  <2>7. Len(front) + 1 = m /\ 1 .. Len(front) = 1 .. m - 1 BY <1>1, <2>3
  <2>8. Len(all) = m /\ all[m] = glue /\ \A i \in 1 .. m - 1 : all[i] = file[i]
    BY <2>2, <2>3, <2>5, <2>6, <2>7
  <2> QED BY <1>1, <1>3, <2>8 DEF glue, all, one
<1> QED BY <1>2, <1>3

\* A later append: one more line, an entry or a piece of one, perhaps glued.
LEMMA AttemptKeepsTheBatch ==
  ASSUME NEW file \in Seq(LogLine), file # << >>, NEW n \in Nat, NEW o \in Op, NEW l,
         NEW tried, NEW kept, HoldsTheBatch(file, tried, kept), Below(file, n),
         l.kind \in {"entry", "junk"}, l.kind = "entry" => l.seq = n /\ l.op = o
  PROVE  LET all == Appended(file, << l >>)
         IN  /\ HoldsTheBatch(all, tried \cup {<< n, o >>}, kept)
             /\ all # << >> /\ Below(all, n + 1) /\ (OneSeparator(file) => OneSeparator(all))
             /\ l.kind = "entry" /\ l.ended => all[Len(all)].ended
             /\ l.kind = "entry" /\ l.ended /\ OneSeparator(file) /\ file[Len(file)].ended =>
                  HoldsTheBatch(all, tried \cup {<< n, o >>}, kept \cup {<< n, o >>})
<1> DEFINE all  == Appended(file, << l >>)
           m    == Len(file)
           mark == << n, o >>
           more == tried \cup {mark}
<1>1. \/ /\ file[m].ended /\ Len(all) = m + 1 /\ all[m + 1] = l
         /\ \A i \in 1 .. m : all[i] = file[i]
      \/ /\ ~ file[m].ended /\ Len(all) = m /\ all[m] = Glued(file[m], l)
         /\ \A i \in 1 .. m - 1 : all[i] = file[i]
  BY OneMoreLine
<1>2. m \in Nat \ {0} OBVIOUS
<1>3. \A k : Glued(k, l).kind \notin {"entry", "sep"} /\ Glued(k, l).ended = l.ended
  BY DEF Glued
<1>4. \A i \in 1 .. m : file[i].kind = "entry" => file[i].seq \in Nat
  BY SequenceNumbersAreNatural
<1>5. InOrder(file, tried) /\ KeepsAll(file, kept) BY DEF HoldsTheBatch
<1>6. mark \in more /\ tried \subseteq more OBVIOUS
<1> HIDE DEF all, m, mark, more
<1>7. CASE ~ file[m].ended
  <2>1. /\ Len(all) = m /\ all[m] = Glued(file[m], l) /\ \A i \in 1 .. m - 1 : all[i] = file[i]
    BY <1>1, <1>7
  <2>2. \A i \in 1 .. m : i = m \/ i \in 1 .. m - 1 BY <1>2
  <2>3. Continues(all, file) BY <1>2, <1>3, <1>7, <2>1, <2>2 DEF Continues, m
  <2>4. KeepsAll(all, kept) BY <1>5, <2>3, KeptLinesStay
  <2>5. \A i \in 1 .. Len(all) : all[i].kind = "entry" => i \in 1 .. m - 1 /\ all[i] = file[i]
    BY <1>3, <2>1, <2>2
  <2>6. InOrder(all, more)
    <3> SUFFICES ASSUME NEW i \in 1 .. Len(all), all[i].kind = "entry"
                 PROVE  /\ Logged(all, i) \in more
                        /\ \A j \in 1 .. i - 1 : all[j].kind = "entry" => all[j].seq < all[i].seq
      BY DEF InOrder
    <3>1. i \in 1 .. m - 1 /\ all[i] = file[i] BY <2>5
    <3>2. \A j \in 1 .. i - 1 : j \in 1 .. m - 1 BY <1>2, <3>1
    <3>3. i \in 1 .. Len(file) BY <1>2, <3>1 DEF m
    <3> QED BY <1>5, <1>6, <2>1, <3>1, <3>2, <3>3 DEF InOrder, Logged
  <2>7. Below(all, n + 1)
    <3>1. \A i \in 1 .. m - 1 : i \in 1 .. m BY <1>2
    <3>2. \A i \in 1 .. m : file[i].kind = "entry" => file[i].seq < n BY DEF Below, m
    <3>3. \A i \in 1 .. Len(all) : all[i].kind = "entry" => file[i].seq < n /\ file[i].seq \in Nat
      BY <1>4, <2>5, <3>1, <3>2
    <3>4. \A i \in 1 .. Len(all) : all[i].kind = "entry" => all[i].seq < n + 1
      BY <2>5, <3>3
    <3> QED BY <3>4 DEF Below
  <2>8. OneSeparator(file) => OneSeparator(all)
    <3> SUFFICES ASSUME OneSeparator(file) PROVE OneSeparator(all)
      OBVIOUS
    <3>1. m > 2 /\ file[2].kind = "sep" /\ \A j \in 1 .. m : file[j].kind = "sep" => j = 2
      BY DEF OneSeparator, m
    <3>2. 2 \in 1 .. m - 1 /\ \A j \in 1 .. m - 1 : j \in 1 .. m BY <1>2, <3>1
    <3>3. all[2].kind = "sep" BY <2>1, <3>1, <3>2
    <3>4. \A j \in 1 .. m : all[j].kind = "sep" => j = 2 BY <1>3, <2>1, <2>2, <3>1, <3>2
    <3> QED BY <2>1, <3>1, <3>3, <3>4 DEF OneSeparator
  <2>9. all # << >>
    <3>1. Len(<< >>) = 0 OBVIOUS
    <3> QED BY <1>2, <2>1, <3>1
  <2>10. l.ended => all[Len(all)].ended BY <1>3, <2>1
  <2> QED BY <1>7, <2>4, <2>6, <2>7, <2>8, <2>9, <2>10 DEF HoldsTheBatch, all, m, more, mark
<1>8. CASE file[m].ended
  <2>1. Len(all) = m + 1 /\ all[m + 1] = l /\ \A i \in 1 .. m : all[i] = file[i]
    BY <1>1, <1>8
  <2>2. \A i \in 1 .. Len(all) : i \in 1 .. m \/ i = m + 1 BY <1>2, <2>1
  <2>3. Continues(all, file) BY <1>2, <2>1 DEF Continues, m
  <2>4. KeepsAll(all, kept) BY <1>5, <2>3, KeptLinesStay
  <2>5. \A i \in 1 .. m : file[i].kind = "entry" => file[i].seq < n BY DEF Below, m
  <2>6. ASSUME NEW i \in 1 .. m, all[i].kind = "entry"
        PROVE  /\ Logged(all, i) \in more
               /\ \A j \in 1 .. i - 1 : all[j].kind = "entry" => all[j].seq < all[i].seq
    <3>1. \A j \in 1 .. i - 1 : j \in 1 .. m BY <1>2
    <3>2. all[i] = file[i] BY <2>1
    <3>3. i \in 1 .. Len(file) BY DEF m
    <3> QED BY <1>5, <1>6, <2>1, <2>6, <3>1, <3>2, <3>3 DEF InOrder, Logged
  <2>7. ASSUME l.kind = "entry"
        PROVE  /\ Logged(all, m + 1) = mark
               /\ \A j \in 1 .. (m + 1) - 1 : all[j].kind = "entry" => all[j].seq < all[m + 1].seq
    <3>1. (m + 1) - 1 = m BY <1>2
    <3>2. Logged(all, m + 1) = mark BY <2>1, <2>7 DEF Logged, mark
    <3> QED BY <2>1, <2>5, <2>7, <3>1, <3>2
  <2>8. InOrder(all, more) BY <1>6, <2>1, <2>2, <2>6, <2>7 DEF InOrder
  <2>9. Below(all, n + 1)
    <3>1. \A i \in 1 .. m : all[i].kind = "entry" => all[i].seq < n + 1 BY <1>4, <2>1, <2>5
    <3>2. l.kind = "entry" => l.seq < n + 1 OBVIOUS
    <3> QED BY <2>1, <2>2, <3>1, <3>2 DEF Below
  <2>10. OneSeparator(file) => OneSeparator(all)
    <3> SUFFICES ASSUME OneSeparator(file) PROVE OneSeparator(all)
      OBVIOUS
    <3>1. m > 2 /\ file[2].kind = "sep" /\ \A j \in 1 .. m : file[j].kind = "sep" => j = 2
      BY DEF OneSeparator, m
    <3>2. 2 \in 1 .. m BY <1>2, <3>1
    <3>3. all[2].kind = "sep" BY <2>1, <3>1, <3>2
    <3>4. \A j \in 1 .. Len(all) : all[j].kind = "sep" => j = 2 BY <2>1, <2>2, <3>1
    <3>5. Len(all) > 2 BY <1>2, <2>1, <3>1
    <3> QED BY <3>3, <3>4, <3>5 DEF OneSeparator
  <2>11. all # << >>
    <3>1. Len(<< >>) = 0 OBVIOUS
    <3> QED BY <1>2, <2>1, <3>1
  <2>12. l.ended => all[Len(all)].ended BY <2>1
  <2>13. ASSUME l.kind = "entry", l.ended, OneSeparator(file)
         PROVE  KeepsAll(all, kept \cup {mark})
    <3>1. m > 2 /\ file[2].kind = "sep" /\ \A j \in 1 .. m : file[j].kind = "sep" => j = 2
      BY <2>13 DEF OneSeparator, m
    <3>2. 2 \in 1 .. m /\ (m + 1) - 1 = m /\ m + 1 > 2 /\ m + 1 \in 1 .. Len(all)
      BY <1>2, <2>1, <3>1
    <3>3. Opened(all, m + 1) BY <2>1, <3>1, <3>2 DEF Opened
    <3>4. Logged(all, m + 1) = mark BY <2>7, <2>13
    <3> QED BY <2>1, <2>4, <2>13, <3>2, <3>3, <3>4 DEF KeepsAll
  <2> QED BY <2>4, <2>8, <2>9, <2>10, <2>11, <2>12, <2>13 DEF HoldsTheBatch, all, more, mark
<1> QED BY <1>7, <1>8

\* The commit lines, or a part of them, take no accepted operation away.
LEMMA ClosingKeepsTheBatch ==
  ASSUME NEW file \in Seq(LogLine), NEW tried, NEW kept, NEW part \in Partly(CommitLines),
         HoldsTheBatch(file, tried, kept)
  PROVE  /\ HoldsTheBatch(Appended(file, part), tried, kept)
         /\ \A n : Below(file, n) => Below(Appended(file, part), n)
         /\ file # << >> => Appended(file, part) # << >>
<1> DEFINE all == Appended(file, part)
           m   == Len(file)
           few == {Separator, CommitMarker}
           any == few \cup UNION {Torn(l) : l \in few}
<1>1. \A l \in any : l.kind # "entry"
  <2>1. \A l \in few : l.kind # "entry" BY DEF Separator, CommitMarker
  <2>2. \A l \in Torn(Separator) : l.kind # "entry" BY DEF Torn, Separator
  <2>3. \A l \in Torn(CommitMarker) : l.kind # "entry" BY DEF Torn, CommitMarker
  <2> QED BY <2>1, <2>2, <2>3
<1>2. part \in Seq(any)
  <2>1. CommitLines \in Seq(few) BY DEF CommitLines
  <2> HIDE DEF few
  <2> QED BY <2>1, PartsAreSequences
<1> HIDE DEF any
<1>3. \A j \in 1 .. Len(part) : part[j].kind # "entry" BY <1>1, <1>2
<1>4. /\ ASequence(all) /\ Len(all) >= m
      /\ \A i \in 1 .. m :
           \/ all[i] = file[i]
           \/ i = m /\ ~ file[i].ended /\ all[i] = Glued(file[i], part[1])
      /\ \A i \in m + 1 .. Len(all) : \E j \in 1 .. Len(part) : all[i] = part[j]
  BY <1>2, AppendedLines
<1>5. m \in Nat /\ Len(all) \in Nat BY <1>4 DEF ASequence
<1>6. \A l, k : Glued(l, k).kind \notin {"entry", "sep"} BY DEF Glued
<1>7. file # << >> => m # 0 BY EmptySeq
<1> HIDE DEF all, m
<1>8. Continues(all, file) BY <1>4, <1>5, <1>6 DEF Continues, m
<1>9. KeepsAll(all, kept) BY <1>8, KeptLinesStay DEF HoldsTheBatch
<1>10. ASSUME NEW i \in 1 .. Len(all), all[i].kind = "entry"
       PROVE  i \in 1 .. m /\ all[i] = file[i]
  <2>1. i \in 1 .. m \/ i \in m + 1 .. Len(all) BY <1>5
  <2> QED BY <1>3, <1>4, <1>6, <1>10, <2>1
<1>11. ASSUME NEW i \in 1 .. Len(all), all[i].kind = "entry"
       PROVE  /\ Logged(all, i) \in tried
              /\ \A j \in 1 .. i - 1 : all[j].kind = "entry" => all[j].seq < all[i].seq
  <2>1. i \in 1 .. m /\ all[i] = file[i] BY <1>10, <1>11
  <2>2. \A j \in 1 .. i - 1 : j \in 1 .. m /\ j # m BY <1>5, <2>1
  <2>3. \A j \in 1 .. i - 1 : all[j] = file[j] BY <1>4, <2>2
  <2>4. /\ Logged(file, i) \in tried
        /\ \A j \in 1 .. i - 1 : file[j].kind = "entry" => file[j].seq < file[i].seq
    BY <1>11, <2>1 DEF HoldsTheBatch, InOrder, m
  <2> QED BY <2>1, <2>3, <2>4 DEF Logged
<1>12. InOrder(all, tried) BY <1>11 DEF InOrder
<1>13. ASSUME NEW n, Below(file, n) PROVE Below(all, n) BY <1>10, <1>13 DEF Below, m
<1>14. m # 0 => all # << >>
  <2>1. Len(<< >>) = 0 OBVIOUS
  <2> QED BY <1>4, <1>5, <2>1
<1> QED BY <1>7, <1>9, <1>12, <1>13, <1>14 DEF HoldsTheBatch, all, m

(***************************************************************************)
(* What the history says may be lost.                                      *)
(***************************************************************************)
Sure(h) == {k \in h.kept : ~ MayBeLost(h, k)}

\* All its numbers are below n, the next one.
Counted(h, n) ==
  /\ \A k \in h.tried \cup h.kept : k[1] \in Nat /\ k[1] < n
  /\ \A m \in h.shut : m \in Nat /\ m <= n

\* After an attempt with the next number, what may be lost may still be.
LEMMA AnAttemptSavesNothing ==
  ASSUME NEW h, NEW n \in Nat, NEW o, Counted(h, n), NEW got \in SUBSET {<< n, o >>}, NEW h2,
         h2.tried = h.tried \cup {<< n, o >>}, h2.kept = h.kept \cup got, h2.shut = h.shut
  PROVE  /\ Sure(h2) \subseteq Sure(h) \cup got
         /\ \A i : NextToAFailure(h, i) => NextToAFailure(h2, i)
         /\ got = {} /\ h.kept # {} => NextToAFailure(h2, n + 1)
         /\ Counted(h2, n + 1)
<1> DEFINE mark == << n, o >>
<1>0. mark[1] = n OBVIOUS
<1>1. \A k \in h.tried \cup h.kept : k[1] \in Nat /\ k[1] < n BY DEF Counted
<1> HIDE DEF mark
<1>2. \A k \in h.tried \cup h.kept : k # mark BY <1>0, <1>1
<1>3. h2.tried = h.tried \cup {mark} /\ (got = {} \/ got = {mark}) BY DEF mark
<1>4. \A f \in h.tried \ h.kept : f \in h2.tried \ h2.kept BY <1>2, <1>3
<1>5. ASSUME NEW i, NextToAFailure(h, i) PROVE NextToAFailure(h2, i)
  BY <1>4, <1>5 DEF NextToAFailure
<1>6. \A i : AfterAHalfCommit(h, i) => AfterAHalfCommit(h2, i) BY DEF AfterAHalfCommit
<1>7. Sure(h2) \subseteq Sure(h) \cup got BY <1>5, <1>6 DEF Sure, MayBeLost
<1>8. ASSUME got = {}, h.kept # {} PROVE NextToAFailure(h2, n + 1)
  <2>1. mark \in h2.tried \ h2.kept BY <1>2, <1>3, <1>8
  <2>2. PICK e \in h.kept : TRUE BY <1>8
  <2>3. e \in h2.kept /\ e[1] < n BY <1>1
  <2> QED BY <1>0, <2>1, <2>3 DEF NextToAFailure
<1>9. \A k \in h2.tried \cup h2.kept : k[1] \in Nat /\ k[1] < n + 1
  <2>1. \A k \in h2.tried \cup h2.kept : k = mark \/ k \in h.tried \cup h.kept BY <1>3
  <2>2. \A k \in h.tried \cup h.kept : k[1] \in Nat /\ k[1] < n + 1 BY <1>1
  <2> QED BY <1>0, <2>1, <2>2
<1>10. \A m \in h2.shut : m \in Nat /\ m <= n + 1 BY DEF Counted
<1> QED BY <1>5, <1>7, <1>8, <1>9, <1>10 DEF Counted

(***************************************************************************)
(* The inductive invariant of the batch.                                   *)
(***************************************************************************)
\* c found no log, nobody has come between, and it has not ended.
Unseen(c) == seen[c].solo /\ seen[c].fresh
Going(c)  == tx[c].state \in {"Started", "Staging"}

\* The next entry will be read, unless the history says that it may be lost.
TakesMore(c) ==
  /\ lines # << >> /\ Below(lines, tx[c].seq)
  /\ seen[c].shut = {} => OneSeparator(lines)
  /\ seen[c].shut = {} /\ ~ lines[Len(lines)].ended => NextToAFailure(seen[c], tx[c].seq)

\* While it goes on, an entry in memory is an accepted operation in the log, and
\* the operations to hand back are the accepted ones.
GoesOn(c) ==
  /\ Counted(seen[c], tx[c].seq)
  /\ seen[c].kept = {} => ~ tx[c].held
  /\ seen[c].kept # {} =>
       /\ tx[c].held
       /\ TakesMore(c)
       /\ \A k \in seen[c].kept : \E n \in 1 .. Len(tx[c].staged) : tx[c].staged[n] = k[2]

\* What commit handed back is all of a batch that is marked committed.
HandedBack(c) ==
  /\ Committed(lines)
  /\ \A k \in seen[c].kept : \E n \in 1 .. Len(returned[c]) : returned[c][n] = k[2]

BatchOf(c) ==
  /\ Going(c) => GoesOn(c)
  /\ seen[c].kept # {} => HoldsTheBatch(lines, seen[c].tried, Sure(seen[c]))
  /\ seen[c].kept # {} /\ ~ Going(c) /\ returned[c] # << >> => HandedBack(c)

BatchInv == \A c \in Client : Unseen(c) => BatchOf(c)

\* A client to which nothing happens.
LEMMA UnchangedBatch ==
  ASSUME NEW c, BatchOf(c), tx'[c] = tx[c], seen'[c] = seen[c], lines' = lines,
         returned'[c] = returned[c]
  PROVE  BatchOf(c)'
<1>1. Counted(seen[c], tx[c].seq)' = Counted(seen[c], tx[c].seq) BY DEF Counted
<1>2. TakesMore(c)' = TakesMore(c)
  BY DEF TakesMore, Below, OneSeparator, NextToAFailure
<1>3. HoldsTheBatch(lines, seen[c].tried, Sure(seen[c]))'
        = HoldsTheBatch(lines, seen[c].tried, Sure(seen[c]))
  BY DEF HoldsTheBatch, InOrder, KeepsAll, Opened, Logged, Sure, MayBeLost, NextToAFailure,
         AfterAHalfCommit
<1> QED BY <1>1, <1>2, <1>3 DEF BatchOf, Going, GoesOn, HandedBack, Committed

\* Whoever is disturbed has nothing to keep; the others keep their history.
LEMMA DisturbedBatch ==
  ASSUME TypeOK, LockInv, NEW keep, Disturb(keep), NEW c \in Client, Unseen(c)'
  PROVE  c \in keep /\ Unseen(c) /\ seen'[c] = seen[c]
<1> DEFINE s == seen[c].solo /\ c \in keep
<1>1. s => seen[c].solo /\ c \in keep OBVIOUS
<1>2. seen'[c] = History(seen[c].tried, seen[c].kept, s, seen[c].fresh, seen[c].shut)
  BY DisturbKeepsHistories DEF LockInv
<1>3. s \in BOOLEAN /\ seen[c].solo \in BOOLEAN BY DEF TypeOK
<1> HIDE DEF s
<1>4. s /\ seen[c].fresh BY <1>2 DEF Unseen, History
<1>5. c \in keep /\ Unseen(c) BY <1>1, <1>4 DEF Unseen
<1>6. s = seen[c].solo BY <1>1, <1>3, <1>4
<1> QED BY <1>2, <1>5, <1>6 DEF LockInv, Whole, HistoryIsWhole

\* After an attempt the others are disturbed, and the attempt is remembered.
LEMMA TriedBatch ==
  ASSUME LockInv, NEW c \in Client, NEW op, NEW kept, Tried(c, op, kept),
         NEW d \in Client, Unseen(d)'
  PROVE  /\ d = c /\ Unseen(c)
         /\ seen'[c].tried = seen[c].tried \cup {<< tx[c].seq, op >>}
         /\ seen'[c].kept = seen[c].kept \cup kept
         /\ seen'[c].shut = seen[c].shut
<1>1. d = c BY NotedHistories DEF Tried, LockInv, Unseen
<1> DEFINE t == seen[c].tried \cup {<< tx[c].seq, op >>}
           k == seen[c].kept \cup kept
<1>2. seen'[c] = History(t, k, seen[c].solo, seen[c].fresh, seen[c].shut)
  BY TriedHistory DEF LockInv
<1> HIDE DEF t, k
<1>3. /\ seen'[c].tried = t /\ seen'[c].kept = k /\ seen'[c].shut = seen[c].shut
      /\ seen'[c].solo = seen[c].solo /\ seen'[c].fresh = seen[c].fresh
  BY <1>2 DEF History
<1> QED BY <1>1, <1>3 DEF Unseen, t, k

\* A part of one line is nothing, the line, or a torn line.
LEMMA PartsOfOne ==
  ASSUME NEW e, NEW part \in Partly(<< e >>)
  PROVE  part = << >> \/ \E l \in {e} \cup Torn(e) : part = << l >>
<1> DEFINE one == << e >>
<1>1. Len(one) = 1 /\ one[1] = e /\ one \in Seq({e}) OBVIOUS
<1>2. SubSeq(one, 1, 0) = << >> /\ SubSeq(one, 1, 1) = one
  <2> HIDE DEF one
  <2>1. SubSeq(one, 1, Len(one)) = one BY <1>1
  <2>2. SubSeq(one, 1, 0) \in Seq({e}) /\ Len(SubSeq(one, 1, 0)) = 0 BY <1>1
  <2> QED BY <1>1, <2>1, <2>2, EmptySeq
<1>3. CASE \E k \in 0 .. Len(one) : part = SubSeq(one, 1, k)
  <2>1. PICK k \in 0 .. 1 : part = SubSeq(one, 1, k) BY <1>1, <1>3
  <2>2. k = 0 \/ k = 1 OBVIOUS
  <2> QED BY <1>2, <2>1, <2>2
<1>4. CASE \E k \in 1 .. Len(one) : \E t \in Torn(one[k]) : part = Append(SubSeq(one, 1, k - 1), t)
  <2>1. PICK k \in 1 .. 1 : \E t \in Torn(one[k]) : part = Append(SubSeq(one, 1, k - 1), t)
    BY <1>1, <1>4
  <2>2. k = 1 /\ k - 1 = 0 OBVIOUS
  <2>3. PICK t \in Torn(e) : part = Append(<< >>, t) BY <1>1, <1>2, <2>1, <2>2
  <2>4. Append(<< >>, t) = << t >> OBVIOUS
  <2> QED BY <2>3, <2>4
<1>5. Partly(one) = {SubSeq(one, 1, k) : k \in 0 .. Len(one)}
                      \cup UNION {{Append(SubSeq(one, 1, k - 1), t) : t \in Torn(one[k])} :
                                    k \in 1 .. Len(one)}
  BY DEF Partly
<1> QED BY <1>3, <1>4, <1>5

\* A handle with entries in memory writes no header.
LEMMA LaterAttempt ==
  ASSUME NEW c, NEW op, tx[c].held
  PROVE  Logging(c, op) = << Entry(tx[c].seq, op) >> /\ Base(c) = lines
<1> DEFINE e == Entry(tx[c].seq, op)
<1>1. Logging(c, op) = << >> \o << e >> BY DEF Logging
<1> HIDE DEF e
<1>2. << e >> \in Seq({e}) OBVIOUS
<1>3. << >> \o << e >> = << e >> BY <1>2
<1> QED BY <1>1, <1>3 DEF Base, e

\* The pieces of an entry are that entry, or no entry.
LEMMA PiecesOfAnEntry ==
  ASSUME NEW n, NEW op, NEW l \in {Entry(n, op)} \cup Torn(Entry(n, op))
  PROVE  l.kind \in {"entry", "junk"} /\ (l.kind = "entry" => l.seq = n /\ l.op = op)
<1>1. CASE l = Entry(n, op) BY <1>1 DEF Entry
<1>2. CASE l \in Torn(Entry(n, op)) BY <1>2 DEF Torn, Entry
<1> QED BY <1>1, <1>2

\* An attempt of c, cut short or not, in a log that goes on.
LEMMA AttemptGrowsTheLog ==
  ASSUME TypeOK, NEW c \in Client, NEW op \in Op, BatchOf(c), Going(c), seen[c].kept # {},
         NEW part \in Partly(Logging(c, op)),
         lines' = lines \/ lines' = Appended(Base(c), part)
  PROVE  /\ HoldsTheBatch(lines', seen[c].tried \cup {<< tx[c].seq, op >>}, Sure(seen[c]))
         /\ lines' # << >> /\ Below(lines', tx[c].seq + 1)
         /\ OneSeparator(lines) => OneSeparator(lines')
<1> DEFINE tried == seen[c].tried
           sure  == Sure(seen[c])
           n     == tx[c].seq
           e     == Entry(n, op)
<1>1. /\ lines \in Seq(LogLine) /\ n \in Nat /\ tx[c].held /\ lines # << >> /\ Below(lines, n)
      /\ HoldsTheBatch(lines, tried, sure)
  BY DEF TypeOK, BatchOf, GoesOn, TakesMore
<1>2. Logging(c, op) = << e >> /\ Base(c) = lines BY <1>1, LaterAttempt
<1> HIDE DEF n, e, tried, sure
<1>3. part \in Partly(<< e >>) BY <1>2
<1>4. part = << >> \/ \E l \in {e} \cup Torn(e) : part = << l >> BY <1>3, PartsOfOne
<1>5. CASE lines' = lines
  <2>1. Below(lines, n + 1) BY <1>1, LargerNumbersAreBelow
  <2>2. tried \subseteq tried \cup {<< n, op >>} /\ sure \subseteq sure OBVIOUS
  <2>3. HoldsTheBatch(lines, tried \cup {<< n, op >>}, sure) BY <1>1, <2>2, MoreTriedLessKept
  <2> QED BY <1>1, <1>5, <2>1, <2>3 DEF n, tried, sure
<1>6. CASE lines' # lines
  <2>1. lines' = Appended(lines, part) BY <1>2, <1>6
  <2>2. part # << >>
    <3>1. Appended(lines, << >>) = lines \o << >> BY DEF Appended
    <3>2. lines \o << >> = lines BY <1>1
    <3> QED BY <1>6, <2>1, <3>1, <3>2
  <2>3. PICK l \in {e} \cup Torn(e) : part = << l >> BY <1>4, <2>2
  <2>4. l.kind \in {"entry", "junk"} /\ (l.kind = "entry" => l.seq = n /\ l.op = op)
    BY PiecesOfAnEntry DEF e
  <2> DEFINE all == Appended(lines, << l >>)
  <2>5. /\ HoldsTheBatch(all, tried \cup {<< n, op >>}, sure)
        /\ all # << >> /\ Below(all, n + 1) /\ (OneSeparator(lines) => OneSeparator(all))
    BY <1>1, <2>4, AttemptKeepsTheBatch
  <2> HIDE DEF all
  <2>6. lines' = all BY <2>1, <2>3 DEF all
  <2> QED BY <2>5, <2>6 DEF n, tried, sure
<1> QED BY <1>5, <1>6

\* An accepted operation is in the log, unless the history says that it may be
\* lost; the first one is, below a header of its own.
LEMMA StageKeepsBatch ==
  ASSUME TypeOK, LockInv, BatchInv, NEW c \in Client, NEW op \in Op, Stage(c, op)
  PROVE  BatchInv'
<1> SUFFICES ASSUME NEW d \in Client, Unseen(d)' PROVE BatchOf(d)'
  BY DEF BatchInv
<1> DEFINE n     == tx[c].seq
           e     == Entry(n, op)
           mark  == << n, op >>
           h     == seen[c]
           h2    == seen'[c]
           taken == Append(tx[c].staged, op)
<1>1. /\ d = c /\ Unseen(c) /\ h2.tried = h.tried \cup {mark}
      /\ h2.kept = h.kept \cup {mark} /\ h2.shut = h.shut
  <2> DEFINE got == {mark}
  <2>1. Tried(c, op, got) BY DEF Stage
  <2> HIDE DEF got
  <2>2. /\ d = c /\ Unseen(c) /\ seen'[c].tried = seen[c].tried \cup {<< tx[c].seq, op >>}
        /\ seen'[c].kept = seen[c].kept \cup got /\ seen'[c].shut = seen[c].shut
    BY <2>1, TriedBatch
  <2> QED BY <2>2 DEF got
<1>2. /\ BatchOf(c) /\ Going(c) /\ GoesOn(c) /\ n \in Nat /\ lines \in Seq(LogLine)
      /\ tx[c].staged \in Seq(Op) /\ tx[c].held \in BOOLEAN /\ Counted(h, n)
  BY <1>1 DEF BatchInv, BatchOf, Going, Stage, CanStage, TypeOK, GoesOn
<1>3. tx'[c].state = "Staging" /\ tx'[c].held /\ tx'[c].seq = n + 1 /\ tx'[c].staged = taken
  <2> DEFINE m == n + 1
  <2>1. tx'[c] = Handle("Staging", m, TRUE, taken) BY DEF Stage, TypeOK
  <2> HIDE DEF m, taken
  <2>2. tx'[c].state = "Staging" /\ tx'[c].held /\ tx'[c].seq = m /\ tx'[c].staged = taken
    BY <2>1 DEF Handle
  <2> QED BY <2>2 DEF m
<1>4. lines' = Appended(Base(c), Logging(c, op)) BY DEF Stage, Write
<1>5. /\ Sure(h2) \subseteq Sure(h) \cup {mark}
      /\ \A i : NextToAFailure(h, i) => NextToAFailure(h2, i)
      /\ Counted(h2, n + 1)
  <2>1. {mark} \in SUBSET {<< n, op >>} OBVIOUS
  <2> HIDE DEF n, h, h2
  <2> QED BY <1>1, <1>2, <2>1, AnAttemptSavesNothing
<1>6. /\ HoldsTheBatch(lines', h2.tried, Sure(h2))
      /\ lines' # << >> /\ Below(lines', n + 1) /\ lines'[Len(lines')].ended
      /\ h2.shut = {} => OneSeparator(lines')
  <2>1. CASE seen[c].kept = {}
    <3>1. ~ tx[c].held BY <1>2, <2>1 DEF GoesOn
    <3>2. Base(c) = << >> /\ Logging(c, op) = Header \o << e >> BY <3>1 DEF Base, Logging
    <3>3. Appended(<< >>, Header \o << e >>) = << >> \o (Header \o << e >>) BY DEF Appended
    <3>4. << >> \o (Header \o << e >>) = Header \o << e >>
      <4>1. Header \in Seq({Head0, Separator}) BY DEF Header
      <4> HIDE DEF e
      <4>2. Header \in Seq({Head0, Separator, e}) /\ << e >> \in Seq({Head0, Separator, e}) BY <4>1
      <4>3. Header \o << e >> \in Seq({Head0, Separator, e}) BY <4>2
      <4> QED BY <4>3
    <3>5. lines' = Header \o << e >> BY <1>4, <3>2, <3>3, <3>4
    <3> DEFINE file == Header \o << e >>
    <3>6. /\ HoldsTheBatch(file, h2.tried, {mark})
          /\ OneSeparator(file) /\ Below(file, n + 1) /\ file[Len(file)].ended
      <4>1. << n, op >> \in h2.tried BY <1>1
      <4> HIDE DEF n, h2
      <4> QED BY <1>2, <4>1, FirstEntry
    <3>7. Sure(h2) \subseteq {mark}
      <4>1. Sure(h) = {} BY <2>1 DEF Sure
      <4> QED BY <1>5, <4>1
    <3>8. file # << >>
      <4>1. Len(<< >>) = 0 OBVIOUS
      <4> HIDE DEF file
      <4> QED BY <3>6, <4>1 DEF OneSeparator
    <3> HIDE DEF file, mark, h2
    <3>9. HoldsTheBatch(file, h2.tried, Sure(h2)) BY <3>6, <3>7, MoreTriedLessKept
    <3> QED BY <3>5, <3>6, <3>8, <3>9 DEF file
  <2>2. CASE seen[c].kept # {}
    <3>1. /\ tx[c].held /\ HoldsTheBatch(lines, h.tried, Sure(h))
          /\ lines # << >> /\ Below(lines, n)
          /\ h.shut = {} => OneSeparator(lines)
          /\ h.shut = {} /\ ~ lines[Len(lines)].ended => NextToAFailure(h, n)
      BY <1>2, <2>2 DEF GoesOn, BatchOf, TakesMore
    <3>2. lines' = Appended(lines, << e >>) BY <1>4, <3>1, LaterAttempt
    <3>3. e.kind = "entry" /\ e.ended /\ e.seq = n /\ e.op = op BY DEF Entry
    <3> DEFINE all == Appended(lines, << e >>)
               more == h.tried \cup {mark}
               sure == Sure(h)
    <3> HIDE DEF e, n, sure
    <3>4. /\ HoldsTheBatch(all, more, sure)
          /\ all # << >> /\ Below(all, n + 1) /\ (OneSeparator(lines) => OneSeparator(all))
          /\ all[Len(all)].ended
          /\ OneSeparator(lines) /\ lines[Len(lines)].ended =>
               HoldsTheBatch(all, more, sure \cup {mark})
      <4> DEFINE tried == h.tried
      <4>1. HoldsTheBatch(lines, tried, sure) BY <3>1 DEF sure
      <4> HIDE DEF tried
      <4>2. /\ HoldsTheBatch(all, tried \cup {mark}, sure)
            /\ all # << >> /\ Below(all, n + 1) /\ (OneSeparator(lines) => OneSeparator(all))
            /\ e.kind = "entry" /\ e.ended => all[Len(all)].ended
            /\ e.kind = "entry" /\ e.ended /\ OneSeparator(lines) /\ lines[Len(lines)].ended =>
                 HoldsTheBatch(all, tried \cup {mark}, sure \cup {mark})
        BY <1>2, <3>1, <3>3, <4>1, AttemptKeepsTheBatch
      <4> QED BY <3>3, <4>2 DEF tried
    <3>5. mark[1] = n OBVIOUS
    <3> HIDE DEF all, more, mark, h, h2
    <3>6. CASE mark \in Sure(h2)
      <4>1. ~ MayBeLost(h2, mark) BY <3>6 DEF Sure
      <4>2. ~ NextToAFailure(h2, n) /\ \A m \in h.shut : ~ (m <= n)
        BY <1>1, <3>5, <4>1 DEF MayBeLost, AfterAHalfCommit
      <4>3. h.shut = {}
        <5>1. \A m \in h.shut : m <= n BY <1>2 DEF Counted
        <5> QED BY <4>2, <5>1
      <4>4. OneSeparator(lines) /\ lines[Len(lines)].ended BY <1>5, <3>1, <4>2, <4>3
      <4>5. HoldsTheBatch(all, more, sure \cup {mark}) BY <3>4, <4>4
      <4>6. HoldsTheBatch(all, more, Sure(h2))
        BY <1>5, <4>5, MoreTriedLessKept DEF sure
      <4> QED BY <1>1, <3>1, <3>2, <3>4, <4>6 DEF all, more
    <3>7. CASE mark \notin Sure(h2)
      <4>1. Sure(h2) \subseteq sure BY <1>5, <3>7 DEF sure
      <4>2. HoldsTheBatch(all, more, Sure(h2)) BY <3>4, <4>1, MoreTriedLessKept
      <4> QED BY <1>1, <3>1, <3>2, <3>4, <4>2 DEF all, more
    <3> QED BY <3>6, <3>7
  <2> QED BY <2>1, <2>2
<1>7. ASSUME NEW k \in h2.kept PROVE \E i \in 1 .. Len(taken) : taken[i] = k[2]
  <2>1. /\ Len(taken) = Len(tx[c].staged) + 1 /\ taken[Len(tx[c].staged) + 1] = op
        /\ \A i \in 1 .. Len(tx[c].staged) : taken[i] = tx[c].staged[i]
        /\ Len(tx[c].staged) \in Nat
    BY <1>2
  <2> HIDE DEF taken
  <2>2. CASE k = mark
    <3>1. k[2] = op BY <2>2
    <3>2. Len(tx[c].staged) + 1 \in 1 .. Len(taken) BY <2>1
    <3> QED BY <2>1, <3>1, <3>2
  <2>3. CASE k \in seen[c].kept
    <3>1. PICK i \in 1 .. Len(tx[c].staged) : tx[c].staged[i] = k[2]
      BY <1>2, <2>3 DEF GoesOn
    <3>2. i \in 1 .. Len(taken) BY <2>1
    <3> QED BY <2>1, <3>1, <3>2
  <2> QED BY <1>1, <2>2, <2>3
<1>8. h2.kept # {} BY <1>1
<1>9. TakesMore(c)' BY <1>3, <1>6 DEF TakesMore
<1> HIDE DEF e, mark, h, n, taken
<1>10. GoesOn(c)' BY <1>3, <1>5, <1>7, <1>8, <1>9 DEF GoesOn
<1>11. Going(c)' BY <1>3 DEF Going
<1> QED BY <1>1, <1>6, <1>10, <1>11 DEF BatchOf

\* A failed append leaves nothing, an entry nobody accepted, or a torn line; the
\* history says that what comes next may be lost.
LEMMA FailedStageKeepsBatch ==
  ASSUME TypeOK, LockInv, BatchInv, NEW c \in Client, NEW op \in Op, StageFails(c, op)
  PROVE  BatchInv'
<1> SUFFICES ASSUME NEW d \in Client, Unseen(d)' PROVE BatchOf(d)'
  BY DEF BatchInv
<1> DEFINE n  == tx[c].seq
           h  == seen[c]
           h2 == seen'[c]
<1>1. PICK part \in Partly(Logging(c, op)) :
        /\ StageCut(c, op, part)
        /\ tx' = [tx EXCEPT ![c].seq = @ + 1]
        /\ Tried(c, op, {})
        /\ UNCHANGED returned
  BY DEF StageFails
<1>2. /\ d = c /\ Unseen(c) /\ h2.tried = h.tried \cup {<< n, op >>}
      /\ h2.kept = h.kept /\ h2.shut = h.shut
  <2> DEFINE got == {}
  <2>1. Tried(c, op, got) BY <1>1
  <2> HIDE DEF got
  <2>2. /\ d = c /\ Unseen(c) /\ seen'[c].tried = seen[c].tried \cup {<< tx[c].seq, op >>}
        /\ seen'[c].kept = seen[c].kept \cup got /\ seen'[c].shut = seen[c].shut
    BY <2>1, TriedBatch
  <2> QED BY <2>2 DEF got
<1>3. BatchOf(c) /\ Going(c) /\ GoesOn(c) /\ n \in Nat /\ Counted(h, n)
  <2>1. Going(c) BY <1>1 DEF StageCut, CanStage, Going
  <2> QED BY <1>2, <2>1 DEF BatchInv, BatchOf, TypeOK, GoesOn
<1>4. /\ tx'[c].state = tx[c].state /\ tx'[c].held = tx[c].held
      /\ tx'[c].seq = n + 1 /\ tx'[c].staged = tx[c].staged
  <2> DEFINE m == n + 1
  <2>1. tx'[c] = [tx[c] EXCEPT !.seq = m] BY <1>1 DEF TypeOK
  <2>2. DOMAIN tx[c] = {"state", "seq", "held", "staged"} BY DEF TypeOK
  <2> HIDE DEF m
  <2>3. /\ tx'[c].state = tx[c].state /\ tx'[c].held = tx[c].held
        /\ tx'[c].seq = m /\ tx'[c].staged = tx[c].staged
    BY <2>1, <2>2
  <2> QED BY <2>3 DEF m
<1>5. /\ Sure(h2) \subseteq Sure(h) /\ Counted(h2, n + 1)
      /\ h.kept # {} => NextToAFailure(h2, n + 1)
  <2> DEFINE got == {}
  <2>1. got \in SUBSET {<< n, op >>} /\ h2.kept = h.kept \cup got BY <1>2
  <2>2. Sure(h) \cup got = Sure(h) /\ got = {} OBVIOUS
  <2> HIDE DEF n, h, h2, got
  <2> QED BY <1>2, <1>3, <2>1, <2>2, AnAttemptSavesNothing
<1>6. Going(c)' BY <1>3, <1>4 DEF Going
<1>7. CASE seen[c].kept = {}
  <2>1. ~ tx[c].held BY <1>3, <1>7 DEF GoesOn
  <2>2. seen'[c].kept = {} /\ ~ tx'[c].held BY <1>2, <1>4, <1>7, <2>1
  <2>3. GoesOn(c)' BY <1>4, <1>5, <2>2 DEF GoesOn
  <2> QED BY <1>2, <1>6, <2>2, <2>3 DEF BatchOf
<1>8. CASE seen[c].kept # {}
  <2>1. lines' = lines \/ lines' = Appended(Base(c), part) BY <1>1 DEF StageCut, Write
  <2>2. /\ HoldsTheBatch(lines', h2.tried, Sure(h))
        /\ lines' # << >> /\ Below(lines', n + 1)
        /\ OneSeparator(lines) => OneSeparator(lines')
    BY <1>2, <1>3, <1>8, <2>1, AttemptGrowsTheLog
  <2>3. HoldsTheBatch(lines', h2.tried, Sure(h2))
    <3> HIDE DEF h, h2
    <3>1. h2.tried \subseteq h2.tried OBVIOUS
    <3> QED BY <1>5, <2>2, <3>1, MoreTriedLessKept
  <2>4. h.shut = {} => OneSeparator(lines) BY <1>3, <1>8 DEF GoesOn, TakesMore
  <2>5. TakesMore(c)' BY <1>2, <1>4, <1>5, <1>8, <2>2, <2>4 DEF TakesMore
  <2> HIDE DEF n, h
  <2>6. GoesOn(c)' BY <1>2, <1>3, <1>4, <1>5, <1>8, <2>5 DEF GoesOn, h
  <2> QED BY <1>2, <1>6, <2>3, <2>6 DEF BatchOf
<1> QED BY <1>7, <1>8

\* A client that dies inside append leaves what it had, and perhaps one more
\* line that no reader takes or an entry it attempted.
LEMMA CrashedStageKeepsBatch ==
  ASSUME TypeOK, LockInv, BatchInv, NEW c \in Client, NEW op \in Op, StageCrashes(c, op)
  PROVE  BatchInv'
<1> SUFFICES ASSUME NEW d \in Client, Unseen(d)' PROVE BatchOf(d)'
  BY DEF BatchInv
<1> DEFINE n  == tx[c].seq
           h  == seen[c]
           h2 == seen'[c]
<1>1. PICK part \in Partly(Logging(c, op)) :
        /\ StageCut(c, op, part)
        /\ tx' = [tx EXCEPT ![c].state = "Crashed"]
        /\ returned' = [returned EXCEPT ![c] = << >>]
        /\ Tried(c, op, {})
  BY DEF StageCrashes
<1>2. /\ d = c /\ Unseen(c) /\ h2.tried = h.tried \cup {<< n, op >>}
      /\ h2.kept = h.kept /\ h2.shut = h.shut
  <2> DEFINE got == {}
  <2>1. Tried(c, op, got) BY <1>1
  <2> HIDE DEF got
  <2>2. /\ d = c /\ Unseen(c) /\ seen'[c].tried = seen[c].tried \cup {<< tx[c].seq, op >>}
        /\ seen'[c].kept = seen[c].kept \cup got /\ seen'[c].shut = seen[c].shut
    BY <2>1, TriedBatch
  <2> QED BY <2>2 DEF got
<1>3. BatchOf(c) /\ Going(c) /\ GoesOn(c) /\ n \in Nat /\ Counted(h, n)
  <2>1. Going(c) BY <1>1 DEF StageCut, CanStage, Going
  <2> QED BY <1>2, <2>1 DEF BatchInv, BatchOf, TypeOK, GoesOn
<1>4. ~ Going(c)' /\ returned'[c] = << >>
  <2>1. tx'[c].state = "Crashed" BY <1>1, CrashedHandle DEF LockInv
  <2>2. returned'[c] = << >> BY <1>1 DEF TypeOK
  <2> QED BY <2>1, <2>2 DEF Going
<1>5. Sure(h2) \subseteq Sure(h)
  <2> DEFINE got == {}
  <2>1. got \in SUBSET {<< n, op >>} /\ h2.kept = h.kept \cup got BY <1>2
  <2>2. Sure(h) \cup got = Sure(h) OBVIOUS
  <2> HIDE DEF n, h, h2, got
  <2> QED BY <1>2, <1>3, <2>1, <2>2, AnAttemptSavesNothing
<1>6. ASSUME seen[c].kept # {} PROVE HoldsTheBatch(lines', h2.tried, Sure(h2))
  <2>1. lines' = lines \/ lines' = Appended(Base(c), part) BY <1>1 DEF StageCut, Write
  <2>2. HoldsTheBatch(lines', h2.tried, Sure(h))
    BY <1>2, <1>3, <1>6, <2>1, AttemptGrowsTheLog
  <2> HIDE DEF h, h2
  <2>3. h2.tried \subseteq h2.tried OBVIOUS
  <2> QED BY <1>5, <2>2, <2>3, MoreTriedLessKept
<1> QED BY <1>2, <1>4, <1>6 DEF BatchOf

LEMMA BeginKeepsBatch ==
  ASSUME TypeOK, LockInv, BatchInv, NEW c \in Client, Begin(c)
  PROVE  BatchInv'
<1> SUFFICES ASSUME NEW d \in Client, Unseen(d)' PROVE BatchOf(d)'
  BY DEF BatchInv
<1>1. /\ tx' = [tx EXCEPT ![c] = Handle("Started", NextSeq(lines), Scanned(lines) # {}, << >>)]
      /\ seen' = [seen EXCEPT ![c] = History({}, {}, TRUE, ~ exists, {})]
      /\ UNCHANGED << exists, lines, returned >>
  BY DEF Begin
<1>2. CASE d # c
  <2>1. tx'[d] = tx[d] /\ seen'[d] = seen[d] BY <1>1, <1>2 DEF TypeOK
  <2>2. BatchOf(d) BY <2>1 DEF BatchInv, Unseen
  <2> QED BY <1>1, <2>1, <2>2, UnchangedBatch
<1>3. CASE d = c
  <2> DEFINE f == ~ exists  b == (Scanned(lines) # {})  n == NextSeq(lines)
  <2>1. seen'[c] = History({}, {}, TRUE, f, {}) /\ tx'[c] = Handle("Started", n, b, << >>)
    BY <1>1 DEF TypeOK
  <2>2. f => b = FALSE
    <3> SUFFICES ASSUME f PROVE Scanned(lines) = {}
      OBVIOUS
    <3>1. lines = << >> /\ Len(<< >>) = 0 BY DEF TypeOK
    <3>2. 1 .. 0 = {} OBVIOUS
    <3> QED BY <3>1, <3>2 DEF Scanned
  <2> HIDE DEF f, b, n
  <2>3. /\ seen'[c].kept = {} /\ seen'[c].tried = {} /\ seen'[c].shut = {}
        /\ seen'[c].fresh = f /\ tx'[c].held = b
    BY <2>1 DEF History, Handle
  <2>4. ~ tx'[c].held BY <1>3, <2>2, <2>3 DEF Unseen
  <2>5. Counted(seen'[c], tx'[c].seq) BY <2>3 DEF Counted
  <2> QED BY <1>3, <2>3, <2>4, <2>5 DEF BatchOf, GoesOn
<1> QED BY <1>2, <1>3

LEMMA CrashKeepsBatch ==
  ASSUME TypeOK, LockInv, BatchInv, NEW c \in Client, Crash(c)
  PROVE  BatchInv'
<1> SUFFICES ASSUME NEW d \in Client, Unseen(d)' PROVE BatchOf(d)'
  BY DEF BatchInv
<1>1. /\ tx' = [tx EXCEPT ![c].state = "Crashed"] /\ returned' = [returned EXCEPT ![c] = << >>]
      /\ lines' = lines /\ seen' = seen
  BY DEF Crash
<1>2. BatchOf(d) BY <1>1 DEF BatchInv, Unseen
<1>3. CASE d # c
  <2>1. tx'[d] = tx[d] /\ returned'[d] = returned[d] BY <1>1, <1>3 DEF TypeOK
  <2> QED BY <1>1, <1>2, <2>1, UnchangedBatch
<1>4. CASE d = c
  <2>1. tx'[c].state = "Crashed" BY <1>1, CrashedHandle DEF LockInv
  <2>2. returned'[c] = << >> BY <1>1 DEF TypeOK
  <2>3. HoldsTheBatch(lines, seen[c].tried, Sure(seen[c]))'
          = HoldsTheBatch(lines, seen[c].tried, Sure(seen[c]))
    BY <1>1 DEF HoldsTheBatch, InOrder, KeepsAll, Opened, Logged, Sure, MayBeLost,
                NextToAFailure, AfterAHalfCommit
  <2> QED BY <1>1, <1>2, <1>4, <2>1, <2>2, <2>3 DEF BatchOf, Going
<1> QED BY <1>3, <1>4

LEMMA ApplyKeepsBatch ==
  ASSUME TypeOK, BatchInv, NEW c \in Client, Apply(c)
  PROVE  BatchInv'
<1> SUFFICES ASSUME NEW d \in Client, Unseen(d)' PROVE BatchOf(d)'
  BY DEF BatchInv
<1>1. returned' = [returned EXCEPT ![c] = << >>] /\ UNCHANGED << lines, tx, seen >>
  BY DEF Apply
<1>2. BatchOf(d) BY <1>1 DEF BatchInv, Unseen
<1>3. CASE d # c
  <2>1. returned'[d] = returned[d] BY <1>1, <1>3 DEF TypeOK
  <2> QED BY <1>1, <1>2, <2>1, UnchangedBatch
<1>4. CASE d = c
  <2>1. returned'[c] = << >> BY <1>1 DEF TypeOK
  <2>2. /\ HoldsTheBatch(lines, seen[c].tried, Sure(seen[c]))'
             = HoldsTheBatch(lines, seen[c].tried, Sure(seen[c]))
        /\ Counted(seen[c], tx[c].seq)' = Counted(seen[c], tx[c].seq)
        /\ TakesMore(c)' = TakesMore(c)
    BY <1>1 DEF HoldsTheBatch, InOrder, KeepsAll, Opened, Logged, Sure, MayBeLost,
                NextToAFailure, AfterAHalfCommit, Counted, TakesMore, Below, OneSeparator
  <2> QED BY <1>1, <1>2, <1>4, <2>1, <2>2 DEF BatchOf, Going, GoesOn
<1> QED BY <1>3, <1>4

LEMMA EndKeepsBatch ==
  ASSUME TypeOK, LockInv, BatchInv, NEW c \in Client,
         Commit(c) \/ CommitFails(c) \/ CommitCrashes(c) \/ CommitNothing(c) \/ Rollback(c)
  PROVE  BatchInv'
<1> SUFFICES ASSUME NEW d \in Client, Unseen(d)' PROVE BatchOf(d)'
  BY DEF BatchInv
<1>0. lines \in Seq(LogLine) /\ CommitLines \in Partly(CommitLines)
  BY WritesAreTyped, PartsAreTyped DEF TypeOK
<1>1. CASE Commit(c)
  <2>1. d = c /\ Unseen(c) /\ seen'[c] = seen[c]
    <3> DEFINE keep == {c}
    <3>1. Disturb(keep) BY <1>1 DEF Commit
    <3> HIDE DEF keep
    <3>2. d \in keep /\ Unseen(d) /\ seen'[d] = seen[d]
      BY <3>1, DisturbedBatch
    <3> QED BY <3>2 DEF keep
  <2>2. BatchOf(c) /\ Going(c) /\ GoesOn(c)
    BY <1>1, <2>1 DEF BatchInv, BatchOf, Going, Commit, CanCommit
  <2>3. ~ Going(c)'
    <3>1. CASE c \in Managed BY <3>1, <1>1, EndedHandle DEF Commit, LockInv, Going
    <3>2. CASE c \notin Managed BY <3>2, <1>1, EndedHandle DEF Commit, LockInv, Going
    <3> QED BY <3>1, <3>2
  <2>4. lines' = Appended(lines, CommitLines) BY <1>1 DEF Commit, Write
  <2>5. ASSUME seen[c].kept # {} PROVE HoldsTheBatch(lines', seen[c].tried, Sure(seen[c]))
    BY <1>0, <2>2, <2>4, <2>5, ClosingKeepsTheBatch DEF BatchOf
  <2>6. Committed(lines')
    <3>1. CommitLines \in Seq({Separator, CommitMarker}) /\ Len(CommitLines) = 2
          /\ CommitLines[2] = CommitMarker
      BY DEF CommitLines
    <3>2. \A j \in 2 .. Len(CommitLines) :
            \E i \in 1 .. Len(Appended(lines, CommitLines)) :
              Appended(lines, CommitLines)[i] = CommitLines[j]
      <4>1. CommitLines \in Seq(LogLine) BY WritesAreTyped
      <4> QED BY <1>0, <4>1, AppendedLines
    <3>3. \E i \in 1 .. Len(Appended(lines, CommitLines)) :
            Appended(lines, CommitLines)[i] = CommitLines[2]
      <4>1. 2 \in 2 .. Len(CommitLines) BY <3>1
      <4> QED BY <3>2, <4>1
    <3> QED BY <2>4, <3>1, <3>3 DEF Committed, CommitMarker
  <2>7. ASSUME NEW k \in seen[c].kept
        PROVE  \E n \in 1 .. Len(returned'[c]) : returned'[c][n] = k[2]
    <3> DEFINE was == returned[c]  more == tx[c].staged
    <3>1. was \in Seq(Op) /\ more \in Seq(Op) BY DEF TypeOK
    <3>2. returned'[c] = was \o more BY <1>1 DEF Commit, TypeOK
    <3>3. PICK n \in 1 .. Len(more) : more[n] = k[2] BY <2>2, <2>7 DEF GoesOn
    <3> HIDE DEF was, more
    <3>4. /\ Len(was \o more) = Len(was) + Len(more) /\ Len(was) \in Nat /\ Len(more) \in Nat
          /\ (was \o more)[Len(was) + n] = more[n]
      BY <3>1
    <3>5. Len(was) + n \in 1 .. Len(was \o more) BY <3>4
    <3> QED BY <3>2, <3>3, <3>4, <3>5
  <2> QED BY <2>1, <2>3, <2>5, <2>6, <2>7 DEF BatchOf, HandedBack
<1>2. CASE CommitFails(c)
  <2> DEFINE n  == tx[c].seq
             h  == seen[c]
             h2 == seen'[c]
  <2>1. PICK part \in Partly(CommitLines) : Write(Appended(lines, part)) /\ HalfShut(c, part)
    BY <1>2 DEF CommitFails
  <2>2. d = c BY <2>1, NotedHistories DEF HalfShut, LockInv, Unseen
  <2>3. PICK shut : /\ seen'[c] = History(h.tried, h.kept, h.solo, h.fresh, shut)
                    /\ shut = h.shut \cup (IF part = << >> THEN {} ELSE {n})
    BY <2>1, HalfShutHistory DEF LockInv
  <2>4. /\ h2.tried = h.tried /\ h2.kept = h.kept /\ h2.shut = shut /\ Unseen(c)
    BY <2>2, <2>3 DEF History, Unseen
  <2>5. BatchOf(c) /\ Going(c) /\ GoesOn(c) /\ Counted(h, n) /\ n \in Nat /\ lines \in Seq(LogLine)
    BY <1>2, <2>4 DEF BatchInv, BatchOf, Going, GoesOn, CommitFails, CanCommit, TypeOK
  <2>6. lines' = Appended(lines, part) /\ tx' = tx /\ returned' = returned
    BY <1>2, <2>1 DEF CommitFails, Write
  <2>7. part = << >> => lines' = lines
    <3>1. Appended(lines, << >>) = lines \o << >> BY DEF Appended
    <3>2. lines \o << >> = lines BY <1>0
    <3> QED BY <2>6, <3>1, <3>2
  <2>8. h.shut \subseteq shut /\ \A m \in shut : m \in h.shut \/ m = n BY <2>3
  <2> HIDE DEF h, h2, n
  <2>9. Counted(h2, n)
    <3>1. \A m \in h2.shut : m \in Nat /\ m <= n BY <2>4, <2>5, <2>8 DEF Counted
    <3> QED BY <2>4, <2>5, <3>1 DEF Counted
  <2>10. \A i : NextToAFailure(h2, i) <=> NextToAFailure(h, i) BY <2>4 DEF NextToAFailure
  <2>11. Sure(h2) \subseteq Sure(h)
    <3>1. \A i : AfterAHalfCommit(h, i) => AfterAHalfCommit(h2, i)
      BY <2>4, <2>8 DEF AfterAHalfCommit
    <3> QED BY <2>4, <2>10, <3>1 DEF Sure, MayBeLost
  <2>12. Going(c)' BY <2>5, <2>6 DEF Going
  <2>13. CASE seen[c].kept = {}
    <3>1. ~ tx[c].held BY <2>5, <2>13 DEF GoesOn
    <3>2. seen'[c].kept = {} BY <2>4, <2>13 DEF h, h2
    <3>3. GoesOn(c)' BY <2>6, <2>9, <3>1, <3>2 DEF GoesOn, h2, n
    <3> QED BY <2>2, <2>12, <3>2, <3>3 DEF BatchOf
  <2>14. CASE seen[c].kept # {}
    <3>1. /\ HoldsTheBatch(lines, h.tried, Sure(h)) /\ lines # << >> /\ Below(lines, n)
          /\ h.shut = {} => OneSeparator(lines)
          /\ h.shut = {} /\ ~ lines[Len(lines)].ended => NextToAFailure(h, n)
      BY <2>5, <2>14 DEF BatchOf, GoesOn, TakesMore, h, n
    <3>2. /\ HoldsTheBatch(lines', h.tried, Sure(h)) /\ Below(lines', n) /\ lines' # << >>
      BY <2>5, <2>6, <3>1, ClosingKeepsTheBatch
    <3>3. HoldsTheBatch(lines', h2.tried, Sure(h2))
      <4>1. h.tried \subseteq h2.tried BY <2>4
      <4> QED BY <2>11, <3>2, <4>1, MoreTriedLessKept
    <3>4. h2.shut = {} => h.shut = {} /\ lines' = lines BY <2>3, <2>4, <2>7
    <3>5. TakesMore(c)' BY <2>6, <2>10, <3>1, <3>2, <3>4 DEF TakesMore, h2, n
    <3>6. GoesOn(c)'
      <4>1. seen'[c].kept = seen[c].kept BY <2>4 DEF h, h2
      <4> QED BY <2>5, <2>6, <2>9, <2>14, <3>5, <4>1 DEF GoesOn, h2, n
    <3> QED BY <2>2, <2>12, <3>3, <3>6 DEF BatchOf, h2
  <2> QED BY <2>13, <2>14
<1>3. CASE CommitCrashes(c)
  <2>1. d = c /\ Unseen(c) /\ seen'[c] = seen[c]
    <3> DEFINE keep == {c}
    <3>1. Disturb(keep) BY <1>3 DEF CommitCrashes
    <3> HIDE DEF keep
    <3>2. d \in keep /\ Unseen(d) /\ seen'[d] = seen[d]
      BY <3>1, DisturbedBatch
    <3> QED BY <3>2 DEF keep
  <2>2. BatchOf(c) BY <2>1 DEF BatchInv
  <2>3. tx'[c].state = "Crashed" BY <1>3, CrashedHandle DEF CommitCrashes, LockInv
  <2>4. returned'[c] = << >> BY <1>3 DEF CommitCrashes, TypeOK
  <2>5. PICK part \in Partly(CommitLines) : lines' = Appended(lines, part)
    BY <1>3 DEF CommitCrashes, Write
  <2>6. ASSUME seen[c].kept # {} PROVE HoldsTheBatch(lines', seen[c].tried, Sure(seen[c]))
    BY <1>0, <2>2, <2>5, <2>6, ClosingKeepsTheBatch DEF BatchOf
  <2> QED BY <2>1, <2>3, <2>4, <2>6 DEF BatchOf, Going
<1>4. CASE CommitNothing(c) \/ Rollback(c)
  <2> DEFINE keep == {}
  <2>1. Disturb(keep) BY <1>4 DEF CommitNothing, Rollback
  <2>2. d \notin keep OBVIOUS
  <2> HIDE DEF keep
  <2> QED BY <2>1, <2>2, DisturbedBatch
<1> QED BY <1>1, <1>2, <1>3, <1>4

LEMMA CommandKeepsBatch ==
  ASSUME TypeOK, LockInv, BatchInv,
         TxBegin \/ TxCommit \/ TxCommitCrashes \/ TxRollback \/ WalReplay
  PROVE  BatchInv'
<1> SUFFICES ASSUME NEW d \in Client, Unseen(d)' PROVE BatchOf(d)'
  BY DEF BatchInv
<1>1. PICK keep \in {{}, Crashed} : Disturb(keep)
  BY DEF TxBegin, TxCommit, TxCommitCrashes, TxRollback, WalReplay
<1>2. d \in keep /\ Unseen(d) /\ seen'[d] = seen[d]
  BY <1>1, DisturbedBatch
<1>3. tx[d].state = "Crashed" BY <1>1, <1>2 DEF Crashed
<1>4. CASE Disturb({})
  <2> DEFINE none == {}
  <2>1. Disturb(none) /\ d \notin none BY <1>4
  <2> HIDE DEF none
  <2> QED BY <2>1, DisturbedBatch
<1>5. CASE ~ Disturb({})
  <2>1. ~ Committed(lines) /\ \E part \in Partly(CommitLines) : lines' = Appended(lines, part)
    <3>1. CommitLines \in Partly(CommitLines) BY WritesAreTyped, PartsAreTyped
    <3> QED BY <1>5, <3>1
            DEF TxBegin, TxCommit, TxCommitCrashes, TxRollback, WalReplay, Write
  <2>2. tx' = tx /\ returned' = returned
    BY DEF TxBegin, TxCommit, TxCommitCrashes, TxRollback, WalReplay
  <2>3. BatchOf(d) BY <1>2 DEF BatchInv
  <2>4. seen[d].kept = {} \/ returned[d] = << >>
    BY <1>3, <2>1, <2>3 DEF BatchOf, HandedBack, Going
  <2>5. lines \in Seq(LogLine) BY DEF TypeOK
  <2>6. ASSUME seen[d].kept # {} PROVE HoldsTheBatch(lines', seen[d].tried, Sure(seen[d]))
    BY <2>1, <2>3, <2>5, <2>6, ClosingKeepsTheBatch DEF BatchOf
  <2> QED BY <1>2, <1>3, <2>2, <2>4, <2>6 DEF BatchOf, Going
<1> QED BY <1>4, <1>5

LEMMA StepKeepsBatch == TypeOK /\ LockInv /\ BatchInv /\ [Next]_vars => BatchInv'
<1> SUFFICES ASSUME TypeOK, LockInv, BatchInv, [Next]_vars PROVE BatchInv'
  OBVIOUS
<1>1. ASSUME NEW c \in Client, Begin(c) PROVE BatchInv' BY <1>1, BeginKeepsBatch
<1>2. ASSUME NEW c \in Client, NEW op \in Op,
             Stage(c, op) \/ StageFails(c, op) \/ StageCrashes(c, op)
      PROVE  BatchInv'
  BY <1>2, StageKeepsBatch, FailedStageKeepsBatch, CrashedStageKeepsBatch
<1>3. ASSUME NEW c \in Client,
             Commit(c) \/ CommitFails(c) \/ CommitCrashes(c) \/ CommitNothing(c) \/ Rollback(c)
      PROVE  BatchInv'
  BY <1>3, EndKeepsBatch
<1>4. ASSUME NEW c \in Client, Apply(c) PROVE BatchInv' BY <1>4, ApplyKeepsBatch
<1>5. ASSUME NEW c \in Client, Crash(c) PROVE BatchInv' BY <1>5, CrashKeepsBatch
<1>6. CASE TxBegin \/ TxCommit \/ TxCommitCrashes \/ TxRollback \/ WalReplay
  BY <1>6, CommandKeepsBatch
<1>7. CASE UNCHANGED vars
  <2> SUFFICES ASSUME NEW d \in Client, Unseen(d)' PROVE BatchOf(d)'
    BY DEF BatchInv
  <2>1. BatchOf(d) BY <1>7 DEF vars, BatchInv, Unseen
  <2> QED BY <1>7, <2>1, UnchangedBatch DEF vars
<1> QED BY <1>1, <1>2, <1>3, <1>4, <1>5, <1>6, <1>7 DEF Next

LEMMA InitBatch == Init => BatchInv
<1> SUFFICES ASSUME Init, NEW c \in Client PROVE ~ Unseen(c)
  BY DEF BatchInv
<1>1. seen[c] = History({}, {}, FALSE, FALSE, {}) BY DEF Init
<1> QED BY <1>1 DEF Unseen, History

LEMMA InvariantsHold == Spec => [](TypeOK /\ LockInv /\ BatchInv)
<1>1. Init => TypeOK /\ LockInv /\ BatchInv BY InitIsTyped, InitLock, InitBatch
<1>2. TypeOK /\ LockInv /\ BatchInv /\ [Next]_vars => (TypeOK /\ LockInv /\ BatchInv)'
  BY StepIsTyped, StepKeepsLock, StepKeepsBatch
<1> QED BY <1>1, <1>2, PTL DEF Spec

\* A replay reads the lines that keep an operation, and nothing but entries.
LEMMA KeptIsReplayable ==
  ASSUME TypeOK, NEW kept, KeepsAll(lines, kept)
  PROVE  kept \subseteq Replayable
<1> SUFFICES ASSUME NEW k \in kept PROVE k \in Replayable
  OBVIOUS
<1>1. PICK i \in 1 .. Len(lines) :
        lines[i].kind = "entry" /\ Opened(lines, i) /\ Logged(lines, i) = k
  BY DEF KeepsAll
<1>2. Len(lines) \in Nat BY DEF TypeOK
<1>3. 2 \in 1 .. i - 1 BY <1>1, <1>2 DEF Opened
<1>4. SeparatorsBefore(lines, i) = {2} BY <1>1, <1>3 DEF Opened, SeparatorsBefore
<1>5. Cardinality({2}) = 1 BY FS_Singleton
<1> DEFINE before == Cardinality(SeparatorsBefore(lines, i))
<1>6. before = 1 BY <1>4, <1>5
<1> HIDE DEF before
<1>7. before % 2 = 1 BY <1>6
<1>8. ReadAt(lines, i) BY <1>1, <1>7 DEF ReadAt, before
<1>9. i \in ReadEntries(lines) BY <1>1, <1>8 DEF ReadEntries
<1> QED BY <1>1, <1>9 DEF Replayable, Logged

\* However appends and commits of a transaction that nobody came between are cut
\* short, a replay of its log reads every operation stage accepted, in order, and
\* nothing that was not attempted - but for an operation appended right after a
\* failed append, and those staged after a commit that failed half way
\* (Wal::append, Wal::commit, Wal::read_entries).
THEOREM ReplayIsWhole == Spec => []ReplayReadsTheBatch
<1>1. ASSUME TypeOK, BatchInv, NEW c \in Client, Undisturbed(c)
      PROVE  /\ \A k \in seen[c].kept : k \in Replayable \/ MayBeLost(seen[c], k)
             /\ Replayable \subseteq seen[c].tried
             /\ \A i, j \in ReadEntries(lines) : i < j => lines[i].seq < lines[j].seq
  <2>1. InOrder(lines, seen[c].tried) /\ KeepsAll(lines, Sure(seen[c]))
    BY <1>1 DEF BatchInv, BatchOf, Unseen, Undisturbed, HoldsTheBatch
  <2>2. \A i \in ReadEntries(lines) : i \in 1 .. Len(lines) /\ lines[i].kind = "entry"
    BY DEF ReadEntries, ReadAt
  <2>3. \A k \in seen[c].kept : k \in Replayable \/ MayBeLost(seen[c], k)
    <3>1. Sure(seen[c]) \subseteq Replayable BY <1>1, <2>1, KeptIsReplayable
    <3> QED BY <3>1 DEF Sure
  <2>4. Replayable \subseteq seen[c].tried BY <2>1, <2>2 DEF InOrder, Replayable, Logged
  <2>5. ASSUME NEW i \in ReadEntries(lines), NEW j \in ReadEntries(lines), i < j
        PROVE  lines[i].seq < lines[j].seq
    <3>1. Len(lines) \in Nat BY <1>1 DEF TypeOK
    <3>2. i \in 1 .. j - 1 BY <2>2, <2>5, <3>1
    <3> QED BY <2>1, <2>2, <3>2 DEF InOrder
  <2> QED BY <2>3, <2>4, <2>5
<1>2. TypeOK /\ BatchInv => ReplayReadsTheBatch BY <1>1 DEF ReplayReadsTheBatch
<1> QED BY <1>2, InvariantsHold, PTL

\* The caller of such a transaction changes the document only once the log holds
\* the batch, but for what the history says may be lost, and its commit line, and
\* then by the whole batch
\* (Transaction::commit hands the operations back after Wal::commit).
THEOREM LogComesFirst == Spec => WriteAhead
<1> DEFINE Ahead(c) ==
             Undisturbed(c) /\ tx[c].state \notin {"Started", "Staging"}
               /\ applied' # applied /\ returned'[c] # returned[c]
             => /\ Committed(lines)
                /\ \A k \in seen[c].kept :
                     (k \in Replayable \/ MayBeLost(seen[c], k)) /\ k[2] \in applied'
<1>1. ASSUME TypeOK, BatchInv, [Next]_vars, NEW c \in Client,
             Undisturbed(c), tx[c].state \notin {"Started", "Staging"},
             applied' # applied, returned'[c] # returned[c]
      PROVE  /\ Committed(lines)
             /\ \A k \in seen[c].kept :
                     (k \in Replayable \/ MayBeLost(seen[c], k)) /\ k[2] \in applied'
  <2>1. PICK d \in Client : Apply(d)
    BY <1>1 DEF Next, vars, Begin, Stage, StageFails, StageCrashes, Commit, CommitFails,
         CommitCrashes, CommitNothing, Rollback, Crash, TxBegin, TxCommit, TxCommitCrashes,
         TxRollback, WalReplay
  <2>2. d = c BY <1>1, <2>1 DEF Apply, TypeOK
  <2>3. returned[c] # << >> /\ seen[c].kept # {} BY <1>1, <2>1, <2>2 DEF Apply, Undisturbed
  <2>4. HandedBack(c) /\ KeepsAll(lines, Sure(seen[c]))
    BY <1>1, <2>3 DEF BatchInv, BatchOf, Unseen, Undisturbed, Going, HoldsTheBatch
  <2>5. Sure(seen[c]) \subseteq Replayable BY <1>1, <2>4, KeptIsReplayable
  <2>6. \A k \in seen[c].kept : k \in Replayable \/ MayBeLost(seen[c], k) BY <2>5 DEF Sure
  <2>7. applied' = applied \cup {returned[c][n] : n \in 1 .. Len(returned[c])}
    BY <2>1, <2>2 DEF Apply
  <2>8. \A k \in seen[c].kept : k[2] \in applied' BY <2>4, <2>7 DEF HandedBack
  <2> QED BY <2>4, <2>6, <2>8 DEF HandedBack
<1>2. TypeOK /\ BatchInv /\ [Next]_vars => [\A c \in Client : Ahead(c)]_vars BY <1>1
<1>3. Spec => [][\A c \in Client : Ahead(c)]_vars
  <2> HIDE DEF Ahead
  <2> QED BY <1>2, InvariantsHold, PTL DEF Spec
<1> QED BY <1>3 DEF WriteAhead
=============================================================================
