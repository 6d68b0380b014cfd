---------------------------- MODULE Transactions ----------------------------
(***************************************************************************)
(* Transactions on one document (transaction.rs over wal.rs): handles held *)
(* by several processes, the `tx` and `wal-replay` commands, each a        *)
(* process of its own (main.rs), and writes that a crash or an I/O error   *)
(* cuts short.  Nothing locks the log: a handle knows what it read when it *)
(* was opened and what it did since.                                       *)
(*                                                                         *)
(* A handle stages operations, each logged as it is staged; commit marks   *)
(* the log and hands the operations back to the caller, who applies them   *)
(* to the document in a later step.                                        *)
(***************************************************************************)
EXTENDS WalFile

CONSTANTS
  Client,     \* processes that use the library
  Managed,    \* those that go through a TransactionManager
  MaxBegins,  \* bound on the transactions begun
  MaxOps,     \* bound on the operations a transaction of each client attempts
  MaxCuts     \* bound on the writes that stop half way

ASSUME TransactionAssumption ==
  /\ Managed \subseteq Client
  /\ MaxBegins \in Nat
  /\ MaxOps \in [Client -> Nat]
  /\ MaxCuts \in Nat

VARIABLES
  exists,    \* the log file exists
  lines,     \* its lines; none when it does not exist
  tx,        \* the handle of each client
  returned,  \* operations a commit handed back, not applied yet
  applied,   \* operations applied to the document
  begins,    \* transactions begun so far
  cuts,      \* writes that stopped half way so far
  seen       \* history of each transaction, for the bounds and the properties

vars == << exists, lines, tx, returned, applied, begins, cuts, seen >>

Live  == {"Started", "Staging", "Committed", "RolledBack"}
State == Live \cup {"None", "Crashed"}

\* held: wal.entries is not empty.  staged: the operations, in order.
Handle(state, seq, held, staged) ==
  [state |-> state, seq |-> seq, held |-> held, staged |-> staged]

NoHandle == Handle("None", 1, FALSE, << >>)

\* tried: the numbered operations the transaction attempted to log; kept: those
\* stage accepted.  solo: nobody else wrote the log.  fresh: it found no log.
\* shut: the next numbers when commits of its own failed after writing something.
History(tried, kept, solo, fresh, shut) ==
  [tried |-> tried, kept |-> kept, solo |-> solo, fresh |-> fresh, shut |-> shut]

Held(c) == tx[c].state \in Live

(***************************************************************************)
(* What the file becomes.                                                  *)
(***************************************************************************)
Cut         == cuts < MaxCuts /\ cuts' = cuts + 1
Write(file) == exists' = TRUE /\ lines' = file
Remove      == exists' = FALSE /\ lines' = << >>

\* Everyone but the clients in keep has had the log changed under them.
Disturb(keep) ==
  seen' = [c \in Client |-> [seen[c] EXCEPT !.solo = @ /\ c \in keep]]

(***************************************************************************)
(* transaction.rs.                                                         *)
(***************************************************************************)
\* Mutant: a log left by somebody else does not stop begin.
BeginOverAnother(c) ==
  /\ begins < MaxBegins
  /\ IF c \in Managed THEN ~ Held(c) ELSE TRUE
  /\ tx' = [tx EXCEPT ![c] = Handle("Started", NextSeq(lines), Scanned(lines) # {}, << >>)]
  /\ seen' = [seen EXCEPT ![c] = History({}, {}, TRUE, ~ exists, {})]
  /\ begins' = begins + 1
  /\ UNCHANGED << exists, lines, returned, applied, cuts >>

\* Transaction::begin looks at the log and writes nothing.
Begin(c) ==
  /\ begins < MaxBegins
  /\ IF c \in Managed THEN ~ Held(c) ELSE TRUE
  /\ exists => Committed(lines)
  /\ tx' = [tx EXCEPT ![c] = Handle("Started", NextSeq(lines), Scanned(lines) # {}, << >>)]
  /\ seen' = [seen EXCEPT ![c] = History({}, {}, TRUE, ~ exists, {})]
  /\ begins' = begins + 1
  /\ UNCHANGED << exists, lines, returned, applied, cuts >>

CanStage(c) ==
  /\ tx[c].state \in {"Started", "Staging"}
  /\ Cardinality(seen[c].tried) < MaxOps[c]

\* Mutant: the log is opened with truncate instead of append.
BaseTruncated(c) == << >>

\* Wal::append rewrites the header when it has no entry in memory.
Base(c)        == IF tx[c].held THEN lines ELSE << >>
Logging(c, op) ==
  (IF tx[c].held THEN << >> ELSE Header) \o << Entry(tx[c].seq, op) >>

\* c has written to the log.
Noted(c, history) ==
  seen' = [d \in Client |-> IF d = c THEN history ELSE [seen[d] EXCEPT !.solo = FALSE]]

\* kept: the attempt, if it succeeded.
Tried(c, op, kept) ==
  Noted(c, [seen[c] EXCEPT !.tried = @ \cup {<< tx[c].seq, op >>}, !.kept = @ \cup kept])

\* Mutant: append does not push the entry it has written.
StageUnpushed(c, op) ==
  /\ CanStage(c)
  /\ Write(Appended(Base(c), Logging(c, op)))
  /\ tx' = [tx EXCEPT ![c] = Handle("Staging", @.seq + 1, FALSE, Append(@.staged, op))]
  /\ Tried(c, op, {<< tx[c].seq, op >>})
  /\ UNCHANGED << returned, applied, begins, cuts >>

Stage(c, op) ==
  /\ CanStage(c)
  /\ Write(Appended(Base(c), Logging(c, op)))
  /\ tx' = [tx EXCEPT ![c] = Handle("Staging", @.seq + 1, TRUE, Append(@.staged, op))]
  /\ Tried(c, op, {<< tx[c].seq, op >>})
  /\ UNCHANGED << returned, applied, begins, cuts >>

\* An append that stopped after part of its text, or could not open the log.
StageCut(c, op, part) ==
  /\ CanStage(c)
  /\ Cut
  /\ \/ Write(Appended(Base(c), part))
     \/ part = << >> /\ UNCHANGED << exists, lines >>

\* append returns the error: the number is spent, the handle stays as it was.
StageFails(c, op) ==
  \E part \in Partly(Logging(c, op)) :
    /\ StageCut(c, op, part)
    /\ tx' = [tx EXCEPT ![c].seq = @ + 1]
    /\ Tried(c, op, {})
    /\ UNCHANGED << returned, applied, begins >>

\* The process dies inside append.
StageCrashes(c, op) ==
  \E part \in Partly(Logging(c, op)) :
    /\ StageCut(c, op, part)
    /\ tx' = [tx EXCEPT ![c].state = "Crashed"]
    /\ returned' = [returned EXCEPT ![c] = << >>]
    /\ Tried(c, op, {})
    /\ UNCHANGED << applied, begins >>

\* Mutant: the log is closed without its commit line.
CommitLinesUnmarked == << Separator >>

CommitLines == << Separator, CommitMarker >>

\* Wal::commit opens the log without creating it.
CanCommit(c) ==
  /\ tx[c].staged # << >>
  /\ tx[c].state \in {"Started", "Staging"}
  /\ exists

Commit(c) ==
  /\ CanCommit(c)
  /\ Write(Appended(lines, CommitLines))
  /\ tx' = [tx EXCEPT ![c] = IF c \in Managed
                             THEN NoHandle
                             ELSE [@ EXCEPT !.state = "Committed"]]
  /\ returned' = [returned EXCEPT ![c] = @ \o tx[c].staged]
  /\ Disturb({c})
  /\ UNCHANGED << applied, begins, cuts >>

\* c's commit has written part of its lines and failed.
HalfShut(c, part) ==
  Noted(c, IF part = << >> THEN seen[c] ELSE [seen[c] EXCEPT !.shut = @ \cup {tx[c].seq}])

\* commit returns the error, and the handle can go on as it was.
CommitFails(c) ==
  /\ CanCommit(c)
  /\ Cut
  /\ \E part \in Partly(CommitLines) : Write(Appended(lines, part)) /\ HalfShut(c, part)
  /\ UNCHANGED << tx, returned, applied, begins >>

CommitCrashes(c) ==
  /\ CanCommit(c)
  /\ Cut
  /\ \E part \in Partly(CommitLines) : Write(Appended(lines, part))
  /\ tx' = [tx EXCEPT ![c].state = "Crashed"]
  /\ returned' = [returned EXCEPT ![c] = << >>]
  /\ Disturb({c})
  /\ UNCHANGED << applied, begins >>

\* With nothing staged, commit ends any transaction and removes any log.
CommitNothing(c) ==
  /\ Held(c)
  /\ tx[c].staged = << >>
  /\ Remove
  /\ tx' = [tx EXCEPT ![c] = IF c \in Managed
                             THEN NoHandle
                             ELSE [@ EXCEPT !.state = "Committed"]]
  /\ Disturb({})
  /\ UNCHANGED << returned, applied, begins, cuts >>

\* rollback does not look at the state: after a commit it removes the log too.
Rollback(c) ==
  /\ Held(c)
  /\ Remove
  /\ tx' = [tx EXCEPT ![c] = IF c \in Managed
                             THEN NoHandle
                             ELSE Handle("RolledBack", @.seq, FALSE, << >>)]
  /\ Disturb({})
  /\ UNCHANGED << returned, applied, begins, cuts >>

(***************************************************************************)
(* The callers, and the commands of main.rs.                               *)
(***************************************************************************)
Apply(c) ==
  /\ returned[c] # << >>
  /\ applied' = applied \cup {returned[c][n] : n \in 1 .. Len(returned[c])}
  /\ returned' = [returned EXCEPT ![c] = << >>]
  /\ UNCHANGED << exists, lines, tx, begins, cuts, seen >>

Crash(c) ==
  /\ Held(c) \/ returned[c] # << >>
  /\ tx' = [tx EXCEPT ![c].state = "Crashed"]
  /\ returned' = [returned EXCEPT ![c] = << >>]
  /\ UNCHANGED << exists, lines, applied, begins, cuts, seen >>

Crashed == {c \in Client : tx[c].state = "Crashed"}

\* `tx begin`: Wal::begin_session.
TxBegin ==
  /\ begins < MaxBegins
  /\ exists => Committed(lines)
  /\ Write(Header)
  /\ begins' = begins + 1
  /\ Disturb({})
  /\ UNCHANGED << tx, returned, applied, cuts >>

\* `tx commit`: on a log without entries Wal::commit removes it.
TxCommit ==
  /\ exists
  /\ ~ Committed(lines)
  /\ IF Scanned(lines) = {}
     THEN Remove /\ Disturb({})
     ELSE Write(Appended(lines, CommitLines)) /\ Disturb(Crashed)
  /\ UNCHANGED << tx, returned, applied, begins, cuts >>

TxCommitCrashes ==
  /\ exists
  /\ ~ Committed(lines)
  /\ Cut
  /\ Scanned(lines) # {}
  /\ \E part \in Partly(CommitLines) : Write(Appended(lines, part))
  /\ Disturb(Crashed)
  /\ UNCHANGED << tx, returned, applied, begins >>

TxRollback ==
  /\ exists
  /\ ~ Committed(lines)
  /\ Remove
  /\ Disturb({})
  /\ UNCHANGED << tx, returned, applied, begins, cuts >>

\* `wal-replay --apply` lists the entries and removes the log.
WalReplay ==
  /\ exists
  /\ ReadEntries(lines) # {}
  /\ Remove
  /\ Disturb({})
  /\ UNCHANGED << tx, returned, applied, begins, cuts >>

Init ==
  /\ exists = FALSE
  /\ lines = << >>
  /\ tx = [c \in Client |-> NoHandle]
  /\ returned = [c \in Client |-> << >>]
  /\ applied = {}
  /\ begins = 0 /\ cuts = 0
  /\ seen = [c \in Client |-> History({}, {}, FALSE, FALSE, {})]

Next ==
  \/ \E c \in Client :
        \/ Begin(c) \/ Commit(c) \/ CommitFails(c) \/ CommitCrashes(c)
        \/ CommitNothing(c) \/ Rollback(c) \/ Apply(c) \/ Crash(c)
  \/ \E c \in Client, op \in Op :
        Stage(c, op) \/ StageFails(c, op) \/ StageCrashes(c, op)
  \/ TxBegin \/ TxCommit \/ TxCommitCrashes \/ TxRollback \/ WalReplay

Spec == Init /\ [][Next]_vars

(***************************************************************************)
(* Properties.                                                             *)
(***************************************************************************)
\* A handle that has staged something has an entry in memory, so that its next
\* append does not rewrite the header over the log.
TypeOK ==
  /\ exists \in BOOLEAN
  /\ lines \in Seq(LogLine) /\ (~ exists => lines = << >>)
  /\ tx \in [Client -> [state : State, seq : Nat, held : BOOLEAN, staged : Seq(Op)]]
  /\ \A c \in Client : tx[c].staged # << >> => tx[c].held
  /\ returned \in [Client -> Seq(Op)]
  /\ applied \subseteq Op
  /\ begins \in 0 .. MaxBegins /\ cuts \in 0 .. MaxCuts
  /\ seen \in [Client -> [tried : SUBSET (Nat \X Op), kept : SUBSET (Nat \X Op),
                         solo : BOOLEAN, fresh : BOOLEAN, shut : SUBSET Nat]]

\* The transaction of c started on a clean slate and nobody has come between.
Undisturbed(c) == seen[c].solo /\ seen[c].fresh /\ seen[c].kept # {}

\* A failed append may leave its line torn in the log, and a handle with entries
\* in memory does not write a new header: what it appends next lands on that line
\* (wal.rs append).
NextToAFailure(h, n) ==
  \E f \in h.tried \ h.kept, e \in h.kept : f[1] + 1 = n /\ e[1] < f[1]

\* What is staged after a commit that got half way is below a second separator
\* (wal.rs commit, read_entries).
AfterAHalfCommit(h, n) == \E m \in h.shut : m <= n

\* Of the history h, the accepted operations that the log need not give back.
MayBeLost(h, k) == NextToAFailure(h, k[1]) \/ AfterAHalfCommit(h, k[1])

Replayable == {<< lines[i].seq, lines[i].op >> : i \in ReadEntries(lines)}

\* Through crashes inside any write, `tx commit` after them, failed appends and
\* failed commits: a replay reads every operation stage accepted, in order, each
\* once, and nothing the transaction did not at least attempt - but for two kinds
\* of accepted operation that the code does lose: the one appended right after a
\* failed append, and those staged after a commit that failed half way.  Whatever
\* was accepted before, or later than the one on the torn line, stays readable
\* (wal.rs append, commit, read_entries).
ReplayReadsTheBatch ==
  \A c \in Client : Undisturbed(c) =>
    /\ \A k \in seen[c].kept : k \in Replayable \/ MayBeLost(seen[c], k)
    /\ Replayable \subseteq seen[c].tried
    /\ \A i, j \in ReadEntries(lines) : i < j => lines[i].seq < lines[j].seq

\* While such a transaction is staging, no other one begins: neither a handle
\* (Transaction::begin) nor a session (Wal::begin_session).  Half of a commit may
\* have marked the log committed, which opens it to others.
StagingLocksOthersOut ==
  [][(\E c \in Client :
         Undisturbed(c) /\ tx[c].state = "Staging" /\ seen[c].shut = {})
       => begins' = begins]_vars

\* The document changes only after the log of the batch is marked committed and
\* complete, but for what MayBeLost, and then by the whole batch.  (A handle whose
\* next transaction is already staging may still hold operations of one rolled
\* back after its commit.)
WriteAhead ==
  [][\A c \in Client :
       Undisturbed(c) /\ tx[c].state \notin {"Started", "Staging"}
         /\ applied' # applied /\ returned'[c] # returned[c]
       => /\ Committed(lines)
          /\ \A k \in seen[c].kept :
               (k \in Replayable \/ MayBeLost(seen[c], k)) /\ k[2] \in applied']_vars

\* docs/ARCHITECTURE.md on the state Staging: "Operations staged, WAL logged";
\* wal.rs on read_entries: "Read and return all entries from the WAL file (for
\* replay/inspection)".  Neither asks for the absence of an older, committed log.
StagedIsReplayable ==
  \A c \in Client : tx[c].state = "Staging" /\ seen[c].solo
                     => seen[c].kept \subseteq Replayable
=============================================================================
