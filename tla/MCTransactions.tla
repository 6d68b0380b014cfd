--------------------------- MODULE MCTransactions ---------------------------
(***************************************************************************)
(* Two clients, one of them behind a TransactionManager, and two           *)
(* operations that differ only in what they say.                           *)
(***************************************************************************)
EXTENDS Transactions, TLC

CONSTANTS alice, bob, x, y

MCClient  == {alice, bob}
MCManaged == {bob}
MCOp      == {x, y}

\* Three attempts are what an operation accepted after a failed one takes.
MCMaxOps  == (alice :> 3) @@ (bob :> 1)
TwoEach   == (alice :> 2) @@ (bob :> 2)

\* Operations are interchangeable; the clients are not.
Symmetry == Permutations(MCOp)
=============================================================================
