------------------------------ MODULE MCLedger ------------------------------
(* Small instances of Ledger. *)
EXTENDS Ledger, TLC

CONSTANTS w1, w2, f1, f2

Threads == Permutations(Writers) \cup Permutations(Flushers)

=============================================================================
