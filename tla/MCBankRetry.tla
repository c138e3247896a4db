---------------------------- MODULE MCBankRetry ----------------------------
(***************************************************************************)
(* Small instances of BankRetry.  An entry is allocated at most once, so   *)
(* the number of Entries bounds the number of retries started.             *)
(***************************************************************************)
EXTENDS BankRetry, TLC

CONSTANTS p1, p2, e1, e2

=============================================================================
