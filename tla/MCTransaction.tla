--------------------------- MODULE MCTransaction ---------------------------
(* Small instances of Transaction. *)
EXTENDS Transaction

CONSTANTS c1, c2, l1, stripe, payfast, custom

=============================================================================
