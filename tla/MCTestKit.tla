------------------------------ MODULE MCTestKit ------------------------------
(* Three charges around one reset, durations of up to two units. *)
EXTENDS TestKit

MCUnits == [ms |-> 1, s |-> 2]
MCSymmetry == Permutations(Charges)

=============================================================================
