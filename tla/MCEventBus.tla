---------------------------- MODULE MCEventBus ----------------------------
(* Small instances of EventBus. *)
EXTENDS EventBus, TLC

CONSTANTS l1, m1, m2

Zero == {0}
NegativeOrZero == {-1, 0}

=============================================================================
