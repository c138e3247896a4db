------------------------------ MODULE MCNative ------------------------------
(* The engine with three jobs and room for two of them. *)
EXTENDS Native

MCThousandths == -25..25
MCRatioLists == UNION {[1..n -> {-1, 0, 1, 2, 3}] : n \in 0..3}
MCPrices == {-250, 0, 7, 99, 250, 999, 1003}

=============================================================================
