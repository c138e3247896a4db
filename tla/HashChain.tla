------------------------------ MODULE HashChain ------------------------------
(***************************************************************************)
(* What the ledger of RFC-007 promises: one append-only sequence of        *)
(* blocks, each chained to the block before it, the first to GENESIS.      *)
(***************************************************************************)
EXTENDS Integers, Sequences

CONSTANTS Ids,      \* block ids
          GENESIS   \* previous_hash of the first block

VARIABLE chain

\* The hash of a block is identified with its id: ids are unique, SHA-256 injective.
Tip(c) == IF c = <<>> THEN GENESIS ELSE c[Len(c)].id

Init == chain = <<>>

Extend(id) ==
    /\ \A i \in 1..Len(chain) : chain[i].id # id
    /\ chain' = Append(chain, [id |-> id, previous_hash |-> Tip(chain)])

Next == \E id \in Ids : Extend(id)

Spec == Init /\ [][Next]_chain

=============================================================================
