----------------------------- MODULE MCPayments -----------------------------
(* Small instances of Payments: notifications of one payment. *)
EXTENDS Payments, TLC

CONSTANTS d1, d2, d3, evt1, pay1

Posted(provider, id, status, signed) ==
    [provider |-> provider, id |-> id, payment |-> pay1, status |-> status,
     signed |-> signed, intact |-> TRUE]

Rotated == << <<"t", 1>>, <<"v1", "previous">>, <<"v1", "configured">> >>

\* A Stripe event that is signed with a secret that is being rotated out as well;
\* two states of a payment at PayFast; at Ozow an event without an id and
\* an event whose id is the payment's reference.
Stripe == Posted("stripe", evt1, "complete", Rotated)
PayFastPending == Posted("payfast", NoValue, "pending", << <<"signature", "configured">> >>)
PayFastComplete == Posted("payfast", NoValue, "complete", << <<"argument", "configured">> >>)
OzowNoId == Posted("ozow", NoValue, "complete", << <<"hash", "configured">> >>)
OzowById == Posted("ozow", pay1, "complete", << <<"hash", "configured">> >>)

\* Each provider with itself and with the others.
MCMixes ==
    { {Stripe, PayFastComplete}, {PayFastPending, PayFastComplete}, {OzowNoId, OzowById},
      {PayFastComplete, OzowById}, {Stripe, OzowById} }

MCAmounts == {-1500, 0, 4, 5, 1500, 12345}

Symmetry == Permutations(Deliveries)

=============================================================================
