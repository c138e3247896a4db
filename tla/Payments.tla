------------------------------ MODULE Payments ------------------------------
(***************************************************************************)
(* The payment providers of packages/commerce (src/providers) and the      *)
(* endpoint that receives their notifications: verifyWebhookSignature,     *)
(* parseWebhookEvent and then processWebhook of Webhooks, as the webhook   *)
(* handler that the CLI generates does it.                                 *)
(*                                                                         *)
(* A notification is what a provider posts about a payment: [provider, id, *)
(* payment, status, signed, intact].  id is the event id in its body       *)
(* (NoValue if there is none), signed a list of key=value pairs that holds *)
(* its signatures, each by the secret it was made with, and intact says    *)
(* whether the body is the one that was signed.                            *)
(***************************************************************************)
EXTENDS Webhooks, Money

CONSTANTS
    Mixes,          \* bound: the sets of notifications that are delivered in one behaviour
    Tolerance,      \* webhookToleranceSeconds, in clock ticks; 0 disables the check
    Payments,       \* payment references
    NoValue,
    Amounts         \* amounts that are charged, in thousandths of a unit

Notifications == UNION Mixes

ASSUME PaymentAssumption ==
    /\ Tolerance \in Nat /\ Amounts \subseteq Int
    /\ Providers \subseteq {"stripe", "payfast", "ozow"}
    /\ EventIds = ({n.id : n \in Notifications} \ {NoValue}) \cup Payments \cup Deliveries

\* What the code relies on: an id that Stripe or Ozow gives is that of one event, and
\* the random ids, one per delivery, are nobody else's.
ASSUME NotificationAssumption ==
    /\ \A n \in Notifications :
          n.provider \in {"stripe", "payfast", "ozow"} /\ n.payment \in Payments \cup {NoValue}
    /\ Deliveries \cap ({n.id : n \in Notifications} \cup Payments \cup {NoValue}) = {}
    /\ \A m, n \in {x \in Notifications : x.provider # "payfast"} :
          m.id = n.id /\ m.id # NoValue =>
              m.provider = n.provider /\ m.payment = n.payment /\ m.status = n.status

VARIABLES
    note,       \* the notification that each delivery brings
    rejected    \* the deliveries whose signature was not accepted

paymentVars == <<now, cache, handlers, event, delivery, known, note, rejected>>

-----------------------------------------------------------------------------
(* Signatures *)

\* Whether the digest made with this secret is the expected one: that of the body as
\* it was received, under the configured secret.
timingSafeEqualHex(secret, n) == secret = "configured" /\ n.intact

\* The parts of a list of key=value pairs that have the key and a value.
PartsOf(pairs, key) == SelectSeq(pairs, LAMBDA p : p[1] = key /\ p[2] # NoValue)

\* Parts without a value are skipped; the last t counts and every v1.
parseStripeSignatureHeader(pairs) ==
    LET times == PartsOf(pairs, "t")
        v1 == PartsOf(pairs, "v1")
    IN  [ timestamp  |-> IF times = <<>> THEN NoValue ELSE times[Len(times)][2],
          signatures |-> {v1[i][2] : i \in DOMAIN v1} ]

\* A plausible bug: the age of a signature is not looked at.
verifyStripe_NoAge(n) ==
    \E s \in parseStripeSignatureHeader(n.signed).signatures : timingSafeEqualHex(s, n)

\* The clocks may differ either way.
verifyStripe(n) ==
    LET header == parseStripeSignatureHeader(n.signed)
    IN  /\ header.timestamp # NoValue
        /\ Tolerance > 0 => /\ header.timestamp \in Int   \* Number.isFinite
                            /\ now - header.timestamp <= Tolerance
                            /\ header.timestamp - now <= Tolerance
        /\ \E s \in header.signatures : timingSafeEqualHex(s, n)

\* The signature is an argument, or else the first such field of the form.  The string
\* that is signed leaves that field out.
verifyPayFast(n) ==
    LET given == PartsOf(n.signed, "argument") \o PartsOf(n.signed, "signature")
    IN  given # <<>> /\ timingSafeEqualHex(given[1][2], n)

\* The signature is the hash header.
verifyOzow(n) ==
    LET given == PartsOf(n.signed, "hash")
    IN  given # <<>> /\ timingSafeEqualHex(given[1][2], n)

verifyWebhookSignature(n) ==
    CASE n.provider = "stripe"  -> verifyStripe(n)
      [] n.provider = "payfast" -> verifyPayFast(n)
      [] n.provider = "ozow"    -> verifyOzow(n)

-----------------------------------------------------------------------------
(* Events *)

\* Random bytes: one id per delivery.
generateIdempotencyKey(d) == d
generateTransactionId(d) == d

Or(value, default) == IF value # NoValue THEN value ELSE default

parseStripe(n, d) ==
    [ type |-> n.status, eventId |-> Or(n.id, generateIdempotencyKey(d)), provider |-> "stripe" ]

\* The form names the payment, not the notification.
parsePayFast(n, d) ==
    [ type     |-> IF n.status = "complete" THEN "payment.completed" ELSE "payment.failed",
      eventId  |-> Or(n.payment, generateTransactionId(d)),
      provider |-> "payfast" ]

\* A plausible bug: Ozow's events, too, are known by their payment.
parseOzow_Payment(n, d) == [type |-> "payment.completed", eventId |-> n.payment, provider |-> "ozow"]

parseOzow(n, d) ==
    [ type     |-> IF n.status = "complete" THEN "payment.completed" ELSE "payment.pending",
      eventId  |-> Or(n.id, generateTransactionId(d)),
      provider |-> "ozow" ]

parseWebhookEvent(n, d) ==
    CASE n.provider = "stripe"  -> parseStripe(n, d)
      [] n.provider = "payfast" -> parsePayFast(n, d)
      [] n.provider = "ozow"    -> parseOzow(n, d)

-----------------------------------------------------------------------------
(* Charges: the status and the amount that the rawResponse states *)

\* A plausible bug: Stripe, too, is told minor units over one hundred.
stripeCharge_Hundredths(x, c) == [status |-> "SUCCEEDED", amount |-> Dec(toMinorUnits(x, c), 2)]

\* A number of minor units of the currency.
stripeCharge(x, c) ==
    [status |-> "SUCCEEDED", amount |-> Dec(toMinorUnits(x, c), getCurrencyDecimals(c))]

payfastCharge(x, c) == [status |-> "SUCCEEDED", amount |-> displayed(x, c)]

\* minorUnits / 100
ozowCharge(x, c) ==
    [status |-> "PENDING_BANK_RECONCILIATION", amount |-> Dec(toMinorUnits(x, c), 2)]

charge(provider, x, c) ==
    CASE provider = "stripe"  -> stripeCharge(x, c)
      [] provider = "payfast" -> payfastCharge(x, c)
      [] provider = "ozow"    -> ozowCharge(x, c)

-----------------------------------------------------------------------------

PaymentInit ==
    /\ Init
    /\ \E mix \in Mixes : note \in [Deliveries -> mix]
    /\ event = [d \in Deliveries |-> LET e == parseWebhookEvent(note[d], d)
                                     IN  [eventId |-> e.eventId, provider |-> e.provider]]
    /\ rejected = {}

\* The endpoint: verifying and parsing await nothing but themselves, so that they and
\* the duplicate check happen in the same turn of the event loop.
Receive(d) ==
    /\ d \notin rejected
    /\ \/ verifyWebhookSignature(note[d]) /\ processWebhook(d) /\ UNCHANGED rejected
       \/ /\ ~verifyWebhookSignature(note[d])
          /\ delivery[d].status = "unsent"
          /\ rejected' = rejected \cup {d}
          /\ UNCHANGED vars
    /\ UNCHANGED note

PaymentNext ==
    \/ \E d \in Deliveries : Receive(d)
    \/ /\ \/ \E p \in Providers : handle(p)
          \/ \E d \in Deliveries : HandlerResolves(d) \/ HandlerRejects(d)
          \/ clearWebhookCache
          \/ Tick
       /\ UNCHANGED <<note, rejected>>

PaymentSpec == PaymentInit /\ [][PaymentNext]_paymentVars

-----------------------------------------------------------------------------
(* Properties *)

(***************************************************************************)
(* A Stripe notification that was handled is never handled again, however  *)
(* late it is replayed: while the cache remembers it the replay is a       *)
(* duplicate, and by the time the cache forgets it its signature is too    *)
(* old.  The cache's TTL has to outlast the tolerance on both sides.       *)
(***************************************************************************)
StripeReplaysAreIgnored ==
    (0 < Tolerance /\ 2 * Tolerance < DEFAULT_TTL) =>
        \A d \in Deliveries, c \in Deliveries :
            (c \in known[d] /\ note[c] = note[d] /\ note[d].provider = "stripe")
              => delivery[d].status = "duplicate"

\* The type that the handler of a delivery is given.
TypeGiven(d) == parseWebhookEvent(note[d], d).type

(***************************************************************************)
(* What the endpoint drops as a duplicate it has seen: with Stripe and     *)
(* Ozow the very event, unless another provider uses its id for a payment; *)
(* with PayFast, whose event id is the payment's, only the payment: a      *)
(* COMPLETE that follows a PENDING of the payment is dropped.              *)
(***************************************************************************)
DropsOnlyWhatWasSeen ==
    \A d \in Deliveries : delivery[d].status = "duplicate" =>
        \E c \in known[d] :
            \/ /\ note[c].provider = note[d].provider
               /\ note[c].payment = note[d].payment
               /\ note[d].provider # "payfast"
                    => TypeGiven(c) = TypeGiven(d) /\ note[c].id = note[d].id
            \/ note[c].provider = "payfast" /\ note[c].payment = event[d].eventId
            \/ note[d].provider = "payfast" /\ note[d].payment = event[c].eventId

(***************************************************************************)
(* No event is handled twice by deliveries that do not overlap: not within *)
(* the TTL, and with Stripe not after it either.                           *)
(***************************************************************************)
NothingHandledTwice == HandledAgainOnlyAfterTTL /\ StripeReplaysAreIgnored

(***************************************************************************)
(* No event is dropped for nothing: what is answered as a duplicate was    *)
(* handled to the end, less than a TTL ago, and was the same event.        *)
(***************************************************************************)
DropsAreJustified == TypeOK /\ DuplicateOnlyAfterSuccess /\ DropsOnlyWhatWasSeen

(***************************************************************************)
(* Every provider tells the amount that Money displays, in every currency; *)
(* Ozow, which is given minor units over one hundred, where the currency   *)
(* has two decimals or the amount is zero.  (The operators are the same in *)
(* every state; TLC evaluates them in those where nothing has happened.)   *)
(***************************************************************************)
ChargesStateTheAmount ==
    (now = 0 /\ handlers = {} /\ rejected = {}) => \A n \in Amounts, c \in {"ZAR", "JPY", "BHD"}, p \in Providers :
        LET x == Dec(n, 3)
        IN  SameValue(charge(p, x, c).amount, displayed(x, c))
              <=> (p = "ozow" => getCurrencyDecimals(c) = 2 \/ toMinorUnits(x, c) = 0)

=============================================================================
