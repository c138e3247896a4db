---------------------------- MODULE PaymentsProofs ----------------------------
(***************************************************************************)
(* Proofs about Webhooks and Payments, for any number of deliveries and    *)
(* events, any TTL and any tolerance.  The cache is shown to remember what *)
(* was handled in Webhooks alone; the endpoint of Payments takes only      *)
(* steps of Webhooks, so what holds of the one holds of the other.         *)
(***************************************************************************)
EXTENDS Payments, TLAPS

-----------------------------------------------------------------------------
(***************************************************************************)
(* The inductive invariant of Webhooks.                                    *)
(*                                                                         *)
(* CacheIsJustified: an entry of the cache is that of a delivery handled   *)
(* to the end that clearWebhookCache has not forgotten.                    *)
(*                                                                         *)
(* CacheRemembers: for every such delivery there is an entry at least as   *)
(* late as its own, unless that has expired: a later delivery of the event *)
(* only makes it later, and eviction removes only what has expired.        *)
(*                                                                         *)
(* KnownWasHandled: what the history keeps of the moment of a duplicate    *)
(* check remains true, also after the cache has been cleared.              *)
(***************************************************************************)
Remembered == {c \in Deliveries : delivery[c].status = "processed" /\ ~delivery[c].forgotten}

ExpiryOf(c) == delivery[c].done + DEFAULT_TTL

CacheIsJustified ==
    \A id \in EventIds : cache[id] # Absent =>
        \E c \in Remembered : event[c].eventId = id /\ cache[id] = ExpiryOf(c)

CacheRemembers ==
    \A c \in Remembered : cache[event[c].eventId] >= ExpiryOf(c) \/ ExpiryOf(c) < now

KnownWasHandled ==
    \A d \in Deliveries :
        /\ delivery[d].status = "unsent" => known[d] = {}
        /\ \A c \in known[d] :
              /\ c # d
              /\ delivery[c].status = "processed"
              /\ event[c].eventId = event[d].eventId

TimesInOrder ==
    \A d \in Deliveries :
        /\ delivery[d].forgotten => delivery[d].status = "processed"
        /\ delivery[d].begun <= now
        /\ delivery[d].status = "processed" =>
              delivery[d].begun <= delivery[d].done /\ delivery[d].done <= now

\* HandledAgainOnlyAfterTTL, for deliveries without a handler as well.
NotDuplicateMeansExpired ==
    \A d \in Deliveries :
        delivery[d].status \in {"handling", "processed", "failed", "no-handler"} =>
            \A c \in known[d] : delivery[d].begun >= ExpiryOf(c)

WebhookInv ==
    /\ TypeOK
    /\ CacheIsJustified
    /\ CacheRemembers
    /\ KnownWasHandled
    /\ TimesInOrder
    /\ DuplicateOnlyAfterSuccess
    /\ NotDuplicateMeansExpired

-----------------------------------------------------------------------------
(* One lemma per action *)

LEMMA HandleInv ==
    ASSUME WebhookInv, NEW p \in Providers, handle(p)
    PROVE  WebhookInv'
  BY DEF WebhookInv, handle, TypeOK, CacheIsJustified, CacheRemembers, KnownWasHandled,
         TimesInOrder, DuplicateOnlyAfterSuccess, NotDuplicateMeansExpired, Remembered, ExpiryOf

LEMMA TickInv ==
    ASSUME WebhookInv, Tick
    PROVE  WebhookInv'
  <1> USE WebhookAssumption DEF WebhookInv, Tick
  <1>1. TypeOK' BY DEF TypeOK
  <1>2. CacheIsJustified' BY DEF CacheIsJustified, Remembered, ExpiryOf
  <1>3. CacheRemembers'
    BY DEF TypeOK, Delivery, CacheRemembers, Remembered, ExpiryOf
  <1>4. KnownWasHandled' BY DEF KnownWasHandled
  <1>5. TimesInOrder' BY DEF TypeOK, Delivery, TimesInOrder
  <1>6. DuplicateOnlyAfterSuccess' BY DEF DuplicateOnlyAfterSuccess
  <1>7. NotDuplicateMeansExpired' BY DEF NotDuplicateMeansExpired, ExpiryOf
  <1>8. QED BY <1>1, <1>2, <1>3, <1>4, <1>5, <1>6, <1>7

LEMMA ClearInv ==
    ASSUME WebhookInv, clearWebhookCache
    PROVE  WebhookInv'
  <1> USE WebhookAssumption DEF WebhookInv, clearWebhookCache
  <1>1. TypeOK'
    <2>1. cache' \in [EventIds -> 0..(MaxTime + DEFAULT_TTL)] BY DEF TypeOK, Absent
    <2>2. ASSUME NEW d \in Deliveries PROVE delivery'[d] \in Delivery
      BY DEF TypeOK, Delivery
    <2>3. delivery' \in [Deliveries -> Delivery] BY <2>2
    <2>4. QED BY <2>1, <2>3 DEF TypeOK
  <1>2. /\ Remembered' = {}
        /\ \A d \in Deliveries : /\ delivery'[d].status = delivery[d].status
                                 /\ delivery'[d].begun = delivery[d].begun
                                 /\ delivery'[d].done = delivery[d].done
    BY DEF TypeOK, Delivery, Remembered
  <1>3. CacheIsJustified' BY DEF CacheIsJustified
  <1>4. CacheRemembers' BY <1>2 DEF CacheRemembers
  <1>5. KnownWasHandled' BY <1>2 DEF TypeOK, KnownWasHandled
  <1>6. TimesInOrder' BY <1>2 DEF TypeOK, Delivery, TimesInOrder
  <1>7. DuplicateOnlyAfterSuccess' BY <1>2 DEF TypeOK, DuplicateOnlyAfterSuccess
  <1>8. NotDuplicateMeansExpired' BY <1>2 DEF TypeOK, NotDuplicateMeansExpired, ExpiryOf
  <1>9. QED BY <1>1, <1>3, <1>4, <1>5, <1>6, <1>7, <1>8

\* processWebhook up to the await: eviction, the duplicate check and the history.
LEMMA ProcessInv ==
    ASSUME WebhookInv, NEW d \in Deliveries, processWebhook(d)
    PROVE  WebhookInv'
  <1> USE WebhookAssumption DEF WebhookInv
  <1> DEFINE id == event[d].eventId
             evicted == evictExpired(cache)
  <1>1. /\ id \in EventIds
        /\ now \in Nat
        /\ \A i \in EventIds : cache[i] \in Nat /\ cache[i] <= MaxTime + DEFAULT_TTL
        /\ \A c \in Deliveries : delivery[c].done \in Nat /\ delivery[c].begun \in Nat
        /\ \A c \in Deliveries : event[c].eventId \in EventIds
        /\ \A c \in Deliveries : delivery[c].forgotten \in BOOLEAN
    BY DEF TypeOK, Delivery, WebhookEvent
  <1>2. /\ delivery[d].status = "unsent"
        /\ cache' = evicted
        /\ UNCHANGED <<now, handlers, event>>
        /\ \A c \in Deliveries \ {d} : delivery'[c] = delivery[c] /\ known'[c] = known[c]
        /\ delivery'[d].begun = now
        /\ delivery'[d].done = delivery[d].done
        /\ delivery'[d].forgotten = delivery[d].forgotten
        /\ delivery'[d].status \in {"duplicate", "no-handler", "handling"}
        /\ (delivery'[d].status = "duplicate") <=> isDuplicate(evicted, id)
        /\ known'[d] = Handled(id)
    BY DEF TypeOK, Delivery, processWebhook
  <1>3. \A i \in EventIds : evicted[i] = IF cache[i] < now THEN Absent ELSE cache[i]
    BY <1>1 DEF evictExpired
  <1>4. Remembered' = Remembered
    BY <1>2 DEF Remembered
  <1>5. Handled(id) = {c \in Remembered : event[c].eventId = id}
    BY DEF Handled, Remembered
  <1>6. d \notin Remembered BY <1>2 DEF Remembered
  <1>7. \A c \in Remembered : delivery'[c] = delivery[c] BY <1>2, <1>6 DEF Remembered
  <1>8. \A c \in Remembered : c \in Deliveries BY DEF Remembered
  <1>9. TypeOK'
    <2>1. cache' \in [EventIds -> 0..(MaxTime + DEFAULT_TTL)]
      BY <1>2 DEF TypeOK, evictExpired, Absent
    <2>2. delivery' \in [Deliveries -> Delivery]
      BY DEF TypeOK, Delivery, Statuses, processWebhook
    <2>3. known' \in [Deliveries -> SUBSET Deliveries]
      BY DEF TypeOK, processWebhook, Handled
    <2>4. QED BY <1>2, <2>1, <2>2, <2>3 DEF TypeOK
  <1> HIDE DEF id, evicted
  <1>10. CacheIsJustified'
    BY <1>1, <1>2, <1>3, <1>4, <1>7 DEF CacheIsJustified, ExpiryOf
  <1>11. CacheRemembers'
    BY <1>1, <1>2, <1>3, <1>4, <1>7, <1>8 DEF CacheRemembers, ExpiryOf
  <1>12. KnownWasHandled'
    <2>1. \A c \in Handled(id) : c # d /\ delivery'[c].status = "processed" /\ event[c].eventId = event[d].eventId
      BY <1>5, <1>6, <1>7, <1>8 DEF Remembered, id
    <2>2. ASSUME NEW b \in Deliveries \ {d}, NEW c \in known[b]
          PROVE  delivery'[c].status = "processed"
      BY <1>2, <2>2 DEF TypeOK, KnownWasHandled
    <2>3. QED BY <1>2, <2>1, <2>2 DEF KnownWasHandled
  <1>13. TimesInOrder'
    BY <1>1, <1>2 DEF TimesInOrder
  <1>14. ASSUME NEW b \in Deliveries \ {d}, NEW c \in known[b]
         PROVE  delivery'[c] = delivery[c]
    BY <1>2, <1>14 DEF TypeOK, KnownWasHandled
  <1>15. DuplicateOnlyAfterSuccess'
    <2>1. ASSUME isDuplicate(evicted, id)
          PROVE  \E c \in Handled(id) : now < delivery'[c].done + DEFAULT_TTL
      <3>1. cache[id] # Absent /\ cache[id] > now
        BY <1>1, <1>3, <2>1 DEF isDuplicate, Absent, id
      <3>2. PICK c \in Remembered : event[c].eventId = id /\ cache[id] = ExpiryOf(c)
        BY <1>1, <3>1 DEF CacheIsJustified
      <3>3. QED BY <1>5, <1>7, <3>1, <3>2 DEF ExpiryOf
    <2>2. QED BY <1>2, <1>14, <2>1 DEF DuplicateOnlyAfterSuccess
  <1>16. NotDuplicateMeansExpired'
    <2>1. ASSUME ~isDuplicate(evicted, id), NEW c \in Handled(id)
          PROVE  now >= delivery'[c].done + DEFAULT_TTL
      <3>1. /\ c \in Remembered /\ event[c].eventId = id
            /\ delivery'[c] = delivery[c] /\ delivery[c].done \in Nat
        BY <1>1, <1>5, <1>7, <1>8
      <3>2. cache[id] >= ExpiryOf(c) \/ ExpiryOf(c) < now
        BY <3>1 DEF CacheRemembers
      <3>3. cache[id] <= now
        BY <1>1, <1>3, <2>1 DEF isDuplicate, Absent, id
      <3>4. QED BY <1>1, <3>1, <3>2, <3>3 DEF ExpiryOf
    <2>2. QED BY <1>2, <1>14, <2>1 DEF NotDuplicateMeansExpired, ExpiryOf
  <1>17. QED BY <1>9, <1>10, <1>11, <1>12, <1>13, <1>15, <1>16

LEMMA ResolveInv ==
    ASSUME WebhookInv, NEW d \in Deliveries, HandlerResolves(d)
    PROVE  WebhookInv'
  <1> USE WebhookAssumption DEF WebhookInv
  <1> DEFINE id == event[d].eventId
  <1>1. /\ id \in EventIds
        /\ now \in Nat /\ now <= MaxTime
        /\ \A i \in EventIds : cache[i] \in Nat
        /\ \A c \in Deliveries : delivery[c].done \in Nat /\ delivery[c].begun \in Nat
        /\ \A c \in Deliveries : event[c].eventId \in EventIds
    BY DEF TypeOK, Delivery, WebhookEvent
  <1>2. /\ delivery[d].status = "handling"
        /\ cache'[id] = now + DEFAULT_TTL
        /\ \A i \in EventIds \ {id} : cache'[i] = cache[i]
        /\ UNCHANGED <<now, handlers, event, known>>
        /\ \A c \in Deliveries \ {d} : delivery'[c] = delivery[c]
        /\ delivery'[d].begun = delivery[d].begun
        /\ delivery'[d].done = now
        /\ delivery'[d].status = "processed"
        /\ delivery'[d].forgotten = delivery[d].forgotten
    BY DEF TypeOK, Delivery, WebhookEvent, HandlerResolves, markProcessed
  <1>3. TypeOK'
    <2>1. cache' \in [EventIds -> 0..(MaxTime + DEFAULT_TTL)]
      BY <1>1 DEF TypeOK, HandlerResolves, markProcessed
    <2>2. delivery' \in [Deliveries -> Delivery]
      <3> DEFINE x == [delivery[d] EXCEPT !.status = "processed", !.done = now]
      <3>1. delivery \in [Deliveries -> Delivery] /\ now \in 0..MaxTime BY DEF TypeOK
      <3>2. x \in Delivery BY <3>1 DEF Delivery, Statuses
      <3>3. delivery' = [delivery EXCEPT ![d] = x] BY <3>1 DEF HandlerResolves
      <3> HIDE DEF x
      <3>4. QED BY <3>1, <3>2, <3>3
    <2>3. QED BY <1>2, <2>1, <2>2 DEF TypeOK
  <1>4. \A c \in Remembered' : c \in Remembered \cup {d}
    BY <1>2 DEF Remembered
  <1>5. \A c \in Remembered : c # d /\ c \in Remembered' /\ delivery'[c] = delivery[c] /\ c \in Deliveries
    BY <1>2 DEF Remembered
  <1>6. ASSUME NEW b \in Deliveries, NEW c \in known[b]
        PROVE  delivery'[c] = delivery[c] /\ c \in Deliveries
    BY <1>2, <1>6 DEF TypeOK, KnownWasHandled
  <1>7. d \in Remembered'
    BY <1>2 DEF TimesInOrder, Remembered
  <1> HIDE DEF id
  <1>8. CacheRemembers'
    BY <1>1, <1>2, <1>4, <1>5 DEF CacheRemembers, TimesInOrder, ExpiryOf, Remembered, id
  <1>9. KnownWasHandled' BY <1>2, <1>6 DEF KnownWasHandled
  <1>10. TimesInOrder' BY <1>1, <1>2 DEF TimesInOrder
  <1>11. DuplicateOnlyAfterSuccess' BY <1>2, <1>6 DEF DuplicateOnlyAfterSuccess
  <1>12. NotDuplicateMeansExpired' BY <1>2, <1>6 DEF NotDuplicateMeansExpired, ExpiryOf
  <1>13. CacheIsJustified'
    BY <1>1, <1>2, <1>5, <1>7 DEF CacheIsJustified, ExpiryOf, id
  <1>14. QED BY <1>3, <1>8, <1>9, <1>10, <1>11, <1>12, <1>13

LEMMA RejectInv ==
    ASSUME WebhookInv, NEW d \in Deliveries, HandlerRejects(d)
    PROVE  WebhookInv'
  <1> USE DEF WebhookInv
  <1>1. /\ delivery[d].status = "handling"
        /\ UNCHANGED <<now, cache, handlers, event, known>>
        /\ \A c \in Deliveries \ {d} : delivery'[c] = delivery[c]
        /\ delivery'[d].status = "failed"
        /\ delivery'[d].begun = delivery[d].begun
        /\ delivery'[d].forgotten = delivery[d].forgotten
    BY DEF TypeOK, Delivery, HandlerRejects
  <1>2. TypeOK'
    BY DEF TypeOK, Delivery, Statuses, HandlerRejects
  <1>3. /\ Remembered' = Remembered
        /\ \A c \in Remembered : delivery'[c] = delivery[c]
    BY <1>1 DEF Remembered
  <1>4. ASSUME NEW b \in Deliveries, NEW c \in known[b]
        PROVE  delivery'[c] = delivery[c]
    BY <1>1, <1>4 DEF TypeOK, KnownWasHandled
  <1>5. CacheIsJustified' BY <1>1, <1>3 DEF CacheIsJustified, ExpiryOf
  <1>6. CacheRemembers' BY <1>1, <1>3 DEF CacheRemembers, ExpiryOf
  <1>7. KnownWasHandled' BY <1>1, <1>4 DEF KnownWasHandled
  <1>8. TimesInOrder' BY <1>1 DEF TimesInOrder
  <1>9. DuplicateOnlyAfterSuccess' BY <1>1, <1>4 DEF DuplicateOnlyAfterSuccess
  <1>10. NotDuplicateMeansExpired' BY <1>1, <1>4 DEF NotDuplicateMeansExpired, ExpiryOf
  <1>11. QED BY <1>2, <1>5, <1>6, <1>7, <1>8, <1>9, <1>10

LEMMA WebhookStep ==
    ASSUME WebhookInv, [Next]_vars
    PROVE  WebhookInv'
  <1>1. CASE UNCHANGED vars
    BY <1>1 DEF vars, WebhookInv, TypeOK, CacheIsJustified, CacheRemembers, KnownWasHandled,
         TimesInOrder, DuplicateOnlyAfterSuccess, NotDuplicateMeansExpired, Remembered, ExpiryOf
  <1>2. QED
    BY <1>1, HandleInv, TickInv, ClearInv, ProcessInv, ResolveInv, RejectInv DEF Next

LEMMA WebhookStart == ASSUME Init PROVE WebhookInv
  <1> USE WebhookAssumption DEF Init
  <1>1. TypeOK BY DEF TypeOK, Delivery, Statuses, Absent
  <1>2. /\ Remembered = {}
        /\ \A d \in Deliveries : /\ delivery[d].status = "unsent"
                                 /\ delivery[d].begun = 0
                                 /\ ~delivery[d].forgotten
                                 /\ known[d] = {}
    BY DEF Remembered
  <1>3. QED
    BY <1>1, <1>2
       DEF WebhookInv, CacheIsJustified, CacheRemembers, KnownWasHandled, TimesInOrder,
           DuplicateOnlyAfterSuccess, NotDuplicateMeansExpired

(***************************************************************************)
(* WebhookInv is an invariant of processWebhook and its cache: whatever    *)
(* deliveries overlap in their handlers, fail or are repeated, and         *)
(* whenever the cache is cleared.                                          *)
(***************************************************************************)
THEOREM WebhookInvariant == Spec => []WebhookInv
  <1>1. Init => WebhookInv BY WebhookStart
  <1>2. WebhookInv /\ [Next]_vars => WebhookInv' BY WebhookStep
  <1>3. QED BY <1>1, <1>2, PTL DEF Spec

-----------------------------------------------------------------------------
(* The endpoint *)

LEMMA EndpointStep ==
    ASSUME [PaymentNext]_paymentVars
    PROVE  /\ [Next]_vars
           /\ UNCHANGED note
           /\ UNCHANGED event
  BY DEF PaymentNext, paymentVars, Receive, Next, vars, handle, processWebhook,
         HandlerResolves, HandlerRejects, clearWebhookCache, Tick

(***************************************************************************)
(* The endpoint implements the deduplication engine: what it does to the   *)
(* cache and the deliveries are steps of Webhooks, and a notification that *)
(* it rejects leaves them alone.                                           *)
(***************************************************************************)
THEOREM EndpointImplementsWebhooks == PaymentSpec => Spec
  <1>1. PaymentInit => Init BY DEF PaymentInit
  <1>2. [PaymentNext]_paymentVars => [Next]_vars BY EndpointStep
  <1>3. QED BY <1>1, <1>2, PTL DEF PaymentSpec, Spec

(***************************************************************************)
(* The endpoint's own invariant: the event of a delivery is that of its    *)
(* notification, and a Stripe notification was within the tolerance when   *)
(* it was handed on.                                                       *)
(***************************************************************************)
SignedAt(n) == parseStripeSignatureHeader(n.signed).timestamp

FreshAt(n, time) ==
    n.provider = "stripe" /\ Tolerance > 0 =>
        /\ SignedAt(n) \in Int
        /\ time - SignedAt(n) <= Tolerance
        /\ SignedAt(n) - time <= Tolerance

EndpointInv ==
    /\ note \in [Deliveries -> Notifications]
    /\ event = [d \in Deliveries |-> LET e == parseWebhookEvent(note[d], d)
                                     IN  [eventId |-> e.eventId, provider |-> e.provider]]
    /\ \A d \in Deliveries : delivery[d].status # "unsent" => FreshAt(note[d], delivery[d].begun)

LEMMA EndpointInvStep ==
    ASSUME WebhookInv, EndpointInv, [PaymentNext]_paymentVars
    PROVE  EndpointInv'
  <1>1. UNCHANGED <<note, event>> BY EndpointStep
  <1>2. \A d \in Deliveries : delivery[d] \in Delivery /\ delivery \in [Deliveries -> Delivery]
    BY DEF WebhookInv, TypeOK
  <1>3. ASSUME NEW d \in Deliveries, delivery'[d].status # "unsent"
        PROVE  FreshAt(note[d], delivery'[d].begun)
    <2>1. CASE delivery'[d].status = delivery[d].status /\ delivery'[d].begun = delivery[d].begun
      BY <1>3, <2>1 DEF EndpointInv
    <2>2. ASSUME NEW c \in Deliveries, Receive(c), verifyWebhookSignature(note[c]), processWebhook(c)
          PROVE  FreshAt(note[d], delivery'[d].begun)
      <3>1. CASE c = d
        <4>1. delivery'[d].begun = now BY <1>2, <2>2, <3>1 DEF processWebhook, Delivery
        <4>2. note[d].provider = "stripe" => verifyStripe(note[d])
          BY <2>2, <3>1 DEF verifyWebhookSignature
        <4>3. QED BY <4>1, <4>2 DEF verifyStripe, FreshAt, SignedAt
      <3>2. CASE c # d
        <4>1. delivery'[d] = delivery[d] BY <1>2, <2>2, <3>2 DEF processWebhook
        <4>2. QED BY <2>1, <4>1
      <3>3. QED BY <3>1, <3>2
    <2>3. ASSUME NEW c \in Deliveries, Receive(c), ~verifyWebhookSignature(note[c])
          PROVE  FreshAt(note[d], delivery'[d].begun)
      BY <2>1, <2>3 DEF Receive, vars
    <2>4. ASSUME NEW c \in Deliveries, HandlerResolves(c) \/ HandlerRejects(c)
          PROVE  FreshAt(note[d], delivery'[d].begun)
      <3>1. delivery'[d].begun = delivery[d].begun
        BY <1>2, <2>4 DEF HandlerResolves, HandlerRejects, Delivery
      <3>2. delivery[d].status # "unsent"
        BY <1>2, <1>3, <2>4 DEF HandlerResolves, HandlerRejects, Delivery
      <3>3. QED BY <3>1, <3>2 DEF EndpointInv
    <2>5. CASE clearWebhookCache
      BY <1>2, <2>1, <2>5 DEF clearWebhookCache, Delivery
    <2>6. CASE UNCHANGED delivery
      BY <2>1, <2>6
    <2>7. QED
      BY <2>2, <2>3, <2>4, <2>5, <2>6 DEF PaymentNext, paymentVars, Receive, handle, Tick
  <1>4. QED BY <1>1, <1>3 DEF EndpointInv

LEMMA EndpointInvariant == PaymentSpec => [](WebhookInv /\ EndpointInv)
  <1>1. PaymentInit => EndpointInv
    BY DEF PaymentInit, Init, EndpointInv, Notifications
  <1>2. WebhookInv /\ EndpointInv /\ [PaymentNext]_paymentVars => EndpointInv'
    BY EndpointInvStep
  <1>3. QED
    BY <1>1, <1>2, EndpointImplementsWebhooks, WebhookInvariant, PTL DEF PaymentSpec

\* A replay that comes when the cache has forgotten the event is too old.
LEMMA ReplaysAreDuplicates ==
    ASSUME WebhookInv, EndpointInv
    PROVE  StripeReplaysAreIgnored
  <1> SUFFICES ASSUME 0 < Tolerance, 2 * Tolerance < DEFAULT_TTL,
                      NEW d \in Deliveries, NEW c \in Deliveries,
                      c \in known[d], note[c] = note[d], note[d].provider = "stripe"
               PROVE  delivery[d].status = "duplicate"
    BY DEF StripeReplaysAreIgnored
  <1>1. /\ delivery[d].begun \in Nat /\ delivery[c].begun \in Nat /\ delivery[c].done \in Nat
        /\ delivery[d].status \in Statuses
    BY DEF WebhookInv, TypeOK, Delivery
  <1>2. /\ delivery[d].status # "unsent"
        /\ delivery[c].status = "processed"
    BY DEF WebhookInv, KnownWasHandled
  <1>3. delivery[c].begun <= delivery[c].done
    BY <1>2 DEF WebhookInv, TimesInOrder
  <1>4. /\ SignedAt(note[d]) \in Int
        /\ delivery[d].begun - SignedAt(note[d]) <= Tolerance
        /\ SignedAt(note[d]) - delivery[c].begun <= Tolerance
    BY <1>2 DEF EndpointInv, FreshAt
  <1>5. delivery[d].begun < ExpiryOf(c)
    BY <1>1, <1>3, <1>4, PaymentAssumption, WebhookAssumption DEF ExpiryOf
  <1>6. ~(delivery[d].begun >= ExpiryOf(c))
    BY <1>1, <1>5, WebhookAssumption DEF ExpiryOf
  <1>7. QED
    BY <1>1, <1>2, <1>6 DEF WebhookInv, NotDuplicateMeansExpired, Statuses

(***************************************************************************)
(* Nothing is handled twice by deliveries that do not overlap, for every   *)
(* TTL and every number of deliveries; a Stripe notification not even      *)
(* after the TTL, for every tolerance that is less than half of it.        *)
(***************************************************************************)
THEOREM NeverHandledTwice == PaymentSpec => []NothingHandledTwice
  <1>1. WebhookInv => HandledAgainOnlyAfterTTL
    BY DEF WebhookInv, NotDuplicateMeansExpired, HandledAgainOnlyAfterTTL, ExpiryOf
  <1>2. WebhookInv /\ EndpointInv => NothingHandledTwice
    BY <1>1, ReplaysAreDuplicates DEF NothingHandledTwice
  <1>3. QED BY <1>2, EndpointInvariant, PTL

\* Two deliveries with the same event id bring the same event, or payment.
LEMMA SameIdSameEvent ==
    ASSUME EndpointInv, NEW c \in Deliveries, NEW d \in Deliveries, c # d,
           event[c].eventId = event[d].eventId
    PROVE  \/ /\ note[c].provider = note[d].provider
              /\ note[c].payment = note[d].payment
              /\ note[d].provider # "payfast"
                   => TypeGiven(c) = TypeGiven(d) /\ note[c].id = note[d].id
           \/ note[c].provider = "payfast" /\ note[c].payment = event[d].eventId
           \/ note[d].provider = "payfast" /\ note[d].payment = event[c].eventId
  <1> DEFINE m == note[c]
             n == note[d]
  <1>1. /\ m \in Notifications /\ n \in Notifications
        /\ event[c].eventId = parseWebhookEvent(m, c).eventId
        /\ event[d].eventId = parseWebhookEvent(n, d).eventId
    BY DEF EndpointInv
  <1> HIDE DEF m, n
  <1>2. ASSUME NEW x \in Notifications, NEW b \in Deliveries
        PROVE  parseWebhookEvent(x, b).eventId =
                 IF x.provider = "payfast" THEN Or(x.payment, b) ELSE Or(x.id, b)
    BY NotificationAssumption
       DEF parseWebhookEvent, parseStripe, parsePayFast, parseOzow,
           generateIdempotencyKey, generateTransactionId
  <1>3. /\ m.id \notin Deliveries /\ m.payment \notin Deliveries
        /\ n.id \notin Deliveries /\ n.payment \notin Deliveries
    BY <1>1, NotificationAssumption
  <1>4. /\ event[c].eventId = IF m.provider = "payfast" THEN Or(m.payment, c) ELSE Or(m.id, c)
        /\ event[d].eventId = IF n.provider = "payfast" THEN Or(n.payment, d) ELSE Or(n.id, d)
    BY <1>1, <1>2
  <1>5. CASE m.provider = "payfast" /\ n.provider = "payfast"
    <2>1. m.payment = n.payment BY <1>3, <1>4, <1>5 DEF Or
    <2>2. QED BY <1>5, <2>1 DEF m, n
  <1>6. CASE m.provider = "payfast" /\ n.provider # "payfast"
    <2>1. m.payment = event[d].eventId BY <1>3, <1>4, <1>6 DEF Or
    <2>2. QED BY <1>6, <2>1 DEF m, n
  <1>7. CASE m.provider # "payfast" /\ n.provider = "payfast"
    <2>1. n.payment = event[c].eventId BY <1>3, <1>4, <1>7 DEF Or
    <2>2. QED BY <1>7, <2>1 DEF m, n
  <1>8. CASE m.provider # "payfast" /\ n.provider # "payfast"
    <2>1. m.id = n.id /\ m.id # NoValue BY <1>3, <1>4, <1>8 DEF Or
    <2>2. m.provider = n.provider /\ m.payment = n.payment /\ m.status = n.status
      BY <1>1, <1>8, <2>1, NotificationAssumption
    <2>3. parseWebhookEvent(m, c).type = parseWebhookEvent(n, d).type
      BY <1>1, <1>8, <2>2, NotificationAssumption
         DEF parseWebhookEvent, parseStripe, parseOzow
    <2>4. QED BY <2>1, <2>2, <2>3 DEF TypeGiven, m, n
  <1>9. QED BY <1>5, <1>6, <1>7, <1>8

(***************************************************************************)
(* Nothing is dropped for nothing: what processWebhook answers as a        *)
(* duplicate was handled to the end less than a TTL ago, and it was the    *)
(* same event, or with PayFast the same payment, for any notifications     *)
(* whose ids identify events.                                              *)
(***************************************************************************)
THEOREM NeverDroppedForNothing == PaymentSpec => []DropsAreJustified
  <1>1. ASSUME WebhookInv, EndpointInv PROVE DropsOnlyWhatWasSeen
    <2> SUFFICES ASSUME NEW d \in Deliveries, delivery[d].status = "duplicate"
                 PROVE  \E c \in known[d] :
                          \/ /\ note[c].provider = note[d].provider
                             /\ note[c].payment = note[d].payment
                             /\ note[d].provider # "payfast"
                                  => TypeGiven(c) = TypeGiven(d) /\ note[c].id = note[d].id
                          \/ note[c].provider = "payfast" /\ note[c].payment = event[d].eventId
                          \/ note[d].provider = "payfast" /\ note[d].payment = event[c].eventId
      BY DEF DropsOnlyWhatWasSeen
    <2>1. PICK c \in known[d] : TRUE
      BY <1>1 DEF WebhookInv, DuplicateOnlyAfterSuccess
    <2>2. c \in Deliveries /\ c # d /\ event[c].eventId = event[d].eventId
      BY <1>1 DEF WebhookInv, TypeOK, KnownWasHandled
    <2>3. QED BY <1>1, <2>2, SameIdSameEvent
  <1>2. WebhookInv /\ EndpointInv => DropsAreJustified
    BY <1>1 DEF WebhookInv, DropsAreJustified
  <1>3. QED BY <1>2, EndpointInvariant, PTL

-----------------------------------------------------------------------------
(* What the adapters charge *)

\* The powers of ten in use.
LEMMA Powers == 10^0 = 1 /\ 10^1 = 10 /\ 10^2 = 100 /\ 10^3 = 1000
  OBVIOUS

\* A number of thousandths rounds to a whole number of minor units.
LEMMA MinorUnitsAreWhole ==
    ASSUME NEW n \in Int, NEW c
    PROVE  toMinorUnits(Dec(n, 3), c) \in Int
  <1>1. getCurrencyDecimals(c) \in {0, 2, 3} BY DEF getCurrencyDecimals
  <1>2. \A d \in {1, 10, 1000} : Quot(n, d, "even") \in Int BY DEF Quot
  <1>3. \A k \in {0, 2, 3} : Units(Dec(n, 3), k, "even") \in Int
    <2>1. Units(Dec(n, 3), 0, "even") = Quot(n, 1000, "even") BY Powers DEF Units, Dec
    <2>2. Units(Dec(n, 3), 2, "even") = Quot(n, 10, "even") BY Powers DEF Units, Dec
    <2>3. Units(Dec(n, 3), 3, "even") = n BY Powers DEF Units, Dec
    <2>4. QED BY <1>2, <2>1, <2>2, <2>3
  <1>4. QED BY <1>1, <1>3 DEF toMinorUnits

\* The same number of units is the same value at another precision only if it is none.
LEMMA PrecisionMatters ==
    ASSUME NEW m \in Int, NEW k \in {0, 2, 3}
    PROVE  /\ SameValue(Dec(m, k), Dec(m, k))
           /\ SameValue(Dec(m, 2), Dec(m, k)) <=> k = 2 \/ m = 0
  <1>1. \A i \in {0, 2, 3} : \A j \in {0, 2, 3} :
          SameValue(Dec(m, i), Dec(m, j)) <=>
            LET e == IF i > j THEN i ELSE j IN m * 10^(e - i) + (-1 * m) * 10^(e - j) = 0
    BY DEF SameValue, DecAdd, DecMul, Dec
  <1>2. CASE k = 0 BY <1>1, <1>2, Powers
  <1>3. CASE k = 2 BY <1>1, <1>3, Powers
  <1>4. CASE k = 3 BY <1>1, <1>4, Powers
  <1>5. QED BY <1>2, <1>3, <1>4

\* The amounts, provider by provider.
LEMMA AmountsAreStated == ChargesStateTheAmount
  <1> SUFFICES ASSUME NEW n \in Amounts, NEW c \in {"ZAR", "JPY", "BHD"}, NEW p \in Providers
               PROVE  LET x == Dec(n, 3)
                      IN  SameValue(charge(p, x, c).amount, displayed(x, c))
                            <=> (p = "ozow" => getCurrencyDecimals(c) = 2 \/ toMinorUnits(x, c) = 0)
    BY DEF ChargesStateTheAmount
  <1> DEFINE x == Dec(n, 3)
             m == toMinorUnits(x, c)
             k == getCurrencyDecimals(c)
  <1>1. m \in Int BY MinorUnitsAreWhole, PaymentAssumption
  <1>2. k \in {0, 2, 3} BY DEF getCurrencyDecimals
  <1>3. displayed(x, c) = Dec(m, k) BY DEF displayed
  <1>4. charge(p, x, c).amount = IF p = "ozow" THEN Dec(m, 2) ELSE Dec(m, k)
    BY PaymentAssumption DEF charge, stripeCharge, payfastCharge, ozowCharge, displayed
  <1> HIDE DEF x, m, k
  <1>5. SameValue(charge(p, x, c).amount, displayed(x, c)) <=> (p = "ozow" => k = 2 \/ m = 0)
    BY <1>1, <1>2, <1>3, <1>4, PrecisionMatters
  <1>6. QED BY <1>5 DEF x, m, k

(***************************************************************************)
(* Whatever the amount, Stripe and PayFast are told the value that a       *)
(* person is shown (providers/*.ts, charge), and so is Ozow exactly if the *)
(* currency has two decimals or the amount rounds to nothing: its adapter  *)
(* states every number of minor units with two.                            *)
(***************************************************************************)
THEOREM AmountsStated == PaymentSpec => []ChargesStateTheAmount
  BY AmountsAreStated, PTL

=============================================================================
