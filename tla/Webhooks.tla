------------------------------- MODULE Webhooks -------------------------------
(***************************************************************************)
(* The webhook deduplication engine of packages/commerce                   *)
(* (src/webhooks/dedup.ts): a TTL cache of processed event ids, a registry *)
(* of handlers by provider, and processWebhook.                            *)
(*                                                                         *)
(* processWebhook awaits the handler between the duplicate check and       *)
(* markProcessed, so the deliveries of a provider that does not wait for   *)
(* an answer before it redelivers interleave there.                        *)
(***************************************************************************)
EXTENDS Integers

CONSTANTS
    Deliveries,   \* calls of processWebhook
    EventIds,
    Providers,
    DEFAULT_TTL,  \* in clock ticks
    MaxTime       \* bound: the clock stops here

ASSUME WebhookAssumption ==
    /\ DEFAULT_TTL \in Nat \ {0}
    /\ MaxTime \in Nat

Statuses == {"unsent", "handling", "processed", "duplicate", "no-handler", "failed"}

\* "No entry" of the cache: expiresAt is positive for every entry.
Absent == 0

VARIABLES
    now,        \* Date.now()
    cache,      \* eventId -> expiresAt, or Absent
    handlers,   \* the providers that have a handler
    event,      \* the WebhookEvent each call of processWebhook is given
    delivery,   \* the calls of processWebhook and what became of them
    known       \* history: the processed deliveries of the same event, not
                \* forgotten by clearWebhookCache, when the call was made

vars == <<now, cache, handlers, event, delivery, known>>

WebhookEvent == [eventId : EventIds, provider : Providers]

Delivery ==
    [ status    : Statuses,
      begun     : 0..MaxTime,   \* time of the duplicate check
      done      : 0..MaxTime,   \* time of markProcessed
      forgotten : BOOLEAN ]     \* clearWebhookCache ran after markProcessed

TypeOK ==
    /\ now \in 0..MaxTime
    /\ cache \in [EventIds -> 0..(MaxTime + DEFAULT_TTL)]
    /\ handlers \subseteq Providers
    /\ event \in [Deliveries -> WebhookEvent]
    /\ delivery \in [Deliveries -> Delivery]
    /\ known \in [Deliveries -> SUBSET Deliveries]

Init ==
    /\ now = 0
    /\ cache = [id \in EventIds |-> Absent]
    /\ handlers = {}
    /\ event \in [Deliveries -> WebhookEvent]
    /\ delivery = [d \in Deliveries |->
                     [status |-> "unsent", begun |-> 0, done |-> 0, forgotten |-> FALSE]]
    /\ known = [d \in Deliveries |-> {}]

-----------------------------------------------------------------------------
(* The cache *)

evictExpired(c) ==
    [id \in EventIds |-> IF c[id] < now THEN Absent ELSE c[id]]

\* On the cache that evictExpired has left.
isDuplicate(c, id) == c[id] # Absent /\ c[id] > now

markProcessed(c, id) == [c EXCEPT ![id] = now + DEFAULT_TTL]

-----------------------------------------------------------------------------
(* Operations *)

handle(p) ==
    /\ handlers' = handlers \cup {p}
    /\ UNCHANGED <<now, cache, event, delivery, known>>

Handled(id) ==
    {c \in Deliveries : delivery[c].status = "processed" /\ event[c].eventId = id
                        /\ ~delivery[c].forgotten}

\* processWebhook(event), up to the await of the handler.
processWebhook(d) ==
    LET evicted == evictExpired(cache)
        id == event[d].eventId
    IN  /\ delivery[d].status = "unsent"
        /\ cache' = evicted
        /\ delivery' = [delivery EXCEPT
              ![d].begun = now,
              ![d].status = IF isDuplicate(evicted, id) THEN "duplicate"
                            ELSE IF event[d].provider \notin handlers THEN "no-handler"
                            ELSE "handling"]
        /\ known' = [known EXCEPT ![d] = Handled(id)]
        /\ UNCHANGED <<now, handlers, event>>

\* The handler's promise resolves: markProcessed, then 'processed'.
HandlerResolves(d) ==
    /\ delivery[d].status = "handling"
    /\ cache' = markProcessed(cache, event[d].eventId)
    /\ delivery' = [delivery EXCEPT ![d].status = "processed", ![d].done = now]
    /\ UNCHANGED <<now, handlers, event, known>>

\* The handler throws: the rejection is the caller's, nothing is marked.
HandlerRejects(d) ==
    /\ delivery[d].status = "handling"
    /\ delivery' = [delivery EXCEPT ![d].status = "failed"]
    /\ UNCHANGED <<now, cache, handlers, event, known>>

clearWebhookCache ==
    /\ cache' = [id \in EventIds |-> Absent]
    /\ delivery' = [d \in Deliveries |->
                      IF delivery[d].status = "processed"
                      THEN [delivery[d] EXCEPT !.forgotten = TRUE] ELSE delivery[d]]
    /\ UNCHANGED <<now, handlers, event, known>>

Tick ==
    /\ now < MaxTime
    /\ now' = now + 1
    /\ UNCHANGED <<cache, handlers, event, delivery, known>>

Next ==
    \/ \E p \in Providers : handle(p)
    \/ \E d \in Deliveries : processWebhook(d) \/ HandlerResolves(d) \/ HandlerRejects(d)
    \/ clearWebhookCache
    \/ Tick

Spec == Init /\ [][Next]_vars

-----------------------------------------------------------------------------
(* Properties *)

(***************************************************************************)
(* Nothing is dropped: processWebhook answers 'duplicate' only for an      *)
(* event that some earlier delivery handled to the end, less than a TTL    *)
(* ago.  A delivery whose handler failed or was missing never causes a     *)
(* later one to be ignored.                                                *)
(***************************************************************************)
DuplicateOnlyAfterSuccess ==
    \A d \in Deliveries : delivery[d].status = "duplicate" =>
        \E c \in known[d] :
            delivery[d].begun < delivery[c].done + DEFAULT_TTL

(***************************************************************************)
(* Nothing that was handled is handled again: a delivery made after an     *)
(* event was processed reaches the handler only once the TTL has passed,   *)
(* whatever other deliveries of the event are in flight and whatever       *)
(* eviction has run in between.                                            *)
(***************************************************************************)
HandledAgainOnlyAfterTTL ==
    \A d \in Deliveries : delivery[d].status \in {"handling", "processed", "failed"} =>
        \A c \in known[d] : delivery[d].begun >= delivery[c].done + DEFAULT_TTL

=============================================================================
