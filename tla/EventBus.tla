------------------------------- MODULE EventBus -------------------------------
(***************************************************************************)
(* The in-process event bus of packages/core (src/events/bus.ts): the      *)
(* listener registry with its retry budgets, emit with its retries, and    *)
(* the dead letter queue.                                                  *)
(*                                                                         *)
(* emit starts one delivery task per registered listener, all of them in   *)
(* the same tick, and awaits them together.  A task awaits its listener    *)
(* and, between attempts, its backoff, so the tasks of every emission in   *)
(* flight, the registry calls and the clearing of the queue interleave.    *)
(* A backoff is a sleep that may end at any moment.                        *)
(***************************************************************************)
EXTENDS Integers, Sequences, FiniteSets

CONSTANTS
    Events,
    Listeners,            \* listener functions
    Emissions,            \* calls of emit
    DEFAULT_MAX_RETRIES,
    RetryOptions,         \* the values of options.maxRetries that callers use
    MaxListeners,         \* bound: registrations per event
    MaxCrashes            \* bound: how often the process dies

ASSUME BusAssumption ==
    /\ DEFAULT_MAX_RETRIES \in Nat
    /\ RetryOptions \subseteq Int
    /\ MaxListeners \in Nat
    /\ MaxCrashes \in Nat

VARIABLES
    listeners,           \* event -> the registered functions, in order
    listenerMaxRetries,  \* the WeakMap listener -> budget
    deadLetterQueue,
    emission,            \* the calls of emit, with their local variables
    cleared,             \* history: emission -> entries of it dropped from the queue
    crashes

vars == <<listeners, listenerMaxRetries, deadLetterQueue, emission, cleared, crashes>>

(***************************************************************************)
(* The body of fns.map(async fn => ...).  calls counts the invocations of  *)
(* fn, a history.  A "skipped" task found its budget negative and never    *)
(* entered the loop.                                                       *)
(***************************************************************************)
Task ==
    [ maxRetries : RetryOptions \cup {DEFAULT_MAX_RETRIES},
      attempt    : Nat,
      calls      : Nat,
      phase      : {"running", "sleeping", "delivered", "dead", "skipped"} ]

Settled == {"delivered", "dead", "skipped"}

Emission ==
    [ status       : {"unused", "running", "returned", "lost"},
      task         : Seq(Task),
      delivered    : Nat,
      failed       : Nat,
      deadLettered : Nat ]

\* The queued record keeps the event's envelope: it does not name the listener.
DeadLetteredEvent == [eventId : Emissions, attempts : Nat]

\* The tasks of an emission that are in a given phase, by position.
InPhase(e, phase) ==
    {i \in DOMAIN emission[e].task : emission[e].task[i].phase = phase}

TypeOK ==
    /\ \A ev \in Events : /\ listeners[ev] \in Seq(Listeners)
                          /\ Len(listeners[ev]) <= MaxListeners
    /\ DOMAIN listenerMaxRetries \subseteq Listeners
    /\ \A l \in DOMAIN listenerMaxRetries : listenerMaxRetries[l] \in RetryOptions
    /\ deadLetterQueue \in Seq(DeadLetteredEvent)
    /\ emission \in [Emissions -> Emission]
    /\ \A e \in Emissions : \A i \in DOMAIN emission[e].task :
          LET t == emission[e].task[i]
          IN  t.phase \in {"running", "sleeping"} => t.attempt <= t.maxRetries
    /\ cleared \in [Emissions -> Nat]
    /\ crashes \in 0..MaxCrashes

NoTasks ==
    [status |-> "unused", task |-> <<>>, delivered |-> 0, failed |-> 0, deadLettered |-> 0]

Init ==
    /\ listeners = [ev \in Events |-> <<>>]
    /\ listenerMaxRetries = [l \in {} |-> 0]
    /\ deadLetterQueue = <<>>
    /\ emission = [e \in Emissions |-> NoTasks]
    /\ cleared = [e \in Emissions |-> 0]
    /\ crashes = 0

-----------------------------------------------------------------------------
(* The registry *)

\* options is {} or the singleton of options.maxRetries.
on(ev, l, options) ==
    /\ Len(listeners[ev]) < MaxListeners
    /\ listeners' = [listeners EXCEPT ![ev] = Append(@, l)]
    /\ listenerMaxRetries' =
          IF options = {} THEN listenerMaxRetries
          ELSE [k \in DOMAIN listenerMaxRetries \cup {l} |->
                  IF k = l THEN CHOOSE m \in options : TRUE ELSE listenerMaxRetries[k]]
    /\ UNCHANGED <<deadLetterQueue, emission, cleared, crashes>>

off(ev) ==
    /\ listeners' = [listeners EXCEPT ![ev] = <<>>]
    /\ UNCHANGED <<listenerMaxRetries, deadLetterQueue, emission, cleared, crashes>>

\* The WeakMap of budgets stays as it is.
clearAllListeners ==
    /\ listeners' = [ev \in Events |-> <<>>]
    /\ UNCHANGED <<listenerMaxRetries, deadLetterQueue, emission, cleared, crashes>>

\* How many queued entries belong to an emission.
Queued(e) == Cardinality({i \in DOMAIN deadLetterQueue : deadLetterQueue[i].eventId = e})

clearDeadLetterQueue ==
    /\ deadLetterQueue # <<>>
    /\ deadLetterQueue' = <<>>
    /\ cleared' = [e \in Emissions |-> cleared[e] + Queued(e)]
    /\ UNCHANGED <<listeners, listenerMaxRetries, emission, crashes>>

-----------------------------------------------------------------------------
(* emit *)

maxRetriesOf(l) ==
    IF l \in DOMAIN listenerMaxRetries THEN listenerMaxRetries[l] ELSE DEFAULT_MAX_RETRIES

\* The task up to its first await: the budget is read once, fn is called at once.
beginTask(l) ==
    LET m == maxRetriesOf(l)
    IN  [ maxRetries |-> m, attempt |-> 0,
          calls |-> IF 0 <= m THEN 1 ELSE 0,
          phase |-> IF 0 <= m THEN "running" ELSE "skipped" ]

\* Array.prototype.map visits the functions that are registered when it starts.
emit(e, ev) ==
    /\ emission[e].status = "unused"
    /\ emission' = [emission EXCEPT
          ![e].status = "running",
          ![e].task = [i \in DOMAIN listeners[ev] |-> beginTask(listeners[ev][i])]]
    /\ UNCHANGED <<listeners, listenerMaxRetries, deadLetterQueue, cleared, crashes>>

IsRunning(e, i) ==
    /\ emission[e].status = "running"
    /\ i \in DOMAIN emission[e].task

ListenerResolves(e, i) ==
    /\ IsRunning(e, i)
    /\ emission[e].task[i].phase = "running"
    /\ LET t == emission[e].task[i]
       IN  emission' = [emission EXCEPT ![e].task[i] = [t EXCEPT !.phase = "delivered"],
                                        ![e].delivered = @ + 1]
    /\ UNCHANGED <<listeners, listenerMaxRetries, deadLetterQueue, cleared, crashes>>

\* attempt > maxRetries, after attempt++
Exhausted(t) == t.attempt > t.maxRetries

\* A plausible bug: an exhausted delivery is counted and not queued.
deadLetter_CountOnly(e, i, t) ==
    /\ deadLetterQueue' = deadLetterQueue
    /\ emission' = [emission EXCEPT ![e].task[i] = [t EXCEPT !.phase = "dead"],
                                    ![e].deadLettered = @ + 1,
                                    ![e].failed = @ + 1]

deadLetter(e, i, t) ==
    /\ deadLetterQueue' = Append(deadLetterQueue, [eventId |-> e, attempts |-> t.attempt])
    /\ emission' = [emission EXCEPT ![e].task[i] = [t EXCEPT !.phase = "dead"],
                                    ![e].deadLettered = @ + 1,
                                    ![e].failed = @ + 1]

backOff(e, i, t) ==
    /\ emission' = [emission EXCEPT ![e].task[i] = [t EXCEPT !.phase = "sleeping"]]
    /\ UNCHANGED deadLetterQueue

\* The catch block.
ListenerRejects(e, i) ==
    /\ IsRunning(e, i)
    /\ emission[e].task[i].phase = "running"
    /\ LET t == [emission[e].task[i] EXCEPT !.attempt = @ + 1]
       IN  IF Exhausted(t) THEN deadLetter(e, i, t) ELSE backOff(e, i, t)
    /\ UNCHANGED <<listeners, listenerMaxRetries, cleared, crashes>>

\* A plausible bug: the promise of the backoff never resolves.
wake_Never(e, i) == FALSE

\* A plausible bug: the retry is scheduled ahead of the attempt it follows.
wake_Scheduled(e, i) ==
    /\ IsRunning(e, i)
    /\ emission[e].task[i].phase \in {"sleeping", "delivered"}
    /\ LET t == emission[e].task[i]
       IN  emission' = [emission EXCEPT
              ![e].task[i] = [t EXCEPT !.phase = "running", !.calls = t.calls + 1]]
    /\ UNCHANGED <<listeners, listenerMaxRetries, deadLetterQueue, cleared, crashes>>

\* sleep(backoffMs(attempt)) ends: the loop calls fn again.
wake(e, i) ==
    /\ IsRunning(e, i)
    /\ emission[e].task[i].phase = "sleeping"
    /\ LET t == emission[e].task[i]
       IN  emission' = [emission EXCEPT
              ![e].task[i] = [t EXCEPT !.phase = "running", !.calls = t.calls + 1]]
    /\ UNCHANGED <<listeners, listenerMaxRetries, deadLetterQueue, cleared, crashes>>

\* Promise.all resolves and the counters are returned.
emitReturns(e) ==
    /\ emission[e].status = "running"
    /\ \A i \in DOMAIN emission[e].task : emission[e].task[i].phase \in Settled
    /\ emission' = [emission EXCEPT ![e].status = "returned"]
    /\ UNCHANGED <<listeners, listenerMaxRetries, deadLetterQueue, cleared, crashes>>

\* The process dies: the bus keeps everything in memory.
Crash ==
    /\ crashes < MaxCrashes
    /\ crashes' = crashes + 1
    /\ listeners' = [ev \in Events |-> <<>>]
    /\ listenerMaxRetries' = [l \in {} |-> 0]
    /\ deadLetterQueue' = <<>>
    /\ cleared' = [e \in Emissions |-> cleared[e] + Queued(e)]
    /\ emission' = [e \in Emissions |->
          IF emission[e].status = "running" THEN [emission[e] EXCEPT !.status = "lost"]
          ELSE emission[e]]

TaskStep(e, i) ==
    ListenerResolves(e, i) \/ ListenerRejects(e, i) \/ wake(e, i)

OptionValues == {{}} \cup {{m} : m \in RetryOptions}

Next ==
    \/ \E ev \in Events, l \in Listeners, options \in OptionValues : on(ev, l, options)
    \/ \E ev \in Events : off(ev)
    \/ clearAllListeners
    \/ clearDeadLetterQueue
    \/ \E e \in Emissions, ev \in Events : emit(e, ev)
    \/ \E e \in Emissions, i \in 1..MaxListeners :
          ListenerResolves(e, i) \/ ListenerRejects(e, i) \/ wake(e, i)
    \/ \E e \in Emissions : emitReturns(e)
    \/ Crash

Spec == Init /\ [][Next]_vars

(***************************************************************************)
(* Fairness.  The event loop runs due timers and settled promises.  That a *)
(* listener settles, one way or the other, is an assumption on it: the bus *)
(* awaits it with no timeout.                                              *)
(***************************************************************************)
Fairness ==
    \A e \in Emissions :
        /\ WF_vars(emitReturns(e))
        /\ \A i \in 1..MaxListeners : WF_vars(TaskStep(e, i))

FairSpec == Spec /\ Fairness

-----------------------------------------------------------------------------
(* Properties *)

(***************************************************************************)
(* The EventDeliveryResult of a call of emit adds up: every listener that  *)
(* was registered when it was called and has a budget of at least zero is  *)
(* counted once, as delivered or as dead-lettered, and failed repeats the  *)
(* latter.  The three counters are shared by tasks that interleave.        *)
(***************************************************************************)
ResultAddsUp ==
    \A e \in Emissions : emission[e].status = "returned" =>
        LET m == emission[e]
            called == {i \in DOMAIN m.task : m.task[i].maxRetries >= 0}
        IN  /\ m.delivered + m.deadLettered = Cardinality(called)
            /\ m.delivered = Cardinality(InPhase(e, "delivered"))
            /\ m.failed = m.deadLettered

(***************************************************************************)
(* Nothing is dead-lettered silently or twice: the queue, with what was    *)
(* dropped from it, holds as many records of an emission as it has tasks   *)
(* that exhausted their budget, and each of them records the attempts of   *)
(* such a task.                                                            *)
(***************************************************************************)
DeadLettersMatchFailures ==
    /\ \A e \in Emissions : Queued(e) + cleared[e] = Cardinality(InPhase(e, "dead"))
    /\ \A k \in DOMAIN deadLetterQueue :
          LET d == deadLetterQueue[k]
          IN  \E i \in InPhase(d.eventId, "dead") :
                 d.attempts = emission[d.eventId].task[i].maxRetries + 1

(***************************************************************************)
(* A listener is called at most once more than its budget of retries, and  *)
(* exactly that often before its event is dead-lettered.                   *)
(***************************************************************************)
CalledWithinBudget ==
    \A e \in Emissions : \A i \in DOMAIN emission[e].task :
        LET t == emission[e].task[i]
        IN  /\ t.phase = "skipped" => t.calls = 0
            /\ t.phase # "skipped" => t.calls \in 1..(t.maxRetries + 1)
            /\ t.phase = "dead" => t.calls = t.maxRetries + 1

(***************************************************************************)
(* What emit reports, what the queue holds and how often each listener was *)
(* called tell the same story, with tasks and emissions interleaved.       *)
(***************************************************************************)
DeliveriesAddUp ==
    TypeOK /\ ResultAddsUp /\ DeadLettersMatchFailures /\ CalledWithinBudget

(***************************************************************************)
(* A task that has settled is never resumed: its listener is not called    *)
(* again for this emission, whatever happens to the registry, the queue or *)
(* the other tasks.                                                        *)
(***************************************************************************)
SettledTaskIsFinal ==
    [][\A e \in Emissions : \A i \in DOMAIN emission[e].task :
          emission[e].task[i].phase \in Settled =>
              emission'[e].task[i] = emission[e].task[i]]_vars

(***************************************************************************)
(* Every call of emit returns, even if all its listeners keep throwing and *)
(* whatever is registered or removed meanwhile, unless the process dies.   *)
(***************************************************************************)
EmitReturns ==
    \A e \in Emissions :
        emission[e].status = "running" ~> emission[e].status \in {"returned", "lost"}

=============================================================================
