---------------------------- MODULE EventBusProofs ----------------------------
(***************************************************************************)
(* Proofs about the event bus, for any events, listeners, emissions and    *)
(* retry budgets: what emit reports, what the dead letter queue holds and  *)
(* how often each listener was called agree, and a settled task is final.  *)
(*                                                                         *)
(* The results of emit are promises about calls that have returned, so the *)
(* invariant states them for calls in flight: each counter is, at every    *)
(* moment, the number of tasks in the phase it counts (Counted), and every *)
(* task's count of calls follows from its phase and its attempt (TaskOK).  *)
(***************************************************************************)
EXTENDS EventBus, FiniteSetTheorems, TLAPS

\* The positions of the tasks of a sequence that are in a phase.
At(tasks, phase) == {i \in DOMAIN tasks : tasks[i].phase = phase}

\* The positions of the records of a queue that belong to an emission.
Of(queue, e) == {i \in DOMAIN queue : queue[i].eventId = e}

\* What a task's phase says about its attempts and calls.
TaskOK(t) ==
    /\ t \in Task
    /\ t.phase = "skipped" => t.calls = 0 /\ t.maxRetries < 0
    /\ t.phase # "skipped" => 0 <= t.maxRetries
    /\ t.phase = "running" => t.attempt <= t.maxRetries /\ t.calls = t.attempt + 1
    /\ t.phase = "sleeping" => t.attempt \in 1..t.maxRetries /\ t.calls = t.attempt
    /\ t.phase = "delivered" => t.calls \in 1..(t.maxRetries + 1)
    /\ t.phase = "dead" => t.calls = t.maxRetries + 1

TasksOK ==
    \A e \in Emissions : \A i \in DOMAIN emission[e].task : TaskOK(emission[e].task[i])

\* The counters that the tasks of a call share.
CountedFor(m) ==
    /\ m.delivered = Cardinality(At(m.task, "delivered"))
    /\ m.deadLettered = Cardinality(At(m.task, "dead"))
    /\ m.failed = m.deadLettered

Counted == \A e \in Emissions : CountedFor(emission[e])

\* A call that has not begun has no tasks; one that has returned has settled ones.
Lifecycle ==
    \A e \in Emissions :
        /\ emission[e].status = "unused" => emission[e].task = <<>>
        /\ emission[e].status = "returned" =>
              \A i \in DOMAIN emission[e].task : emission[e].task[i].phase \in Settled

BusInv ==
    /\ TypeOK
    /\ listeners \in [Events -> Seq(Listeners)]
    /\ TasksOK
    /\ Counted
    /\ Lifecycle
    /\ DeadLettersMatchFailures

-----------------------------------------------------------------------------
(* Counting *)

LEMMA Positions ==
    ASSUME NEW S, NEW s \in Seq(S)
    PROVE  /\ Len(s) \in Nat
           /\ DOMAIN s = 1..Len(s)
           /\ \A i \in DOMAIN s : s[i] \in S
           /\ s \in [1..Len(s) -> S]
  OBVIOUS

LEMMA Finite ==
    ASSUME NEW S, NEW s \in Seq(S), NEW T \in SUBSET DOMAIN s
    PROVE  IsFiniteSet(T) /\ Cardinality(T) \in Nat
  <1>1. Len(s) \in Nat /\ DOMAIN s = 1..Len(s) BY Positions
  <1>2. IsFiniteSet(1..Len(s)) BY <1>1, FS_Interval
  <1>3. QED BY <1>1, <1>2, FS_Subset, FS_CardinalityType

\* One task moves into a phase, or neither into nor out of it.
LEMMA PhaseCount ==
    ASSUME NEW s \in Seq(Task), NEW i \in DOMAIN s, NEW t \in Task, NEW phase,
           s[i].phase # phase
    PROVE  LET s2 == [s EXCEPT ![i] = t]
           IN  Cardinality(At(s2, phase)) =
                  IF t.phase = phase THEN Cardinality(At(s, phase)) + 1
                  ELSE Cardinality(At(s, phase))
  <1> DEFINE s2 == [s EXCEPT ![i] = t]
  <1>1. DOMAIN s2 = DOMAIN s /\ s2[i] = t /\ \A j \in DOMAIN s : j # i => s2[j] = s[j]
    OBVIOUS
  <1>2. At(s2, phase) = IF t.phase = phase THEN At(s, phase) \cup {i} ELSE At(s, phase)
    <2> HIDE DEF s2
    <2>1. CASE t.phase = phase BY <1>1, <2>1 DEF At
    <2>2. CASE t.phase # phase BY <1>1, <2>2 DEF At
    <2>3. QED BY <2>1, <2>2
  <1>3. IsFiniteSet(At(s, phase)) /\ Cardinality(At(s, phase)) \in Nat
    <2>1. At(s, phase) \in SUBSET DOMAIN s BY DEF At
    <2>2. QED BY <2>1, Finite
  <1>4. i \notin At(s, phase) BY DEF At
  <1>5. Cardinality(At(s, phase) \cup {i}) = Cardinality(At(s, phase)) + 1
    BY <1>3, <1>4, FS_AddElement
  <1>6. QED BY <1>2, <1>5

\* A record is queued for its own emission.
LEMMA QueueCount ==
    ASSUME NEW q \in Seq(DeadLetteredEvent), NEW d \in DeadLetteredEvent, NEW e \in Emissions
    PROVE  /\ Cardinality(Of(q, e)) \in Nat
           /\ Cardinality(Of(Append(q, d), e)) =
                 IF d.eventId = e THEN Cardinality(Of(q, e)) + 1 ELSE Cardinality(Of(q, e))
  <1> DEFINE q2 == Append(q, d)
             n == Len(q) + 1
  <1>1. /\ Len(q) \in Nat /\ DOMAIN q = 1..Len(q) /\ DOMAIN q2 = 1..n
        /\ q2[n] = d /\ \A j \in 1..Len(q) : q2[j] = q[j]
    OBVIOUS
  <1>2. DOMAIN q2 = DOMAIN q \cup {n} /\ n \notin DOMAIN q BY <1>1
  <1>3. Of(q2, e) = IF d.eventId = e THEN Of(q, e) \cup {n} ELSE Of(q, e)
    <2> HIDE DEF q2, n
    <2>1. CASE d.eventId = e BY <1>1, <1>2, <2>1 DEF Of
    <2>2. CASE d.eventId # e BY <1>1, <1>2, <2>2 DEF Of
    <2>3. QED BY <2>1, <2>2
  <1>4. IsFiniteSet(Of(q, e)) /\ Cardinality(Of(q, e)) \in Nat
    <2>1. Of(q, e) \in SUBSET DOMAIN q BY DEF Of
    <2>2. QED BY <2>1, Finite
  <1>5. n \notin Of(q, e) BY <1>2 DEF Of
  <1>6. Cardinality(Of(q, e) \cup {n}) = Cardinality(Of(q, e)) + 1
    BY <1>4, <1>5, FS_AddElement
  <1>7. QED BY <1>3, <1>4, <1>6

LEMMA NothingQueued ==
    /\ \A e : Of(<<>>, e) = {}
    /\ \A phase : At(<<>>, phase) = {}
    /\ Cardinality({}) = 0
  BY FS_EmptySet DEF Of, At

-----------------------------------------------------------------------------
(* Steps of one task *)

\* A step of a running call replaces one of its tasks.
ReplacesTask(e, i, t) ==
    /\ emission' \in [Emissions -> Emission]
    /\ emission'[e].task = [emission[e].task EXCEPT ![i] = t]
    /\ emission'[e].status = "running"
    /\ \A o \in Emissions \ {e} : emission'[o] = emission[o]

\* What SettledTaskIsFinal says of one step.
KeepsSettled ==
    \A e \in Emissions : \A i \in DOMAIN emission[e].task :
        emission[e].task[i].phase \in Settled =>
            emission'[e].task[i] = emission[e].task[i]

LEMMA OthersKept ==
    ASSUME BusInv, NEW e \in Emissions, NEW i \in DOMAIN emission[e].task, NEW t,
           emission[e].task[i].phase \notin Settled, ReplacesTask(e, i, t)
    PROVE  KeepsSettled
  <1> SUFFICES ASSUME NEW o \in Emissions, NEW j \in DOMAIN emission[o].task,
                      emission[o].task[j].phase \in Settled
               PROVE  emission'[o].task[j] = emission[o].task[j]
    BY DEF KeepsSettled
  <1>1. CASE o = e
    <2>1. j # i BY <1>1
    <2>2. QED BY <1>1, <2>1 DEF BusInv, TypeOK, Emission, ReplacesTask
  <1>2. CASE o # e BY <1>2 DEF ReplacesTask
  <1>3. QED BY <1>1, <1>2

\* Whatever it is replaced by keeps the invariant, if that task is consistent.
LEMMA ReplacedTask ==
    ASSUME BusInv, NEW e \in Emissions, NEW i \in DOMAIN emission[e].task, NEW t,
           TaskOK(t), ReplacesTask(e, i, t)
    PROVE  TasksOK' /\ Lifecycle'
  <1>1. /\ DOMAIN emission'[e].task = DOMAIN emission[e].task
        /\ emission'[e].task[i] = t
        /\ \A j \in DOMAIN emission[e].task : j # i => emission'[e].task[j] = emission[e].task[j]
    BY DEF BusInv, TypeOK, Emission, ReplacesTask
  <1>2. ASSUME NEW o \in Emissions, NEW j \in DOMAIN emission'[o].task
        PROVE  TaskOK(emission'[o].task[j])
    <2>1. CASE o = e
      <3>1. CASE j = i BY <1>1, <2>1, <3>1
      <3>2. CASE j # i BY <1>1, <1>2, <2>1, <3>2 DEF BusInv, TasksOK
      <3>3. QED BY <3>1, <3>2
    <2>2. CASE o # e BY <1>2, <2>2 DEF ReplacesTask, BusInv, TasksOK
    <2>3. QED BY <2>1, <2>2
  <1>3. Lifecycle' BY DEF BusInv, Lifecycle, ReplacesTask
  <1>4. QED BY <1>2, <1>3 DEF TasksOK

\* The records of the queue are those of dead tasks, and these are as they were.
LEMMA DeadStayDead ==
    ASSUME BusInv, NEW e \in Emissions, NEW i \in DOMAIN emission[e].task, NEW t,
           emission[e].task[i].phase # "dead", ReplacesTask(e, i, t),
           NEW k \in DOMAIN deadLetterQueue
    PROVE  LET d == deadLetterQueue[k]
           IN  \E j \in At(emission'[d.eventId].task, "dead") :
                  d.attempts = emission'[d.eventId].task[j].maxRetries + 1
  <1> DEFINE d == deadLetterQueue[k]
  <1>1. d.eventId \in Emissions
    <2>1. d \in DeadLetteredEvent BY Positions DEF BusInv, TypeOK
    <2>2. QED BY <2>1 DEF DeadLetteredEvent
  <1>2. PICK j \in InPhase(d.eventId, "dead") :
            d.attempts = emission[d.eventId].task[j].maxRetries + 1
    BY DEF BusInv, DeadLettersMatchFailures
  <1> HIDE DEF d
  <1>3. /\ j \in DOMAIN emission'[d.eventId].task
        /\ emission'[d.eventId].task[j] = emission[d.eventId].task[j]
    <2>1. CASE d.eventId = e
      <3>1. j # i /\ j \in DOMAIN emission[e].task BY <1>2, <2>1 DEF InPhase
      <3>2. QED BY <2>1, <3>1 DEF BusInv, TypeOK, Emission, ReplacesTask
    <2>2. CASE d.eventId # e BY <1>1, <1>2, <2>2 DEF ReplacesTask, InPhase
    <2>3. QED BY <2>1, <2>2
  <1>4. j \in At(emission'[d.eventId].task, "dead") BY <1>2, <1>3 DEF InPhase, At
  <1>5. QED BY <1>2, <1>3, <1>4 DEF d

\* A step that touches neither the queue nor the registry.
LEMMA QuietStep ==
    ASSUME BusInv, NEW e \in Emissions, NEW i \in DOMAIN emission[e].task, NEW t,
           TaskOK(t), ReplacesTask(e, i, t), t.phase # "dead",
           emission[e].task[i].phase \notin Settled,
           emission'[e].delivered =
              IF t.phase = "delivered" THEN emission[e].delivered + 1 ELSE emission[e].delivered,
           emission'[e].deadLettered = emission[e].deadLettered,
           emission'[e].failed = emission[e].failed,
           UNCHANGED <<listeners, listenerMaxRetries, deadLetterQueue, cleared, crashes>>
    PROVE  BusInv' /\ KeepsSettled
  <1> DEFINE s == emission[e].task
  <1>0. s \in Seq(Task) /\ t \in Task /\ emission'[e].task = [s EXCEPT ![i] = t]
    BY DEF BusInv, TypeOK, Emission, TaskOK, ReplacesTask
  <1>1. TasksOK' /\ Lifecycle' BY ReplacedTask
  <1>2. TypeOK'
    <2>1. \A o \in Emissions : \A j \in DOMAIN emission'[o].task :
              LET u == emission'[o].task[j]
              IN  u.phase \in {"running", "sleeping"} => u.attempt <= u.maxRetries
      BY <1>1 DEF TasksOK, TaskOK
    <2>2. emission' \in [Emissions -> Emission] BY DEF ReplacesTask
    <2>3. QED BY <2>1, <2>2 DEF BusInv, TypeOK
  <1>3. /\ Cardinality(At(emission'[e].task, "delivered")) =
              IF t.phase = "delivered" THEN Cardinality(At(s, "delivered")) + 1
              ELSE Cardinality(At(s, "delivered"))
        /\ Cardinality(At(emission'[e].task, "dead")) = Cardinality(At(s, "dead"))
    <2>1. s[i].phase # "delivered" /\ s[i].phase # "dead" BY DEF Settled
    <2> HIDE DEF s
    <2>2. i \in DOMAIN s BY DEF s
    <2>3. QED BY <1>0, <2>1, <2>2, PhaseCount
  <1>4. Counted'
    <2>1. CountedFor(emission'[e]) BY <1>3 DEF BusInv, Counted, CountedFor
    <2>2. \A o \in Emissions \ {e} : CountedFor(emission'[o])
      BY DEF BusInv, Counted, ReplacesTask
    <2>3. QED BY <2>1, <2>2 DEF Counted
  <1>5. DeadLettersMatchFailures'
    <2>1. ASSUME NEW o \in Emissions
          PROVE  Queued(o)' + cleared'[o] = Cardinality(InPhase(o, "dead")')
      <3>1. Queued(o)' = Queued(o) BY DEF Queued
      <3>2. Cardinality(InPhase(o, "dead")') = Cardinality(InPhase(o, "dead"))
        <4>1. CASE o = e BY <1>3, <4>1 DEF InPhase, At
        <4>2. CASE o # e BY <4>2 DEF InPhase, ReplacesTask
        <4>3. QED BY <4>1, <4>2
      <3>3. QED BY <3>1, <3>2 DEF BusInv, DeadLettersMatchFailures
    <2>2. ASSUME NEW k \in DOMAIN deadLetterQueue
          PROVE  LET d == deadLetterQueue[k]
                 IN  \E j \in At(emission'[d.eventId].task, "dead") :
                        d.attempts = emission'[d.eventId].task[j].maxRetries + 1
      BY DeadStayDead DEF Settled
    <2>3. QED BY <2>1, <2>2 DEF DeadLettersMatchFailures, InPhase, At
  <1>6. KeepsSettled BY OthersKept DEF Settled
  <1>7. QED BY <1>6, <1>1, <1>2, <1>4, <1>5 DEF BusInv

-----------------------------------------------------------------------------
(* The actions *)

\* A step of a task is a step of a call in flight, on a consistent task.
LEMMA TaskInFlight ==
    ASSUME BusInv, NEW e \in Emissions, NEW i, IsRunning(e, i)
    PROVE  /\ i \in DOMAIN emission[e].task
           /\ emission[e] \in Emission /\ emission[e].task \in Seq(Task)
           /\ emission[e].status = "running"
           /\ emission[e].task[i] \in Task /\ TaskOK(emission[e].task[i])
           /\ \A m \in RetryOptions \cup {DEFAULT_MAX_RETRIES} : m \in Int
  BY BusAssumption DEF BusInv, TypeOK, Emission, TasksOK, TaskOK, IsRunning

LEMMA TypedTask ==
    ASSUME NEW t, TaskOK(t)
    PROVE  /\ t.maxRetries \in Int /\ t.attempt \in Nat /\ t.calls \in Nat
           /\ t.phase \in {"running", "sleeping", "delivered", "dead", "skipped"}
  <1>1. \A m \in RetryOptions \cup {DEFAULT_MAX_RETRIES} : m \in Int
    BY BusAssumption
  <1>2. t \in Task BY DEF TaskOK
  <1>3. QED BY <1>1, <1>2 DEF Task

\* What each step makes of a consistent task.
Delivered(t) == [t EXCEPT !.phase = "delivered"]
Woken(t) == [t EXCEPT !.phase = "running", !.calls = t.calls + 1]
Failed(t) == [t EXCEPT !.attempt = @ + 1]
Asleep(t) == [t EXCEPT !.phase = "sleeping"]
Dead(t) == [t EXCEPT !.phase = "dead"]

LEMMA NextTask ==
    ASSUME NEW t \in Task, TaskOK(t), t.maxRetries \in Int
    PROVE  /\ t.phase = "running" => TaskOK(Delivered(t))
           /\ t.phase = "sleeping" => TaskOK(Woken(t))
           /\ t.phase = "running" /\ ~Exhausted(Failed(t)) => TaskOK(Asleep(Failed(t)))
           /\ t.phase = "running" /\ Exhausted(Failed(t)) =>
                 /\ TaskOK(Dead(Failed(t)))
                 /\ Failed(t).attempt = t.maxRetries + 1
                 /\ Dead(Failed(t)).maxRetries = t.maxRetries
           /\ Delivered(t).phase = "delivered" /\ Woken(t).phase = "running"
           /\ Asleep(Failed(t)).phase = "sleeping" /\ Dead(Failed(t)).phase = "dead"
  <1>1. ASSUME t.phase = "running" PROVE TaskOK(Delivered(t))
    BY <1>1 DEF TaskOK, Task, Delivered
  <1>2. ASSUME t.phase = "sleeping" PROVE TaskOK(Woken(t))
    <2>1. /\ Woken(t) \in Task /\ Woken(t).phase = "running"
          /\ Woken(t).attempt = t.attempt /\ Woken(t).maxRetries = t.maxRetries
          /\ Woken(t).calls = t.calls + 1
      <3> DEFINE a == [t EXCEPT !.phase = "running"]
      <3>1. /\ a \in Task /\ a.phase = "running" /\ a.calls = t.calls
            /\ a.attempt = t.attempt /\ a.maxRetries = t.maxRetries
        BY DEF Task
      <3>2. Woken(t) = [a EXCEPT !.calls = t.calls + 1] BY DEF Woken
      <3> HIDE DEF a
      <3>3. QED BY <3>1, <3>2 DEF Task
    <2>2. QED BY <1>2, <2>1 DEF TaskOK
  <1>3. /\ Failed(t) \in Task /\ Failed(t).attempt = t.attempt + 1
        /\ Failed(t).maxRetries = t.maxRetries /\ Failed(t).calls = t.calls
        /\ t.attempt \in Nat /\ t.calls \in Nat
    BY DEF Task, Failed
  <1>4. ASSUME NEW u \in Task
        PROVE  /\ Asleep(u) \in Task /\ Dead(u) \in Task
               /\ Asleep(u).phase = "sleeping" /\ Dead(u).phase = "dead"
               /\ Asleep(u).attempt = u.attempt /\ Asleep(u).maxRetries = u.maxRetries
               /\ Asleep(u).calls = u.calls
               /\ Dead(u).maxRetries = u.maxRetries /\ Dead(u).calls = u.calls
    BY DEF Task, Asleep, Dead
  <1>5. ASSUME t.phase = "running", ~Exhausted(Failed(t)) PROVE TaskOK(Asleep(Failed(t)))
    BY <1>3, <1>4, <1>5 DEF TaskOK, Exhausted
  <1>6. ASSUME t.phase = "running", Exhausted(Failed(t))
        PROVE  /\ TaskOK(Dead(Failed(t)))
               /\ Failed(t).attempt = t.maxRetries + 1
               /\ Dead(Failed(t)).maxRetries = t.maxRetries
    BY <1>3, <1>4, <1>6 DEF TaskOK, Exhausted
  <1>7. Delivered(t).phase = "delivered" /\ Woken(t).phase = "running"
    BY DEF Task, Delivered, Woken
  <1>8. QED BY <1>1, <1>2, <1>3, <1>4, <1>5, <1>6, <1>7

\* Each counter of a call goes up by itself.
LEMMA CountsDelivered ==
    ASSUME NEW h \in [Emissions -> Emission], NEW e \in Emissions
    PROVE  LET g == [h EXCEPT ![e].delivered = @ + 1]
           IN  /\ g \in [Emissions -> Emission]
               /\ g[e].task = h[e].task /\ g[e].status = h[e].status
               /\ g[e].delivered = h[e].delivered + 1
               /\ g[e].deadLettered = h[e].deadLettered /\ g[e].failed = h[e].failed
               /\ \A o \in Emissions \ {e} : g[o] = h[o]
  <1> DEFINE v == h[e].delivered + 1
             n == [h[e] EXCEPT !.delivered = v]
  <1>1. v \in Nat /\ h[e] \in Emission BY DEF Emission
  <1>2. [h EXCEPT ![e].delivered = @ + 1] = [h EXCEPT ![e] = n] OBVIOUS
  <1> HIDE DEF v
  <1>3. /\ n \in Emission /\ n.task = h[e].task /\ n.status = h[e].status
        /\ n.delivered = v
        /\ n.deadLettered = h[e].deadLettered /\ n.failed = h[e].failed
    BY <1>1 DEF Emission
  <1> HIDE DEF n
  <1>4. QED BY <1>2, <1>3 DEF v

LEMMA CountsDeadLettered ==
    ASSUME NEW h \in [Emissions -> Emission], NEW e \in Emissions
    PROVE  LET g == [h EXCEPT ![e].deadLettered = @ + 1]
           IN  /\ g \in [Emissions -> Emission]
               /\ g[e].task = h[e].task /\ g[e].status = h[e].status
               /\ g[e].deadLettered = h[e].deadLettered + 1
               /\ g[e].delivered = h[e].delivered /\ g[e].failed = h[e].failed
               /\ \A o \in Emissions \ {e} : g[o] = h[o]
  <1> DEFINE v == h[e].deadLettered + 1
             n == [h[e] EXCEPT !.deadLettered = v]
  <1>1. v \in Nat /\ h[e] \in Emission BY DEF Emission
  <1>2. [h EXCEPT ![e].deadLettered = @ + 1] = [h EXCEPT ![e] = n] OBVIOUS
  <1> HIDE DEF v
  <1>3. /\ n \in Emission /\ n.task = h[e].task /\ n.status = h[e].status
        /\ n.deadLettered = v
        /\ n.delivered = h[e].delivered /\ n.failed = h[e].failed
    BY <1>1 DEF Emission
  <1> HIDE DEF n
  <1>4. QED BY <1>2, <1>3 DEF v

LEMMA CountsFailed ==
    ASSUME NEW h \in [Emissions -> Emission], NEW e \in Emissions
    PROVE  LET g == [h EXCEPT ![e].failed = @ + 1]
           IN  /\ g \in [Emissions -> Emission]
               /\ g[e].task = h[e].task /\ g[e].status = h[e].status
               /\ g[e].failed = h[e].failed + 1
               /\ g[e].delivered = h[e].delivered /\ g[e].deadLettered = h[e].deadLettered
               /\ \A o \in Emissions \ {e} : g[o] = h[o]
  <1> DEFINE v == h[e].failed + 1
             n == [h[e] EXCEPT !.failed = v]
  <1>1. v \in Nat /\ h[e] \in Emission BY DEF Emission
  <1>2. [h EXCEPT ![e].failed = @ + 1] = [h EXCEPT ![e] = n] OBVIOUS
  <1> HIDE DEF v
  <1>3. /\ n \in Emission /\ n.task = h[e].task /\ n.status = h[e].status
        /\ n.failed = v
        /\ n.delivered = h[e].delivered /\ n.deadLettered = h[e].deadLettered
    BY <1>1 DEF Emission
  <1> HIDE DEF n
  <1>4. QED BY <1>2, <1>3 DEF v

LEMMA ResolvesInv ==
    ASSUME BusInv, NEW e \in Emissions, NEW i, ListenerResolves(e, i)
    PROVE  BusInv' /\ KeepsSettled
  <1> DEFINE t == Delivered(emission[e].task[i])
  <1>0. IsRunning(e, i) /\ emission[e].task[i].phase = "running" BY DEF ListenerResolves
  <1>1. TaskOK(t) /\ t.phase = "delivered"
    BY <1>0, TaskInFlight, NextTask DEF Task
  <1>2. emission' = [emission EXCEPT ![e].task[i] = t, ![e].delivered = @ + 1]
    BY DEF ListenerResolves, Delivered
  <1>3. UNCHANGED <<listeners, listenerMaxRetries, deadLetterQueue, cleared, crashes>>
    BY DEF ListenerResolves
  <1>4. emission \in [Emissions -> Emission] /\ t \in Task
    BY <1>1 DEF BusInv, TypeOK, TaskOK
  <1> HIDE DEF t
  <1>5. i \in DOMAIN emission[e].task /\ emission[e].status = "running"
    BY <1>0, TaskInFlight
  <1>6. /\ emission' \in [Emissions -> Emission]
        /\ emission'[e].task = [emission[e].task EXCEPT ![i] = t]
        /\ emission'[e].status = emission[e].status
        /\ emission'[e].delivered = emission[e].delivered + 1
        /\ emission'[e].deadLettered = emission[e].deadLettered
        /\ emission'[e].failed = emission[e].failed
        /\ \A o \in Emissions \ {e} : emission'[o] = emission[o]
    <2>1. [emission[e].task EXCEPT ![i] = t] \in Seq(Task) BY <1>4, <1>5 DEF Emission
    <2> DEFINE h == [emission EXCEPT ![e].task[i] = t]
    <2>2. /\ h \in [Emissions -> Emission]
          /\ h[e].task = [emission[e].task EXCEPT ![i] = t]
          /\ h[e].status = emission[e].status /\ h[e].delivered = emission[e].delivered
          /\ h[e].deadLettered = emission[e].deadLettered /\ h[e].failed = emission[e].failed
          /\ \A o \in Emissions \ {e} : h[o] = emission[o]
      BY <1>4, <1>5, <2>1 DEF Emission
    <2>3. emission' = [h EXCEPT ![e].delivered = @ + 1] BY <1>2
    <2> HIDE DEF h
    <2>4. QED BY <2>2, <2>3, CountsDelivered
  <1>7. ReplacesTask(e, i, t) BY <1>5, <1>6 DEF ReplacesTask
  <1>8. QED BY <1>0, <1>1, <1>3, <1>5, <1>6, <1>7, QuietStep DEF Settled

LEMMA WakeInv ==
    ASSUME BusInv, NEW e \in Emissions, NEW i, wake(e, i)
    PROVE  BusInv' /\ KeepsSettled
  <1> DEFINE t == Woken(emission[e].task[i])
  <1>0. IsRunning(e, i) /\ emission[e].task[i].phase = "sleeping" BY DEF wake
  <1>1. TaskOK(t) /\ t.phase = "running"
    BY <1>0, TaskInFlight, NextTask DEF Task
  <1>2. emission' = [emission EXCEPT ![e].task[i] = t]
    BY DEF wake, Woken
  <1>3. UNCHANGED <<listeners, listenerMaxRetries, deadLetterQueue, cleared, crashes>>
    BY DEF wake
  <1>4. emission \in [Emissions -> Emission] /\ t \in Task
    BY <1>1 DEF BusInv, TypeOK, TaskOK
  <1> HIDE DEF t
  <1>5. i \in DOMAIN emission[e].task /\ emission[e].status = "running"
    BY <1>0, TaskInFlight
  <1>6. /\ emission' \in [Emissions -> Emission]
        /\ emission'[e].task = [emission[e].task EXCEPT ![i] = t]
        /\ emission'[e].status = emission[e].status
        /\ emission'[e].delivered = emission[e].delivered
        /\ emission'[e].deadLettered = emission[e].deadLettered
        /\ emission'[e].failed = emission[e].failed
        /\ \A o \in Emissions \ {e} : emission'[o] = emission[o]
    <2>1. [emission[e].task EXCEPT ![i] = t] \in Seq(Task) BY <1>4, <1>5 DEF Emission
    <2>2. QED BY <1>2, <1>4, <1>5, <2>1 DEF Emission
  <1>7. ReplacesTask(e, i, t) BY <1>5, <1>6 DEF ReplacesTask
  <1>8. QED BY <1>0, <1>1, <1>3, <1>5, <1>6, <1>7, QuietStep DEF Settled

\* The catch block with budget left.
LEMMA BackOffInv ==
    ASSUME BusInv, NEW e \in Emissions, NEW i, ListenerRejects(e, i),
           ~Exhausted(Failed(emission[e].task[i]))
    PROVE  BusInv' /\ KeepsSettled
  <1> DEFINE u == Failed(emission[e].task[i])
             t == Asleep(u)
  <1>0. /\ IsRunning(e, i) /\ emission[e].task[i].phase = "running" /\ backOff(e, i, u)
        /\ UNCHANGED <<listeners, listenerMaxRetries, cleared, crashes>>
    BY DEF ListenerRejects, Failed
  <1>1. TaskOK(t) /\ t.phase = "sleeping"
    BY <1>0, TaskInFlight, NextTask DEF Task
  <1>2. emission' = [emission EXCEPT ![e].task[i] = t]
    BY <1>0 DEF backOff, Asleep
  <1>3. UNCHANGED <<listeners, listenerMaxRetries, deadLetterQueue, cleared, crashes>>
    BY <1>0 DEF backOff
  <1>4. emission \in [Emissions -> Emission] /\ t \in Task
    BY <1>1 DEF BusInv, TypeOK, TaskOK
  <1> HIDE DEF t
  <1>5. i \in DOMAIN emission[e].task /\ emission[e].status = "running"
    BY <1>0, TaskInFlight
  <1>6. /\ emission' \in [Emissions -> Emission]
        /\ emission'[e].task = [emission[e].task EXCEPT ![i] = t]
        /\ emission'[e].status = emission[e].status
        /\ emission'[e].delivered = emission[e].delivered
        /\ emission'[e].deadLettered = emission[e].deadLettered
        /\ emission'[e].failed = emission[e].failed
        /\ \A o \in Emissions \ {e} : emission'[o] = emission[o]
    <2>1. [emission[e].task EXCEPT ![i] = t] \in Seq(Task) BY <1>4, <1>5 DEF Emission
    <2>2. QED BY <1>2, <1>4, <1>5, <2>1 DEF Emission
  <1>7. ReplacesTask(e, i, t) BY <1>5, <1>6 DEF ReplacesTask
  <1>8. QED BY <1>0, <1>1, <1>3, <1>5, <1>6, <1>7, QuietStep DEF Settled

\* The catch block with none left: the event is counted and queued.
LEMMA DeadLetterInv ==
    ASSUME BusInv, NEW e \in Emissions, NEW i, ListenerRejects(e, i),
           Exhausted(Failed(emission[e].task[i]))
    PROVE  BusInv' /\ KeepsSettled
  <1> DEFINE old == emission[e].task[i]
             t == Dead(Failed(old))
             d == [eventId |-> e, attempts |-> Failed(old).attempt]
  <1>1. /\ IsRunning(e, i) /\ old.phase = "running" /\ deadLetter(e, i, Failed(old))
        /\ UNCHANGED <<listeners, listenerMaxRetries, cleared, crashes>>
    BY DEF ListenerRejects, Failed
  <1>2. /\ i \in DOMAIN emission[e].task /\ emission[e].status = "running"
        /\ old \in Task /\ TaskOK(old) /\ old.maxRetries \in Int
        /\ emission \in [Emissions -> Emission] /\ emission[e].task \in Seq(Task)
    BY <1>1, TaskInFlight DEF Task, BusInv, TypeOK
  <1>3. /\ TaskOK(t) /\ t \in Task /\ t.phase = "dead" /\ t.maxRetries = old.maxRetries
        /\ Failed(old).attempt = t.maxRetries + 1 /\ Failed(old).attempt \in Nat
    <2>1. /\ TaskOK(t) /\ t.phase = "dead" /\ t.maxRetries = old.maxRetries
          /\ Failed(old).attempt = t.maxRetries + 1
      BY <1>1, <1>2, NextTask
    <2>2. Failed(old).attempt \in Nat BY <1>2 DEF Failed, Task
    <2>3. QED BY <2>1, <2>2 DEF TaskOK
  <1>4. /\ deadLetterQueue' = Append(deadLetterQueue, d)
        /\ emission' = [emission EXCEPT ![e].task[i] = t, ![e].deadLettered = @ + 1,
                                        ![e].failed = @ + 1]
    BY <1>1 DEF deadLetter, Dead
  <1>5. d \in DeadLetteredEvent /\ d.eventId = e /\ d.attempts = t.maxRetries + 1
    BY <1>3 DEF DeadLetteredEvent
  <1> HIDE DEF d, t
  <1>6. /\ emission' \in [Emissions -> Emission]
        /\ emission'[e].task = [emission[e].task EXCEPT ![i] = t]
        /\ emission'[e].status = emission[e].status
        /\ emission'[e].delivered = emission[e].delivered
        /\ emission'[e].deadLettered = emission[e].deadLettered + 1
        /\ emission'[e].failed = emission[e].failed + 1
        /\ \A o \in Emissions \ {e} : emission'[o] = emission[o]
    <2>1. [emission[e].task EXCEPT ![i] = t] \in Seq(Task) BY <1>2, <1>3
    <2> DEFINE h == [emission EXCEPT ![e].task[i] = t]
               g == [h EXCEPT ![e].deadLettered = @ + 1]
    <2>2. /\ h \in [Emissions -> Emission]
          /\ h[e].task = [emission[e].task EXCEPT ![i] = t]
          /\ h[e].status = emission[e].status /\ h[e].delivered = emission[e].delivered
          /\ h[e].deadLettered = emission[e].deadLettered /\ h[e].failed = emission[e].failed
          /\ \A o \in Emissions \ {e} : h[o] = emission[o]
      BY <1>2, <2>1 DEF Emission
    <2>3. emission' = [g EXCEPT ![e].failed = @ + 1] BY <1>4
    <2> HIDE DEF h
    <2>4. /\ g \in [Emissions -> Emission]
          /\ g[e].task = h[e].task /\ g[e].status = h[e].status
          /\ g[e].deadLettered = h[e].deadLettered + 1
          /\ g[e].delivered = h[e].delivered /\ g[e].failed = h[e].failed
          /\ \A o \in Emissions \ {e} : g[o] = h[o]
      BY <2>2, CountsDeadLettered
    <2> HIDE DEF g
    <2>5. /\ emission' \in [Emissions -> Emission]
          /\ emission'[e].task = g[e].task /\ emission'[e].status = g[e].status
          /\ emission'[e].failed = g[e].failed + 1
          /\ emission'[e].delivered = g[e].delivered
          /\ emission'[e].deadLettered = g[e].deadLettered
          /\ \A o \in Emissions \ {e} : emission'[o] = g[o]
      BY <2>3, <2>4, CountsFailed
    <2>6. QED BY <2>2, <2>4, <2>5
  <1>7. ReplacesTask(e, i, t) BY <1>2, <1>6 DEF ReplacesTask
  <1>8. TasksOK' /\ Lifecycle' BY <1>2, <1>3, <1>7, ReplacedTask
  <1>9. /\ deadLetterQueue \in Seq(DeadLetteredEvent)
        /\ deadLetterQueue' \in Seq(DeadLetteredEvent)
        /\ DOMAIN deadLetterQueue' = DOMAIN deadLetterQueue \cup {Len(deadLetterQueue) + 1}
        /\ deadLetterQueue'[Len(deadLetterQueue) + 1] = d
        /\ \A k \in DOMAIN deadLetterQueue : deadLetterQueue'[k] = deadLetterQueue[k]
    <2>1. deadLetterQueue \in Seq(DeadLetteredEvent) BY DEF BusInv, TypeOK
    <2>2. QED BY <1>4, <1>5, <2>1
  <1>10. TypeOK'
    <2>1. \A o \in Emissions : \A j \in DOMAIN emission'[o].task :
              LET u == emission'[o].task[j]
              IN  u.phase \in {"running", "sleeping"} => u.attempt <= u.maxRetries
      BY <1>8 DEF TasksOK, TaskOK
    <2>2. QED BY <1>1, <1>6, <1>9, <2>1 DEF BusInv, TypeOK
  <1>11. /\ Cardinality(At(emission'[e].task, "delivered")) =
               Cardinality(At(emission[e].task, "delivered"))
         /\ Cardinality(At(emission'[e].task, "dead")) =
               Cardinality(At(emission[e].task, "dead")) + 1
    <2> DEFINE s == emission[e].task
    <2>1. /\ s \in Seq(Task) /\ i \in DOMAIN s
          /\ s[i].phase # "delivered" /\ s[i].phase # "dead"
      BY <1>1, <1>2
    <2>2. emission'[e].task = [s EXCEPT ![i] = t] BY <1>6
    <2> HIDE DEF s
    <2>3. /\ Cardinality(At([s EXCEPT ![i] = t], "delivered")) = Cardinality(At(s, "delivered"))
          /\ Cardinality(At([s EXCEPT ![i] = t], "dead")) = Cardinality(At(s, "dead")) + 1
      BY <1>3, <2>1, PhaseCount
    <2>4. QED BY <2>2, <2>3 DEF s
  <1>12. Counted'
    <2>1. CountedFor(emission'[e]) BY <1>6, <1>11 DEF BusInv, Counted, CountedFor
    <2>2. \A o \in Emissions \ {e} : CountedFor(emission'[o])
      BY <1>6 DEF BusInv, Counted
    <2>3. QED BY <2>1, <2>2 DEF Counted
  <1>13. ASSUME NEW o \in Emissions
         PROVE  Queued(o)' + cleared'[o] = Cardinality(InPhase(o, "dead")')
    <2>1. Queued(o) + cleared[o] = Cardinality(InPhase(o, "dead"))
      BY DEF BusInv, DeadLettersMatchFailures
    <2>2. /\ Queued(o) \in Nat /\ cleared[o] \in Nat /\ cleared' = cleared
          /\ Queued(o)' = IF e = o THEN Queued(o) + 1 ELSE Queued(o)
      <3>1. Queued(o) = Cardinality(Of(deadLetterQueue, o)) BY DEF Queued, Of
      <3>2. Queued(o)' = Cardinality(Of(Append(deadLetterQueue, d), o))
        BY <1>4 DEF Queued, Of
      <3>3. QED BY <1>1, <1>5, <1>9, <3>1, <3>2, QueueCount DEF BusInv, TypeOK
    <2>3. CASE o = e
      <3>1. Cardinality(InPhase(o, "dead")') = Cardinality(InPhase(o, "dead")) + 1
        BY <1>11, <2>3 DEF InPhase, At
      <3>2. QED BY <2>1, <2>2, <2>3, <3>1
    <2>4. CASE o # e
      <3>1. InPhase(o, "dead")' = InPhase(o, "dead") BY <1>6, <2>4 DEF InPhase
      <3>2. QED BY <2>1, <2>2, <2>4, <3>1
    <2>5. QED BY <2>3, <2>4
  <1>14. ASSUME NEW k \in DOMAIN deadLetterQueue'
         PROVE  LET r == deadLetterQueue'[k]
                IN  \E j \in At(emission'[r.eventId].task, "dead") :
                       r.attempts = emission'[r.eventId].task[j].maxRetries + 1
    <2>1. CASE k \in DOMAIN deadLetterQueue
      BY <1>1, <1>2, <1>7, <1>9, <2>1, DeadStayDead
    <2>2. CASE k = Len(deadLetterQueue) + 1
      <3>1. i \in At(emission'[e].task, "dead") /\ emission'[e].task[i] = t
        BY <1>2, <1>3, <1>6 DEF At
      <3>2. QED BY <1>5, <1>9, <2>2, <3>1
    <2>3. QED BY <1>9, <2>1, <2>2
  <1>15. DeadLettersMatchFailures'
    BY <1>13, <1>14 DEF DeadLettersMatchFailures, InPhase, At
  <1>16. KeepsSettled BY <1>1, <1>2, <1>7, OthersKept DEF Settled
  <1>17. QED BY <1>16, <1>1, <1>8, <1>10, <1>12, <1>15 DEF BusInv

\* The steps of the registry leave the calls and the queue alone.
LEMMA RegistryInv ==
    ASSUME BusInv, UNCHANGED <<deadLetterQueue, emission, cleared, crashes>>,
           listeners' \in [Events -> Seq(Listeners)],
           \A ev \in Events : Len(listeners'[ev]) <= MaxListeners,
           DOMAIN listenerMaxRetries' \subseteq Listeners,
           \A l \in DOMAIN listenerMaxRetries' : listenerMaxRetries'[l] \in RetryOptions
    PROVE  BusInv' /\ KeepsSettled
  <1>1. TypeOK' BY DEF BusInv, TypeOK
  <1>2. (TasksOK /\ Counted /\ Lifecycle /\ DeadLettersMatchFailures)'
    BY DEF BusInv, TasksOK, Counted, CountedFor, Lifecycle, DeadLettersMatchFailures,
           Queued, InPhase
  <1>3. KeepsSettled BY DEF KeepsSettled
  <1>4. QED BY <1>3, <1>1, <1>2 DEF BusInv

LEMMA OnInv ==
    ASSUME BusInv, NEW ev \in Events, NEW l \in Listeners, NEW options \in OptionValues,
           on(ev, l, options)
    PROVE  BusInv' /\ KeepsSettled
  <1>1. UNCHANGED <<deadLetterQueue, emission, cleared, crashes>>
    BY DEF on
  <1>2. /\ listeners' \in [Events -> Seq(Listeners)]
        /\ \A x \in Events : Len(listeners'[x]) <= MaxListeners
    <2>1. listeners \in [Events -> Seq(Listeners)] BY DEF BusInv
    <2>2. /\ Append(listeners[ev], l) \in Seq(Listeners)
          /\ Len(Append(listeners[ev], l)) = Len(listeners[ev]) + 1
          /\ Len(listeners[ev]) \in Nat
      BY <2>1
    <2>3. Len(listeners[ev]) + 1 <= MaxListeners BY <2>2, BusAssumption DEF on
    <2>4. listeners' = [listeners EXCEPT ![ev] = Append(listeners[ev], l)]
      BY DEF on
    <2>5. QED BY <2>1, <2>2, <2>3, <2>4 DEF BusInv, TypeOK
  <1>3. /\ DOMAIN listenerMaxRetries' \subseteq Listeners
        /\ \A k \in DOMAIN listenerMaxRetries' : listenerMaxRetries'[k] \in RetryOptions
    <2>1. CASE options # {}
      <3>1. PICK m \in RetryOptions : options = {m} BY <2>1 DEF OptionValues
      <3>2. (CHOOSE x \in options : TRUE) = m BY <3>1
      <3>3. listenerMaxRetries' =
               [k \in DOMAIN listenerMaxRetries \cup {l} |->
                   IF k = l THEN m ELSE listenerMaxRetries[k]]
        BY <2>1, <3>2 DEF on
      <3>4. QED BY <3>3 DEF BusInv, TypeOK
    <2>2. CASE options = {} BY <2>2 DEF on, BusInv, TypeOK
    <2>3. QED BY <2>1, <2>2
  <1>4. QED BY <1>1, <1>2, <1>3, RegistryInv

LEMMA RemoveInv ==
    ASSUME BusInv, NEW gone \in SUBSET Events,
           listeners' = [ev \in Events |-> IF ev \in gone THEN <<>> ELSE listeners[ev]],
           UNCHANGED <<listenerMaxRetries, deadLetterQueue, emission, cleared, crashes>>
    PROVE  BusInv' /\ KeepsSettled
  <1>1. <<>> \in Seq(Listeners) /\ Len(<<>>) = 0 OBVIOUS
  <1>2. /\ listeners \in [Events -> Seq(Listeners)]
        /\ \A ev \in Events : Len(listeners[ev]) <= MaxListeners
        /\ DOMAIN listenerMaxRetries \subseteq Listeners
        /\ \A l \in DOMAIN listenerMaxRetries : listenerMaxRetries[l] \in RetryOptions
    BY DEF BusInv, TypeOK
  <1>3. listeners' \in [Events -> Seq(Listeners)] BY <1>1, <1>2
  <1>4. \A ev \in Events : Len(listeners'[ev]) <= MaxListeners
    BY <1>1, <1>2, BusAssumption
  <1>5. QED BY <1>2, <1>3, <1>4, RegistryInv

LEMMA OffInv ==
    ASSUME BusInv, NEW ev \in Events, off(ev) PROVE BusInv' /\ KeepsSettled
  <1>1. listeners' = [x \in Events |-> IF x \in {ev} THEN <<>> ELSE listeners[x]]
    BY DEF off, BusInv
  <1>2. QED BY <1>1, RemoveInv DEF off

LEMMA ClearAllInv ==
    ASSUME BusInv, clearAllListeners PROVE BusInv' /\ KeepsSettled
  <1>1. listeners' = [x \in Events |-> IF x \in Events THEN <<>> ELSE listeners[x]]
    BY DEF clearAllListeners
  <1>2. QED BY <1>1, RemoveInv DEF clearAllListeners

\* Emptying the queue moves what it held of each emission to the history.
LEMMA EmptiedQueue ==
    ASSUME BusInv, deadLetterQueue' = <<>>,
           cleared' = [e \in Emissions |-> cleared[e] + Queued(e)],
           \A e \in Emissions : InPhase(e, "dead")' = InPhase(e, "dead")
    PROVE  /\ DeadLettersMatchFailures'
           /\ cleared' \in [Emissions -> Nat]
           /\ deadLetterQueue' \in Seq(DeadLetteredEvent)
  <1>1. ASSUME NEW e \in Emissions PROVE Queued(e) \in Nat /\ Queued(e)' = 0
    <2>1. Queued(e) = Cardinality(Of(deadLetterQueue, e)) BY DEF Queued, Of
    <2>2. Of(deadLetterQueue, e) \in SUBSET DOMAIN deadLetterQueue BY DEF Of
    <2>3. Queued(e) \in Nat BY <2>1, <2>2, Finite DEF BusInv, TypeOK
    <2>4. Queued(e)' = Cardinality(Of(<<>>, e)) BY DEF Queued, Of
    <2>5. QED BY <2>3, <2>4, NothingQueued
  <1>2. cleared' \in [Emissions -> Nat] BY <1>1 DEF BusInv, TypeOK
  <1>3. ASSUME NEW e \in Emissions
        PROVE  Queued(e)' + cleared'[e] = Cardinality(InPhase(e, "dead")')
    <2>1. Queued(e) + cleared[e] = Cardinality(InPhase(e, "dead"))
      BY DEF BusInv, DeadLettersMatchFailures
    <2>2. cleared[e] \in Nat BY DEF BusInv, TypeOK
    <2>3. QED BY <1>1, <2>1, <2>2
  <1>4. DOMAIN deadLetterQueue' = {} OBVIOUS
  <1>5. DeadLettersMatchFailures' BY <1>3, <1>4 DEF DeadLettersMatchFailures
  <1>6. QED BY <1>2, <1>5

LEMMA ClearInv ==
    ASSUME BusInv, clearDeadLetterQueue
    PROVE  BusInv' /\ KeepsSettled
  <1>1. /\ UNCHANGED <<listeners, listenerMaxRetries, emission, crashes>>
        /\ deadLetterQueue' = <<>>
        /\ cleared' = [e \in Emissions |-> cleared[e] + Queued(e)]
    BY DEF clearDeadLetterQueue
  <1>2. \A e \in Emissions : InPhase(e, "dead")' = InPhase(e, "dead") BY <1>1 DEF InPhase
  <1>3. /\ DeadLettersMatchFailures' /\ cleared' \in [Emissions -> Nat]
        /\ deadLetterQueue' \in Seq(DeadLetteredEvent)
    BY <1>1, <1>2, EmptiedQueue
  <1>4. TypeOK' BY <1>1, <1>3 DEF BusInv, TypeOK
  <1>5. (TasksOK /\ Counted /\ Lifecycle)'
    BY <1>1 DEF BusInv, TasksOK, Counted, CountedFor, Lifecycle
  <1>6. KeepsSettled BY <1>1 DEF KeepsSettled
  <1>7. QED BY <1>6, <1>1, <1>3, <1>4, <1>5 DEF BusInv

\* A crash loses the calls in flight with the registry and the queue.
LEMMA CrashInv ==
    ASSUME BusInv, Crash
    PROVE  BusInv' /\ KeepsSettled
  <1>1. ASSUME NEW e \in Emissions
        PROVE  /\ emission'[e] \in Emission
               /\ emission'[e].task = emission[e].task
               /\ emission'[e].delivered = emission[e].delivered
               /\ emission'[e].deadLettered = emission[e].deadLettered
               /\ emission'[e].failed = emission[e].failed
               /\ emission'[e].status \in {emission[e].status, "lost"}
    <2>1. /\ emission[e] \in Emission
          /\ emission'[e] = IF emission[e].status = "running"
                            THEN [emission[e] EXCEPT !.status = "lost"] ELSE emission[e]
      BY DEF Crash, BusInv, TypeOK
    <2>2. QED BY <2>1 DEF Emission
  <1>2. \A e \in Emissions : InPhase(e, "dead")' = InPhase(e, "dead") BY <1>1 DEF InPhase
  <1>3. /\ DeadLettersMatchFailures' /\ cleared' \in [Emissions -> Nat]
        /\ deadLetterQueue' \in Seq(DeadLetteredEvent)
    BY <1>2, EmptiedQueue DEF Crash
  <1>4. /\ listeners' \in [Events -> Seq(Listeners)]
        /\ \A ev \in Events : Len(listeners'[ev]) <= MaxListeners
    <2>1. <<>> \in Seq(Listeners) /\ Len(<<>>) = 0 OBVIOUS
    <2>2. QED BY <2>1, BusAssumption DEF Crash
  <1>5. emission' \in [Emissions -> Emission] BY <1>1 DEF Crash
  <1>6. /\ DOMAIN listenerMaxRetries' = {}
        /\ crashes' \in 0..MaxCrashes
    BY BusAssumption DEF Crash, BusInv, TypeOK
  <1>7. TasksOK' BY <1>1 DEF BusInv, TasksOK
  <1>8. Lifecycle' BY <1>1 DEF BusInv, Lifecycle
  <1>9. Counted' BY <1>1 DEF BusInv, Counted, CountedFor
  <1>10. TypeOK'
    <2>1. \A e \in Emissions : \A j \in DOMAIN emission'[e].task :
              LET u == emission'[e].task[j]
              IN  u.phase \in {"running", "sleeping"} => u.attempt <= u.maxRetries
      BY <1>7 DEF TasksOK, TaskOK
    <2>2. QED BY <1>3, <1>4, <1>5, <1>6, <2>1 DEF TypeOK
  <1>11. KeepsSettled BY <1>1 DEF KeepsSettled
  <1>12. QED BY <1>11, <1>3, <1>4, <1>7, <1>8, <1>9, <1>10 DEF BusInv

\* Every task of a new call starts consistent, and none has settled by delivery.
LEMMA BegunTask ==
    ASSUME BusInv, NEW l \in Listeners
    PROVE  /\ TaskOK(beginTask(l))
           /\ beginTask(l).phase \notin {"delivered", "dead"}
  <1>1. maxRetriesOf(l) \in RetryOptions \cup {DEFAULT_MAX_RETRIES} /\ maxRetriesOf(l) \in Int
    <2>1. /\ \A k \in DOMAIN listenerMaxRetries : listenerMaxRetries[k] \in RetryOptions
          /\ \A m \in RetryOptions \cup {DEFAULT_MAX_RETRIES} : m \in Int
      BY BusAssumption DEF BusInv, TypeOK
    <2>2. QED BY <2>1 DEF maxRetriesOf
  <1>2. CASE 0 <= maxRetriesOf(l) BY <1>1, <1>2 DEF beginTask, TaskOK, Task
  <1>3. CASE ~(0 <= maxRetriesOf(l)) BY <1>1, <1>3 DEF beginTask, TaskOK, Task
  <1>4. QED BY <1>2, <1>3

LEMMA EmitInv ==
    ASSUME BusInv, NEW e \in Emissions, NEW ev \in Events, emit(e, ev)
    PROVE  BusInv' /\ KeepsSettled
  <1> DEFINE fns == listeners[ev]
             s == [i \in DOMAIN fns |-> beginTask(fns[i])]
  <1>1. fns \in Seq(Listeners) /\ DOMAIN fns = 1..Len(fns) /\ Len(fns) \in Nat
    BY DEF BusInv
  <1>2. /\ DOMAIN s = DOMAIN fns
        /\ \A i \in DOMAIN s : TaskOK(s[i]) /\ s[i].phase \notin {"delivered", "dead"}
    BY <1>1, BegunTask
  <1>3. s \in Seq(Task)
    <2>1. \A i \in DOMAIN fns : beginTask(fns[i]) \in Task BY <1>2 DEF TaskOK
    <2>2. QED BY <1>1, <2>1
  <1>4. At(s, "delivered") = {} /\ At(s, "dead") = {} BY <1>2 DEF At
  <1>5. emission' = [emission EXCEPT ![e].status = "running", ![e].task = s]
    BY DEF emit
  <1>6. /\ emission[e].status = "unused" /\ emission[e].task = <<>>
        /\ emission \in [Emissions -> Emission]
        /\ UNCHANGED <<listeners, listenerMaxRetries, deadLetterQueue, cleared, crashes>>
    BY DEF emit, BusInv, Lifecycle, TypeOK
  <1> HIDE DEF s
  <1>7. /\ emission' \in [Emissions -> Emission]
        /\ emission'[e].task = s /\ emission'[e].status = "running"
        /\ emission'[e].delivered = emission[e].delivered
        /\ emission'[e].deadLettered = emission[e].deadLettered
        /\ emission'[e].failed = emission[e].failed
        /\ \A o \in Emissions \ {e} : emission'[o] = emission[o]
    BY <1>3, <1>5, <1>6 DEF Emission
  <1>8. TasksOK'
    <2>1. ASSUME NEW o \in Emissions, NEW i \in DOMAIN emission'[o].task
          PROVE  TaskOK(emission'[o].task[i])
      <3>1. CASE o = e BY <1>2, <1>7, <3>1
      <3>2. CASE o # e BY <1>7, <3>2 DEF BusInv, TasksOK
      <3>3. QED BY <3>1, <3>2
    <2>2. QED BY <2>1 DEF TasksOK
  <1>9. Counted'
    <2>1. CountedFor(emission[e]) BY DEF BusInv, Counted
    <2>2. CountedFor(emission'[e])
      BY <1>4, <1>6, <1>7, <2>1, NothingQueued DEF CountedFor
    <2>3. QED BY <1>7, <2>2 DEF BusInv, Counted
  <1>10. Lifecycle' BY <1>7 DEF BusInv, Lifecycle
  <1>11. TypeOK'
    <2>1. \A o \in Emissions : \A j \in DOMAIN emission'[o].task :
              LET u == emission'[o].task[j]
              IN  u.phase \in {"running", "sleeping"} => u.attempt <= u.maxRetries
      BY <1>8 DEF TasksOK, TaskOK
    <2>2. QED BY <1>6, <1>7, <2>1 DEF BusInv, TypeOK
  <1>12. DeadLettersMatchFailures'
    <2>1. ASSUME NEW o \in Emissions PROVE InPhase(o, "dead")' = InPhase(o, "dead")
      <3>1. CASE o = e
        <4>1. InPhase(e, "dead")' = At(s, "dead") BY <1>7 DEF InPhase, At
        <4>2. InPhase(e, "dead") = At(<<>>, "dead") BY <1>6 DEF InPhase, At
        <4>3. QED BY <1>4, <3>1, <4>1, <4>2, NothingQueued
      <3>2. CASE o # e BY <1>7, <3>2 DEF InPhase
      <3>3. QED BY <3>1, <3>2
    <2>2. ASSUME NEW o \in Emissions
          PROVE  Queued(o)' + cleared'[o] = Cardinality(InPhase(o, "dead")')
      BY <1>6, <2>1 DEF BusInv, DeadLettersMatchFailures, Queued
    <2>3. ASSUME NEW k \in DOMAIN deadLetterQueue
          PROVE  LET d == deadLetterQueue[k]
                 IN  \E i \in At(emission'[d.eventId].task, "dead") :
                        d.attempts = emission'[d.eventId].task[i].maxRetries + 1
      <3> DEFINE d == deadLetterQueue[k]
      <3>1. PICK i \in InPhase(d.eventId, "dead") :
                d.attempts = emission[d.eventId].task[i].maxRetries + 1
        BY DEF BusInv, DeadLettersMatchFailures
      <3>2. d.eventId \in Emissions
        <4>1. d \in DeadLetteredEvent BY Positions DEF BusInv, TypeOK
        <4>2. QED BY <4>1 DEF DeadLetteredEvent
      <3> HIDE DEF d
      <3>3. d.eventId # e
        <4>1. InPhase(e, "dead") = At(<<>>, "dead") BY <1>6 DEF InPhase, At
        <4>2. QED BY <3>1, <4>1, NothingQueued
      <3>4. emission'[d.eventId] = emission[d.eventId] BY <1>7, <3>2, <3>3
      <3>5. QED BY <3>1, <3>4 DEF d, InPhase, At
    <2>4. QED BY <1>6, <2>2, <2>3 DEF DeadLettersMatchFailures, InPhase, At
  <1>13. KeepsSettled 
    <2>1. DOMAIN emission[e].task = {} BY <1>6
    <2>2. QED BY <1>7, <2>1 DEF KeepsSettled
  <1>14. QED BY <1>13, <1>6, <1>8, <1>9, <1>10, <1>11, <1>12 DEF BusInv

LEMMA ReturnsInv ==
    ASSUME BusInv, NEW e \in Emissions, emitReturns(e)
    PROVE  BusInv' /\ KeepsSettled
  <1>1. /\ emission' = [emission EXCEPT ![e].status = "returned"]
        /\ emission \in [Emissions -> Emission]
        /\ UNCHANGED <<listeners, listenerMaxRetries, deadLetterQueue, cleared, crashes>>
    BY DEF emitReturns, BusInv, TypeOK
  <1>2. /\ emission' \in [Emissions -> Emission]
        /\ \A o \in Emissions : /\ emission'[o].task = emission[o].task
                                /\ emission'[o].delivered = emission[o].delivered
                                /\ emission'[o].deadLettered = emission[o].deadLettered
                                /\ emission'[o].failed = emission[o].failed
        /\ emission'[e].status = "returned"
        /\ \A o \in Emissions \ {e} : emission'[o].status = emission[o].status
    BY <1>1 DEF Emission
  <1>3. TypeOK' BY <1>1, <1>2 DEF BusInv, TypeOK
  <1>4. TasksOK' BY <1>2 DEF BusInv, TasksOK
  <1>5. Counted' BY <1>2 DEF BusInv, Counted, CountedFor
  <1>6. Lifecycle'
    <2>1. \A i \in DOMAIN emission'[e].task : emission'[e].task[i].phase \in Settled
      BY <1>2 DEF emitReturns
    <2>2. QED BY <1>2, <2>1 DEF BusInv, Lifecycle
  <1>7. DeadLettersMatchFailures'
    <2>1. \A o \in Emissions : InPhase(o, "dead")' = InPhase(o, "dead") BY <1>2 DEF InPhase
    <2>2. \A k \in DOMAIN deadLetterQueue : deadLetterQueue[k].eventId \in Emissions
      <3>1. \A k \in DOMAIN deadLetterQueue : deadLetterQueue[k] \in DeadLetteredEvent
        BY Positions DEF BusInv, TypeOK
      <3>2. QED BY <3>1 DEF DeadLetteredEvent
    <2>3. \A o \in Emissions : Queued(o)' = Queued(o) BY <1>1 DEF Queued
    <2>4. ASSUME NEW o \in Emissions
          PROVE  Queued(o)' + cleared'[o] = Cardinality(InPhase(o, "dead")')
      BY <1>1, <2>1, <2>3 DEF BusInv, DeadLettersMatchFailures
    <2>5. ASSUME NEW k \in DOMAIN deadLetterQueue
          PROVE  LET d == deadLetterQueue[k]
                 IN  \E i \in At(emission'[d.eventId].task, "dead") :
                        d.attempts = emission'[d.eventId].task[i].maxRetries + 1
      <3> DEFINE d == deadLetterQueue[k]
      <3>1. PICK i \in InPhase(d.eventId, "dead") :
                d.attempts = emission[d.eventId].task[i].maxRetries + 1
        BY DEF BusInv, DeadLettersMatchFailures
      <3>2. d.eventId \in Emissions BY <2>2
      <3> HIDE DEF d
      <3>3. QED BY <1>2, <3>1, <3>2 DEF d, InPhase, At
    <2>6. QED BY <1>1, <2>4, <2>5 DEF DeadLettersMatchFailures, InPhase, At
  <1>8. KeepsSettled BY <1>2 DEF KeepsSettled
  <1>9. QED BY <1>8, <1>1, <1>3, <1>4, <1>5, <1>6, <1>7 DEF BusInv

-----------------------------------------------------------------------------
(* The theorems *)

\* Every step keeps the invariant, and every settled task.
LEMMA StepInv ==
    ASSUME BusInv, [Next]_vars PROVE BusInv' /\ KeepsSettled
  <1>1. CASE UNCHANGED vars
    BY <1>1 DEF vars, BusInv, TypeOK, TasksOK, Counted, CountedFor, Lifecycle,
                DeadLettersMatchFailures, Queued, InPhase, KeepsSettled
  <1>2. ASSUME NEW ev \in Events, NEW l \in Listeners, NEW options \in OptionValues,
               on(ev, l, options)
        PROVE  BusInv' /\ KeepsSettled
    BY <1>2, OnInv
  <1>3. ASSUME NEW e \in Emissions, NEW i,
               ListenerResolves(e, i) \/ ListenerRejects(e, i) \/ wake(e, i)
        PROVE  BusInv' /\ KeepsSettled
    BY <1>3, ResolvesInv, WakeInv, BackOffInv, DeadLetterInv
  <1>4. ASSUME NEW ev \in Events, off(ev) PROVE BusInv' /\ KeepsSettled
    BY <1>4, OffInv
  <1>5. CASE clearAllListeners BY <1>5, ClearAllInv
  <1>6. QED
    BY <1>1, <1>2, <1>3, <1>4, <1>5, ClearInv, EmitInv, ReturnsInv, CrashInv DEF Next

(***************************************************************************)
(* In every reachable state the shared counters of a call of emit, the     *)
(* records of the queue and the calls of each listener match the phases of *)
(* the tasks.                                                              *)
(***************************************************************************)
THEOREM BusInvariant == Spec => []BusInv
  <1>1. Init => BusInv
    <2> SUFFICES ASSUME Init PROVE BusInv
      OBVIOUS
    <2>1. /\ NoTasks \in Emission /\ NoTasks.task = <<>> /\ NoTasks.status = "unused"
          /\ NoTasks.delivered = 0 /\ NoTasks.deadLettered = 0 /\ NoTasks.failed = 0
      <3>1. <<>> \in Seq(Task) OBVIOUS
      <3>2. QED BY <3>1 DEF NoTasks, Emission
    <2>2. \A e \in Emissions : emission[e] = NoTasks BY DEF Init
    <2>3. \A e \in Emissions : InPhase(e, "dead") = {} /\ Queued(e) = 0
      <3>1. ASSUME NEW e \in Emissions PROVE InPhase(e, "dead") = At(<<>>, "dead")
        BY <2>1, <2>2 DEF InPhase, At
      <3>2. ASSUME NEW e \in Emissions PROVE Queued(e) = Cardinality(Of(<<>>, e))
        BY DEF Init, Queued, Of
      <3>3. QED BY <3>1, <3>2, NothingQueued
    <2>4. TypeOK
      <3>1. <<>> \in Seq(Listeners) /\ <<>> \in Seq(DeadLetteredEvent) /\ Len(<<>>) = 0
        OBVIOUS
      <3>2. emission \in [Emissions -> Emission] BY <2>1 DEF Init
      <3>3. \A e \in Emissions : DOMAIN emission[e].task = {} BY <2>1, <2>2
      <3>4. QED BY <3>1, <3>2, <3>3, BusAssumption DEF Init, TypeOK
    <2>5. TasksOK BY <2>1, <2>2 DEF TasksOK
    <2>6. Counted
      <3>1. CountedFor(NoTasks) BY <2>1, NothingQueued DEF CountedFor
      <3>2. QED BY <2>2, <3>1 DEF Counted
    <2>7. Lifecycle BY <2>1, <2>2 DEF Lifecycle
    <2>8. DeadLettersMatchFailures
      <3>1. \A e \in Emissions : Queued(e) + cleared[e] = Cardinality(InPhase(e, "dead"))
        <4>1. \A e \in Emissions : cleared[e] = 0 BY DEF Init
        <4>2. \A e \in Emissions : Queued(e) = 0 /\ Cardinality(InPhase(e, "dead")) = 0
          BY <2>3, NothingQueued
        <4>3. QED BY <4>1, <4>2
      <3>2. DOMAIN deadLetterQueue = {} BY DEF Init
      <3>3. QED BY <3>1, <3>2 DEF DeadLettersMatchFailures
    <2>9. listeners \in [Events -> Seq(Listeners)]
      <3>1. <<>> \in Seq(Listeners) OBVIOUS
      <3>2. QED BY <3>1 DEF Init
    <2>10. QED BY <2>4, <2>5, <2>6, <2>7, <2>8, <2>9 DEF BusInv
  <1>2. BusInv /\ [Next]_vars => BusInv' BY StepInv
  <1>3. QED BY <1>1, <1>2, PTL DEF Spec

(***************************************************************************)
(* What emit reports, what the queue holds and how often each listener was *)
(* called tell the same story, for any number of listeners and of calls of *)
(* emit whose tasks interleave.                                            *)
(***************************************************************************)
THEOREM DeliveryAccounting == Spec => []DeliveriesAddUp
  <1>1. ASSUME BusInv PROVE ResultAddsUp
    <2> SUFFICES ASSUME NEW e \in Emissions, emission[e].status = "returned"
                 PROVE  LET m == emission[e]
                            called == {i \in DOMAIN m.task : m.task[i].maxRetries >= 0}
                        IN  /\ m.delivered + m.deadLettered = Cardinality(called)
                            /\ m.delivered = Cardinality(InPhase(e, "delivered"))
                            /\ m.failed = m.deadLettered
      BY DEF ResultAddsUp
    <2> DEFINE s == emission[e].task
               called == {i \in DOMAIN s : s[i].maxRetries >= 0}
    <2>1. s \in Seq(Task) /\ CountedFor(emission[e])
      BY <1>1 DEF BusInv, TypeOK, Emission, Counted
    <2>2. \A i \in DOMAIN s : TaskOK(s[i]) /\ s[i].phase \in Settled
      BY <1>1 DEF BusInv, TasksOK, Lifecycle
    <2>3. /\ called = At(s, "delivered") \cup At(s, "dead")
          /\ At(s, "delivered") \cap At(s, "dead") = {}
      <3> HIDE DEF s
      <3>1. \A i \in DOMAIN s :
               s[i].maxRetries >= 0 <=> s[i].phase \in {"delivered", "dead"}
        <4>1. SUFFICES ASSUME NEW i \in DOMAIN s
                       PROVE  s[i].maxRetries >= 0 <=> s[i].phase \in {"delivered", "dead"}
          OBVIOUS
        <4>2. TaskOK(s[i]) /\ s[i].phase \in Settled BY <2>2
        <4>3. s[i].maxRetries \in Int BY <4>2, TypedTask
        <4>4. s[i].phase = "skipped" => s[i].maxRetries < 0 BY <4>2 DEF TaskOK
        <4>5. s[i].phase # "skipped" => 0 <= s[i].maxRetries BY <4>2 DEF TaskOK
        <4>6. QED BY <4>2, <4>3, <4>4, <4>5 DEF Settled
      <3>2. QED BY <3>1 DEF At
    <2>4. /\ IsFiniteSet(At(s, "delivered")) /\ IsFiniteSet(At(s, "dead"))
          /\ Cardinality(At(s, "delivered")) \in Nat /\ Cardinality(At(s, "dead")) \in Nat
      <3>1. At(s, "delivered") \in SUBSET DOMAIN s /\ At(s, "dead") \in SUBSET DOMAIN s
        BY DEF At
      <3> HIDE DEF s
      <3>2. QED BY <2>1, <3>1, Finite
    <2>5. Cardinality(called) = Cardinality(At(s, "delivered")) + Cardinality(At(s, "dead"))
      <3> HIDE DEF s, called
      <3>1. Cardinality(At(s, "delivered") \cup At(s, "dead")) =
               Cardinality(At(s, "delivered")) + Cardinality(At(s, "dead"))
                  - Cardinality(At(s, "delivered") \cap At(s, "dead"))
        BY <2>4, FS_Union
      <3>2. Cardinality(At(s, "delivered") \cap At(s, "dead")) = 0 BY <2>3, NothingQueued
      <3>3. QED BY <2>3, <2>4, <3>1, <3>2
    <2>6. QED BY <2>1, <2>5 DEF CountedFor, InPhase, At
  <1>2. ASSUME BusInv PROVE CalledWithinBudget
    <2> SUFFICES ASSUME NEW e \in Emissions, NEW i \in DOMAIN emission[e].task
                 PROVE  LET t == emission[e].task[i]
                        IN  /\ t.phase = "skipped" => t.calls = 0
                            /\ t.phase # "skipped" => t.calls \in 1..(t.maxRetries + 1)
                            /\ t.phase = "dead" => t.calls = t.maxRetries + 1
      BY DEF CalledWithinBudget
    <2> DEFINE t == emission[e].task[i]
    <2>1. TaskOK(t) BY <1>2 DEF BusInv, TasksOK
    <2> HIDE DEF t
    <2>2. /\ t.maxRetries \in Int /\ t.attempt \in Nat /\ t.calls \in Nat
          /\ t.phase \in {"running", "sleeping", "delivered", "dead", "skipped"}
      BY <2>1, TypedTask
    <2>3. /\ t.phase = "skipped" => t.calls = 0
          /\ t.phase # "skipped" => t.calls \in 1..(t.maxRetries + 1)
          /\ t.phase = "dead" => t.calls = t.maxRetries + 1
      BY <2>1, <2>2 DEF TaskOK
    <2>4. QED BY <2>3 DEF t
  <1>3. BusInv => DeliveriesAddUp
    BY <1>1, <1>2 DEF BusInv, DeliveriesAddUp
  <1>4. QED BY <1>3, BusInvariant, PTL

(***************************************************************************)
(* A settled task is never resumed: nothing calls its listener again for   *)
(* that emission, whatever else the bus does, a crash included.            *)
(***************************************************************************)
THEOREM SettledIsFinal == Spec => SettledTaskIsFinal
  <1>1. BusInv /\ [Next]_vars =>
           [\A e \in Emissions : \A i \in DOMAIN emission[e].task :
               emission[e].task[i].phase \in Settled =>
                   emission'[e].task[i] = emission[e].task[i]]_vars
    BY StepInv DEF KeepsSettled
  <1>2. QED BY <1>1, BusInvariant, PTL DEF Spec, SettledTaskIsFinal

=============================================================================
