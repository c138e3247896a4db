----------------------------- MODULE NativeProofs -----------------------------
(***************************************************************************)
(* Proofs about the native bridge, for any calls, capacity and history.    *)
(*                                                                         *)
(* The scheduler refuses a job exactly when it is full, and delivers in    *)
(* the order of time and priority.  Both statements are about the log of   *)
(* what was done, while admission and order are decided by the heap.  The  *)
(* invariant says how the two agree: the calls that wait according to the  *)
(* log are those of the heap, one job each, and no job of the heap has     *)
(* been overtaken so far (NoneOvertaken).                                  *)
(*                                                                         *)
(* The addon and its fallback decide alike where the properties say so,    *)
(* and Money, the formula engine and the fallback count alike, whatever    *)
(* the amounts are.                                                        *)
(***************************************************************************)
EXTENDS Native, FiniteSetTheorems, WellFoundedInduction, TLAPS

LogEntry == [event : {"queued", "refused", "delivered"}, job : Jobs]

\* Call c has a job in the queue when step i of log l is taken.
Waits(l, c, i) ==
    \E q \in 1..(i - 1) :
        /\ l[q].event = "queued" /\ l[q].job.call = c
        /\ \A r \in (q + 1)..(i - 1) : l[r].job.call = c => l[r].event # "delivered"

WaitingCalls(l, i) == {c \in Calls : Waits(l, c, i)}

CallsOf(H) == {j.call : j \in H}

OneJobPerCall(H) == \A j, k \in H : j.call = k.call => j = k

\* Steps i to n of the log concern other calls than c.
Untouched(l, c, i, n) == \A r \in i..n : l[r].job.call # c

\* A job of the heap that waited when another was delivered does not come before it.
NoneOvertaken(l, H) ==
    \A i \in DOMAIN l, j \in H :
        (/\ l[i].event = "delivered"
         /\ Waits(l, j.call, i)
         /\ Untouched(l, j.call, i, Len(l)))
        => ~Before(j, l[i].job)

Exact(l) ==
    \A i \in DOMAIN l :
        l[i].event # "delivered" =>
            (l[i].event = "refused" <=> Cardinality(WaitingCalls(l, i)) >= Capacity)

InOrder(l) ==
    \A i, k \in DOMAIN l :
        ( /\ i < k
          /\ l[i].event = "delivered" /\ l[k].event = "delivered"
          /\ Waits(l, l[k].job.call, i)
          /\ Untouched(l, l[k].job.call, i, k - 1) )
        => ~Before(l[k].job, l[i].job)

\* Only what waits is delivered.
DeliveredWaited(l) ==
    \A i \in DOMAIN l : l[i].event = "delivered" => Waits(l, l[i].job.call, i)

\* The log l and the heap H tell the same story.
Agree(l, H) ==
    /\ WaitingCalls(l, Len(l) + 1) = CallsOf(H)
    /\ DeliveredWaited(l)
    /\ NoneOvertaken(l, H)
    /\ Exact(l)
    /\ InOrder(l)

SchedulerInv ==
    /\ TypeOK
    /\ IsFiniteSet(heap)
    /\ OneJobPerCall(heap)
    /\ \A j \in heap : status[j.call] = "queued"
    /\ Agree(log, heap)

-----------------------------------------------------------------------------
(* The log *)

\* What waits at a step depends on the earlier steps only.
LEMMA WaitsPrefix ==
    ASSUME NEW S, NEW l \in Seq(S), NEW m \in Seq(S), Len(l) <= Len(m),
           \A q \in 1..Len(l) : m[q] = l[q],
           NEW c, NEW i \in 1..(Len(l) + 1)
    PROVE  Waits(m, c, i) <=> Waits(l, c, i)
  <1>1. Len(l) \in Nat OBVIOUS
  <1>2. \A q \in 1..(i - 1) : q \in 1..Len(l) /\ m[q] = l[q] BY <1>1
  <1>3. \A q \in 1..(i - 1) : \A r \in (q + 1)..(i - 1) : r \in 1..Len(l) /\ m[r] = l[r] BY <1>1
  <1> DEFINE Since(z, q) ==
                /\ z[q].event = "queued" /\ z[q].job.call = c
                /\ \A r \in (q + 1)..(i - 1) : z[r].job.call = c => z[r].event # "delivered"
  <1>4. \A q \in 1..(i - 1) : Since(m, q) <=> Since(l, q) BY <1>2, <1>3
  <1>5. \A z : Waits(z, c, i) <=> \E q \in 1..(i - 1) : Since(z, q) BY DEF Waits
  <1> HIDE DEF Since
  <1>6. QED BY <1>4, <1>5

\* One step that delivers nothing adds the call that it queues.
LEMMA WaitsAfterStep ==
    ASSUME NEW S, NEW l \in Seq(S), NEW e \in S, e.event # "delivered", NEW c
    PROVE  Waits(Append(l, e), c, Len(l) + 2)
             <=> \/ e.event = "queued" /\ e.job.call = c
                 \/ Waits(l, c, Len(l) + 1)
  <1> DEFINE n == Len(l)
             m == Append(l, e)
  <1>1. n \in Nat /\ (n + 2) - 1 = n + 1 /\ (n + 1) - 1 = n OBVIOUS
  <1>2. m[n + 1] = e /\ \A q \in 1..n : m[q] = l[q] OBVIOUS
  <1> HIDE DEF n, m
  <1>3. ASSUME e.event = "queued", e.job.call = c
        PROVE  Waits(m, c, n + 2)
    <2>1. n + 1 \in 1..((n + 2) - 1) BY <1>1
    <2>2. ((n + 1) + 1)..((n + 2) - 1) = {} BY <1>1
    <2>3. QED BY <1>2, <1>3, <2>1, <2>2 DEF Waits
  <1>4. ASSUME Waits(l, c, n + 1)
        PROVE  Waits(m, c, n + 2)
    <2>1. PICK q \in 1..n :
              /\ l[q].event = "queued" /\ l[q].job.call = c
              /\ \A r \in (q + 1)..n : l[r].job.call = c => l[r].event # "delivered"
      BY <1>1, <1>4 DEF Waits
    <2>2. q \in 1..((n + 2) - 1) BY <1>1
    <2>3. ASSUME NEW r \in (q + 1)..((n + 2) - 1), m[r].job.call = c
          PROVE  m[r].event # "delivered"
      <3>1. CASE r = n + 1 BY <3>1, <1>2
      <3>2. CASE r # n + 1
        <4>1. r \in (q + 1)..n /\ r \in 1..n BY <3>2, <1>1
        <4>2. QED BY <4>1, <1>2, <2>1, <2>3
      <3>3. QED BY <3>1, <3>2
    <2>4. QED BY <1>2, <2>1, <2>2, <2>3 DEF Waits
  <1>5. ASSUME Waits(m, c, n + 2), ~(e.event = "queued" /\ e.job.call = c)
        PROVE  Waits(l, c, n + 1)
    <2>1. PICK q \in 1..((n + 2) - 1) :
              /\ m[q].event = "queued" /\ m[q].job.call = c
              /\ \A r \in (q + 1)..((n + 2) - 1) : m[r].job.call = c => m[r].event # "delivered"
      BY <1>5 DEF Waits
    <2>2. q # n + 1 BY <2>1, <1>2, <1>5
    <2>3. q \in 1..n BY <2>2, <1>1
    <2>4. \A r \in (q + 1)..n : r \in 1..n /\ r \in (q + 1)..((n + 2) - 1) BY <1>1, <2>3
    <2>5. \A r \in (q + 1)..n : l[r].job.call = c => l[r].event # "delivered"
      BY <1>2, <2>1, <2>4
    <2>6. l[q].event = "queued" /\ l[q].job.call = c BY <1>2, <2>1, <2>3
    <2>7. QED BY <1>1, <2>3, <2>5, <2>6 DEF Waits
  <1>6. QED BY <1>3, <1>4, <1>5 DEF n, m

\* Deliveries take away the calls that they deliver.
LEMMA WaitsAfterDeliveries ==
    ASSUME NEW S, NEW l \in Seq(S), NEW d \in Seq(S),
           \A k \in 1..Len(d) : d[k].event = "delivered", NEW c
    PROVE  Waits(l \o d, c, Len(l \o d) + 1)
             <=> Waits(l, c, Len(l) + 1) /\ \A k \in 1..Len(d) : d[k].job.call # c
  <1> DEFINE n == Len(l)
             p == Len(d)
             m == l \o d
  <1>1. n \in Nat /\ p \in Nat /\ Len(m) = n + p OBVIOUS
  <1>2. \A q \in 1..n : m[q] = l[q] OBVIOUS
  <1>3. \A k \in 1..p : m[n + k] = d[k] OBVIOUS
  <1>4. \A q \in (n + 1)..(n + p) : q - n \in 1..p /\ m[q] = d[q - n] OBVIOUS
  <1>5. \A k \in 1..p : d[k].event = "delivered" OBVIOUS
  <1>6. (n + 1) - 1 = n /\ (Len(m) + 1) - 1 = n + p BY <1>1
  <1>7. SUFFICES Waits(m, c, Len(m) + 1)
                   <=> Waits(l, c, n + 1) /\ \A k \in 1..p : d[k].job.call # c
    OBVIOUS
  <1> HIDE DEF n, p, m
  <1>8. ASSUME Waits(m, c, Len(m) + 1)
        PROVE  Waits(l, c, n + 1) /\ \A k \in 1..p : d[k].job.call # c
    <2>1. PICK q \in 1..(n + p) :
              /\ m[q].event = "queued" /\ m[q].job.call = c
              /\ \A r \in (q + 1)..(n + p) : m[r].job.call = c => m[r].event # "delivered"
      BY <1>6, <1>8 DEF Waits
    <2>2. q \notin (n + 1)..(n + p) BY <1>4, <1>5, <2>1
    <2>3. q \in 1..n BY <1>1, <2>2
    <2>4. \A r \in (q + 1)..n : r \in 1..n /\ r \in (q + 1)..(n + p) BY <1>1, <2>3
    <2>5. \A r \in (q + 1)..n : l[r].job.call = c => l[r].event # "delivered"
      BY <1>2, <2>1, <2>4
    <2>6. l[q].event = "queued" /\ l[q].job.call = c BY <1>2, <2>1, <2>3
    <2>7. Waits(l, c, n + 1) BY <1>6, <2>3, <2>5, <2>6 DEF Waits
    <2>8. ASSUME NEW k \in 1..p PROVE d[k].job.call # c
      <3>1. n + k \in (q + 1)..(n + p) BY <1>1, <2>3
      <3>2. QED BY <1>3, <1>5, <2>1, <3>1
    <2>9. QED BY <2>7, <2>8
  <1>9. ASSUME Waits(l, c, n + 1), \A k \in 1..p : d[k].job.call # c
        PROVE  Waits(m, c, Len(m) + 1)
    <2>1. PICK q \in 1..n :
              /\ l[q].event = "queued" /\ l[q].job.call = c
              /\ \A r \in (q + 1)..n : l[r].job.call = c => l[r].event # "delivered"
      BY <1>6, <1>9 DEF Waits
    <2>2. q \in 1..(n + p) BY <1>1
    <2>3. ASSUME NEW r \in (q + 1)..(n + p), m[r].job.call = c
          PROVE  m[r].event # "delivered"
      <3>1. CASE r \in (q + 1)..n
        <4>1. r \in 1..n BY <3>1, <1>1
        <4>2. QED BY <3>1, <4>1, <1>2, <2>1, <2>3
      <3>2. CASE r \notin (q + 1)..n
        <4>1. r \in (n + 1)..(n + p) BY <3>2, <1>1
        <4>2. QED BY <4>1, <1>4, <1>9, <2>3
      <3>3. QED BY <3>1, <3>2
    <2>4. QED BY <1>2, <1>6, <2>1, <2>2, <2>3 DEF Waits
  <1>10. QED BY <1>8, <1>9

\* The past of a longer log is the past of the shorter one.
LEMMA PastStays ==
    ASSUME NEW l \in Seq(LogEntry), NEW m \in Seq(LogEntry), Len(l) <= Len(m),
           \A q \in 1..Len(l) : m[q] = l[q],
           NEW i \in 1..(Len(l) + 1)
    PROVE  /\ \A c : Waits(m, c, i) <=> Waits(l, c, i)
           /\ WaitingCalls(m, i) = WaitingCalls(l, i)
  <1>1. ASSUME NEW c PROVE Waits(m, c, i) <=> Waits(l, c, i) BY WaitsPrefix
  <1>2. QED BY <1>1 DEF WaitingCalls

\* A step that queues or refuses a job keeps log and heap in agreement, if it decides
\* by the number of calls that wait.
LEMMA StepAgrees ==
    ASSUME NEW l \in Seq(LogEntry), NEW H \in SUBSET Jobs, Agree(l, H),
           NEW e \in LogEntry, e.event # "delivered",
           e.event = "refused" <=> Cardinality(WaitingCalls(l, Len(l) + 1)) >= Capacity
    PROVE  Agree(Append(l, e), IF e.event = "queued" THEN H \cup {e.job} ELSE H)
  <1> DEFINE n == Len(l)
             m == Append(l, e)
             G == IF e.event = "queued" THEN H \cup {e.job} ELSE H
  <1>1. n \in Nat /\ m \in Seq(LogEntry) /\ Len(m) = n + 1 /\ (n + 1) + 1 = n + 2 OBVIOUS
  <1>2. m[n + 1] = e /\ \A q \in 1..n : m[q] = l[q] OBVIOUS
  <1>3. DOMAIN l = 1..n /\ DOMAIN m = 1..(n + 1) OBVIOUS
  <1>4. \A c : Waits(m, c, n + 2) <=> (e.event = "queued" /\ e.job.call = c) \/ Waits(l, c, n + 1)
    BY WaitsAfterStep
  <1>5. ASSUME NEW i \in 1..(n + 1)
        PROVE  /\ \A c : Waits(m, c, i) <=> Waits(l, c, i)
               /\ WaitingCalls(m, i) = WaitingCalls(l, i)
    <2>1. Len(l) <= Len(m) /\ \A q \in 1..Len(l) : m[q] = l[q] BY <1>1, <1>2
    <2>2. m \in Seq(LogEntry) /\ i \in 1..(Len(l) + 1) BY <1>1
    <2> HIDE DEF m, n
    <2>3. QED BY <2>1, <2>2, PastStays
  <1>6. e.event # "delivered" /\ (e.event = "refused" <=> Cardinality(WaitingCalls(l, n + 1)) >= Capacity)
    OBVIOUS
  <1>7. \A q \in 1..(n + 1) : q \in 1..n \/ q = n + 1 BY <1>1
  <1>8. e.job.call \in Calls BY DEF LogEntry, Jobs
  <1>9. SUFFICES Agree(m, G) OBVIOUS
  <1> HIDE DEF n, m
  <1>10. WaitingCalls(m, Len(m) + 1) = CallsOf(G)
    <2>1. WaitingCalls(l, n + 1) = CallsOf(H) BY DEF Agree, n
    <2>2. \A c \in Calls : c \in WaitingCalls(m, n + 2)
              <=> (e.event = "queued" /\ e.job.call = c) \/ c \in WaitingCalls(l, n + 1)
      BY <1>4 DEF WaitingCalls
    <2>3. CallsOf(G) = IF e.event = "queued" THEN CallsOf(H) \cup {e.job.call} ELSE CallsOf(H)
      BY DEF CallsOf
    <2>4. WaitingCalls(m, n + 2) \subseteq Calls /\ WaitingCalls(l, n + 1) \subseteq Calls
      BY DEF WaitingCalls
    <2>5. WaitingCalls(m, n + 2) = CallsOf(G)
      <3> HIDE DEF G
      <3>1. CASE e.event = "queued" BY <3>1, <1>8, <2>1, <2>2, <2>3, <2>4
      <3>2. CASE e.event # "queued" BY <3>2, <2>1, <2>2, <2>3, <2>4
      <3>3. QED BY <3>1, <3>2
    <2>6. QED BY <1>1, <2>5
  <1>11. NoneOvertaken(m, G)
    <2> SUFFICES ASSUME NEW i \in 1..(n + 1), NEW j \in G,
                        m[i].event = "delivered", Waits(m, j.call, i),
                        Untouched(m, j.call, i, n + 1)
                 PROVE  ~Before(j, m[i].job)
      BY <1>1, <1>3 DEF NoneOvertaken
    <2>1. i \in 1..n BY <1>2, <1>6, <1>7
    <2>2. m[n + 1].job.call # j.call BY <1>1, <2>1 DEF Untouched
    <2>3. j \in H BY <1>2, <2>2
    <2>4. \A r \in i..n : r \in i..(n + 1) /\ r \in 1..n BY <1>1, <2>1
    <2>5. Untouched(l, j.call, i, n) BY <1>2, <2>4 DEF Untouched
    <2>6. Waits(l, j.call, i) /\ l[i] = m[i] BY <1>2, <1>5, <2>1
    <2>7. NoneOvertaken(l, H) BY DEF Agree
    <2>8. QED BY <1>3, <2>1, <2>3, <2>5, <2>6, <2>7 DEF NoneOvertaken, n
  <1>12. Exact(m)
    <2> SUFFICES ASSUME NEW i \in 1..(n + 1), m[i].event # "delivered"
                 PROVE  m[i].event = "refused" <=> Cardinality(WaitingCalls(m, i)) >= Capacity
      BY <1>3 DEF Exact
    <2>1. WaitingCalls(m, i) = WaitingCalls(l, i) BY <1>5
    <2>2. CASE i = n + 1 BY <2>1, <2>2, <1>2, <1>6
    <2>3. CASE i \in 1..n
      <3>1. Exact(l) BY DEF Agree
      <3>2. QED BY <2>1, <2>3, <3>1, <1>2, <1>3 DEF Exact
    <2>4. QED BY <1>7, <2>2, <2>3
  <1>13. InOrder(m)
    <2> SUFFICES ASSUME NEW i \in 1..(n + 1), NEW k \in 1..(n + 1), i < k,
                        m[i].event = "delivered", m[k].event = "delivered",
                        Waits(m, m[k].job.call, i), Untouched(m, m[k].job.call, i, k - 1)
                 PROVE  ~Before(m[k].job, m[i].job)
      BY <1>3 DEF InOrder
    <2>1. i \in 1..n /\ k \in 1..n BY <1>2, <1>6, <1>7
    <2>2. m[i] = l[i] /\ m[k] = l[k] BY <1>2, <2>1
    <2>3. \A r \in i..(k - 1) : r \in 1..n BY <1>1, <2>1
    <2>4. Untouched(l, l[k].job.call, i, k - 1) BY <1>2, <2>2, <2>3 DEF Untouched
    <2>5. Waits(l, l[k].job.call, i) BY <1>5, <2>1, <2>2
    <2>6. InOrder(l) BY DEF Agree
    <2>7. QED BY <1>3, <2>1, <2>2, <2>4, <2>5, <2>6 DEF InOrder
  <1>14. DeliveredWaited(m)
    <2> SUFFICES ASSUME NEW i \in 1..(n + 1), m[i].event = "delivered"
                 PROVE  Waits(m, m[i].job.call, i)
      BY <1>3 DEF DeliveredWaited
    <2>1. i \in 1..n /\ m[i] = l[i] BY <1>2, <1>6, <1>7
    <2>2. DeliveredWaited(l) BY DEF Agree
    <2>3. Waits(l, l[i].job.call, i) BY <1>3, <2>1, <2>2 DEF DeliveredWaited
    <2>4. QED BY <1>5, <2>1, <2>3
  <1>15. QED BY <1>10, <1>11, <1>12, <1>13, <1>14 DEF Agree

\* A poll that delivers jobs of the heap, in an order that no two of them and none of
\* those that stay contradict, keeps log and heap in agreement.
LEMMA PollAgrees ==
    ASSUME NEW l \in Seq(LogEntry), NEW H \in SUBSET Jobs, Agree(l, H), OneJobPerCall(H),
           NEW d \in Seq(LogEntry), NEW G \in SUBSET H,
           \A k \in 1..Len(d) : d[k].event = "delivered" /\ d[k].job \in H,
           \A a, b \in 1..Len(d) : a < b => d[a].job # d[b].job /\ ~Before(d[b].job, d[a].job),
           \A j \in H : j \in G <=> \A k \in 1..Len(d) : j # d[k].job,
           \A k \in 1..Len(d), j \in G : ~Before(j, d[k].job)
    PROVE  Agree(l \o d, G)
  <1> DEFINE n == Len(l)
             p == Len(d)
             m == l \o d
  <1>1. n \in Nat /\ p \in Nat /\ m \in Seq(LogEntry) /\ Len(m) = n + p OBVIOUS
  <1>2. \A q \in 1..n : m[q] = l[q] OBVIOUS
  <1>3. \A q \in (n + 1)..(n + p) : q - n \in 1..p /\ m[q] = d[q - n] OBVIOUS
  <1>4. DOMAIN l = 1..n /\ DOMAIN m = 1..(n + p) OBVIOUS
  <1>5. ASSUME NEW i \in 1..(n + 1)
        PROVE  /\ \A c : Waits(m, c, i) <=> Waits(l, c, i)
               /\ WaitingCalls(m, i) = WaitingCalls(l, i)
    <2>1. Len(l) <= Len(m) /\ \A q \in 1..Len(l) : m[q] = l[q] BY <1>1, <1>2
    <2>2. m \in Seq(LogEntry) /\ i \in 1..(Len(l) + 1) BY <1>1
    <2> HIDE DEF m, n
    <2>3. QED BY <2>1, <2>2, PastStays
  <1>6. \A c : Waits(m, c, Len(m) + 1)
            <=> Waits(l, c, n + 1) /\ \A k \in 1..p : d[k].job.call # c
    <2>1. \A k \in 1..Len(d) : d[k].event = "delivered" OBVIOUS
    <2>2. QED BY <2>1, WaitsAfterDeliveries, Zenon
  <1>7. \A q \in 1..(n + p) : q \in 1..n \/ q \in (n + 1)..(n + p) BY <1>1
  <1>8. \A k \in 1..p : d[k].event = "delivered" /\ d[k].job \in H OBVIOUS
  <1>9. \A a, b \in 1..p : a < b => d[a].job # d[b].job /\ ~Before(d[b].job, d[a].job) OBVIOUS
  <1>10. \A k \in 1..p, j \in G : ~Before(j, d[k].job) OBVIOUS
  <1>11. \A j \in H : j \in G <=> \A k \in 1..p : j # d[k].job OBVIOUS
  <1>12. SUFFICES Agree(m, G) OBVIOUS
  <1> HIDE DEF n, p, m
  <1>13. WaitingCalls(m, Len(m) + 1) = CallsOf(G)
    <2>1. WaitingCalls(l, n + 1) = CallsOf(H) BY DEF Agree, n
    <2>2. ASSUME NEW c, c \in WaitingCalls(m, Len(m) + 1)
          PROVE  c \in CallsOf(G)
      <3>1. c \in WaitingCalls(l, n + 1) /\ \A k \in 1..p : d[k].job.call # c
        BY <1>6, <2>2 DEF WaitingCalls
      <3>2. PICK j \in H : j.call = c BY <2>1, <3>1 DEF CallsOf
      <3>3. j \in G BY <1>11, <3>1, <3>2
      <3>4. QED BY <3>2, <3>3 DEF CallsOf
    <2>3. ASSUME NEW c, c \in CallsOf(G)
          PROVE  c \in WaitingCalls(m, Len(m) + 1)
      <3>1. PICK j \in G : j.call = c BY <2>3 DEF CallsOf
      <3>2. j \in H OBVIOUS
      <3>3. c \in WaitingCalls(l, n + 1) BY <2>1, <3>1, <3>2 DEF CallsOf
      <3>4. ASSUME NEW k \in 1..p PROVE d[k].job.call # c
        <4>1. j # d[k].job BY <1>11, <3>2
        <4>2. QED BY <4>1, <1>8, <3>1, <3>2 DEF OneJobPerCall
      <3>5. QED BY <1>6, <3>3, <3>4 DEF WaitingCalls
    <2>4. QED BY <2>2, <2>3
  <1>14. NoneOvertaken(m, G)
    <2> SUFFICES ASSUME NEW i \in 1..(n + p), NEW j \in G,
                        m[i].event = "delivered", Waits(m, j.call, i),
                        Untouched(m, j.call, i, n + p)
                 PROVE  ~Before(j, m[i].job)
      BY <1>1, <1>4 DEF NoneOvertaken
    <2>1. CASE i \in (n + 1)..(n + p) BY <2>1, <1>3, <1>10
    <2>2. CASE i \in 1..n
      <3>1. i \in 1..(n + 1) BY <2>2, <1>1
      <3>2. \A r \in i..n : r \in i..(n + p) /\ r \in 1..n BY <1>1, <2>2
      <3>3. Untouched(l, j.call, i, n) BY <1>2, <3>2 DEF Untouched
      <3>4. Waits(l, j.call, i) /\ l[i] = m[i] BY <1>2, <1>5, <2>2, <3>1
      <3>5. NoneOvertaken(l, H) /\ j \in H BY DEF Agree
      <3>6. QED BY <1>4, <2>2, <3>3, <3>4, <3>5 DEF NoneOvertaken, n
    <2>3. QED BY <1>7, <2>1, <2>2
  <1>15. Exact(m)
    <2> SUFFICES ASSUME NEW i \in 1..(n + p), m[i].event # "delivered"
                 PROVE  m[i].event = "refused" <=> Cardinality(WaitingCalls(m, i)) >= Capacity
      BY <1>4 DEF Exact
    <2>1. i \in 1..n BY <1>3, <1>7, <1>8
    <2>2. i \in 1..(n + 1) BY <2>1, <1>1
    <2>3. WaitingCalls(m, i) = WaitingCalls(l, i) BY <1>5, <2>2
    <2>4. Exact(l) BY DEF Agree
    <2>5. QED BY <2>1, <2>3, <2>4, <1>2, <1>4 DEF Exact
  <1>16. InOrder(m)
    <2> SUFFICES ASSUME NEW i \in 1..(n + p), NEW k \in 1..(n + p), i < k,
                        m[i].event = "delivered", m[k].event = "delivered",
                        Waits(m, m[k].job.call, i), Untouched(m, m[k].job.call, i, k - 1)
                 PROVE  ~Before(m[k].job, m[i].job)
      BY <1>4 DEF InOrder
    <2>1. CASE i \in (n + 1)..(n + p)
      <3>1. k \in (n + 1)..(n + p) /\ i - n < k - n BY <1>1, <2>1
      <3>2. QED BY <2>1, <3>1, <1>3, <1>9
    <2>2. CASE i \in 1..n /\ k \in (n + 1)..(n + p)
      <3> DEFINE j == d[k - n].job
      <3>1. m[k].job = j /\ j \in H BY <1>3, <1>8, <2>2
      <3> HIDE DEF j
      <3>2. i \in 1..(n + 1) BY <2>2, <1>1
      <3>3. \A r \in i..n : r \in i..(k - 1) /\ r \in 1..n BY <1>1, <2>2
      <3>4. Untouched(l, j.call, i, n) BY <1>2, <3>1, <3>3 DEF Untouched
      <3>5. Waits(l, j.call, i) /\ l[i] = m[i] BY <1>2, <1>5, <2>2, <3>1, <3>2
      <3>6. NoneOvertaken(l, H) BY DEF Agree
      <3>7. ~Before(j, l[i].job) BY <1>4, <2>2, <3>1, <3>4, <3>5, <3>6 DEF NoneOvertaken, n
      <3>8. QED BY <3>1, <3>5, <3>7
    <2>3. CASE i \in 1..n /\ k \in 1..n
      <3>1. m[i] = l[i] /\ m[k] = l[k] BY <1>2, <2>3
      <3>2. \A r \in i..(k - 1) : r \in 1..n BY <1>1, <2>3
      <3>3. Untouched(l, l[k].job.call, i, k - 1) BY <1>2, <3>1, <3>2 DEF Untouched
      <3>4. i \in 1..(n + 1) BY <1>1, <2>3
      <3>5. Waits(l, l[k].job.call, i) BY <1>5, <3>1, <3>4
      <3>6. InOrder(l) BY DEF Agree
      <3>7. QED BY <1>4, <2>3, <3>1, <3>3, <3>5, <3>6 DEF InOrder
    <2>4. QED BY <1>7, <2>1, <2>2, <2>3
  <1>17. DeliveredWaited(m)
    <2> SUFFICES ASSUME NEW i \in 1..(n + p), m[i].event = "delivered"
                 PROVE  Waits(m, m[i].job.call, i)
      BY <1>4 DEF DeliveredWaited
    <2>1. CASE i \in 1..n
      <3>1. i \in 1..(n + 1) /\ m[i] = l[i] BY <1>1, <1>2, <2>1
      <3>2. DeliveredWaited(l) BY DEF Agree
      <3>3. Waits(l, l[i].job.call, i) BY <1>4, <2>1, <3>1, <3>2 DEF DeliveredWaited
      <3>4. QED BY <1>5, <3>1, <3>3
    <2>2. CASE i \in (n + 1)..(n + p)
      <3> DEFINE c == m[i].job.call
      <3>1. /\ i - n \in 1..p /\ m[i] = d[i - n] /\ d[i - n].job \in H
            /\ c = d[i - n].job.call
        BY <1>3, <1>8, <2>2
      <3> HIDE DEF c
      <3>2. c \in WaitingCalls(l, n + 1) BY <3>1 DEF Agree, CallsOf, n
      <3>3. PICK q \in 1..n :
              /\ l[q].event = "queued" /\ l[q].job.call = c
              /\ \A r \in (q + 1)..n : l[r].job.call = c => l[r].event # "delivered"
        <4>1. (n + 1) - 1 = n BY <1>1
        <4>2. QED BY <3>2, <4>1 DEF WaitingCalls, Waits
      <3>4. \A r \in (n + 1)..(i - 1) : m[r].job.call # c
        <4> SUFFICES ASSUME NEW r \in (n + 1)..(i - 1) PROVE m[r].job.call # c
          OBVIOUS
        <4>1. r \in (n + 1)..(n + p) /\ r - n < i - n BY <1>1, <2>2
        <4>2. r - n \in 1..p /\ m[r] = d[r - n] BY <1>3, <4>1
        <4>3. d[r - n].job # d[i - n].job /\ d[r - n].job \in H BY <1>8, <1>9, <3>1, <4>1, <4>2
        <4>4. QED BY <3>1, <4>2, <4>3 DEF OneJobPerCall
      <3>5. q \in 1..(i - 1) /\ m[q] = l[q] BY <1>1, <1>2, <2>2, <3>3
      <3>6. ASSUME NEW r \in (q + 1)..(i - 1), m[r].job.call = c
            PROVE  m[r].event # "delivered"
        <4>1. r \notin (n + 1)..(i - 1) BY <3>4, <3>6
        <4>2. r \in (q + 1)..n /\ r \in 1..n BY <1>1, <2>2, <3>3, <4>1
        <4>3. QED BY <1>2, <3>3, <3>6, <4>2
      <3>7. Waits(m, c, i) BY <3>3, <3>5, <3>6 DEF Waits
      <3>8. QED BY <3>7 DEF c
    <2>3. QED BY <1>7, <2>1, <2>2
  <1>18. QED BY <1>13, <1>14, <1>15, <1>16, <1>17 DEF Agree

-----------------------------------------------------------------------------
(* The heap *)

\* As many calls wait as the heap holds jobs.
LEMMA CallsAreCounted ==
    ASSUME NEW H, IsFiniteSet(H), OneJobPerCall(H)
    PROVE  IsFiniteSet(CallsOf(H)) /\ Cardinality(CallsOf(H)) = Cardinality(H)
  <1> DEFINE f == [j \in H |-> j.call]
  <1>1. f \in [H -> CallsOf(H)] BY DEF CallsOf
  <1>2. f \in Injection(H, CallsOf(H)) BY <1>1 DEF Injection, IsInjective, OneJobPerCall
  <1>3. f \in Surjection(H, CallsOf(H)) BY <1>1 DEF Surjection, CallsOf
  <1>4. ExistsBijection(H, CallsOf(H)) BY <1>2, <1>3 DEF Bijection, ExistsBijection
  <1>5. QED BY <1>4, FS_Bijection

\* An order of the heap names each of its jobs once.
LEMMA OrdersNameEveryJob ==
    ASSUME IsFiniteSet(heap), NEW s \in HeapOrders
    PROVE  /\ Cardinality(heap) \in Nat
           /\ s \in [1..Cardinality(heap) -> heap]
           /\ \A j \in heap : \E i \in 1..Cardinality(heap) : s[i] = j
           /\ \A i, k \in 1..Cardinality(heap) : i < k => s[i] # s[k] /\ ~Before(s[k], s[i])
  <1> DEFINE n == Cardinality(heap)
  <1>1. n \in Nat BY FS_CardinalityType
  <1>2. s \in [1..n -> heap] /\ \A i, k \in 1..n : i < k => s[i] # s[k] /\ ~Before(s[k], s[i])
    BY DEF HeapOrders
  <1>3. Cardinality(1..n) = n BY <1>1, FS_Interval
  <1>4. \A i, k \in 1..n : s[i] = s[k] => i = k
    <2> SUFFICES ASSUME NEW i \in 1..n, NEW k \in 1..n, s[i] = s[k], i # k PROVE FALSE
      OBVIOUS
    <2>1. i < k \/ k < i BY <1>1
    <2>2. QED BY <1>2, <2>1
  <1> HIDE DEF n
  <1>5. s \in Injection(1..n, heap) BY <1>2, <1>4 DEF Injection, IsInjective
  <1>6. s \in Surjection(1..n, heap) BY <1>3, <1>5, FS_Injection DEF n
  <1>7. \A j \in heap : \E i \in 1..n : s[i] = j BY <1>6 DEF Surjection
  <1>8. QED BY <1>1, <1>2, <1>7 DEF n

\* A poll delivers an initial part of such an order.
LEMMA PollStopsOnce ==
    ASSUME NEW n \in Nat, NEW s, DOMAIN s = 1..n
    PROVE  \E m \in 0..n : poll(s) = 1..m
  <1> DEFINE Late == {i \in 1..n : ~IsDue(s[i])}
  <1>1. CASE Late = {}
    <2>1. poll(s) = 1..n BY <1>1 DEF poll
    <2>4. QED BY <2>1
  <1>2. CASE Late # {}
    <2>1. Late \subseteq Nat OBVIOUS
    <2> DEFINE R == OpToRel(<, Nat)
    <2>2. \A y, z \in Nat : y < z => <<y, z>> \in R BY Zenon DEF OpToRel
    <2>3. IsWellFoundedOn(R, Nat) BY NatLessThanWellFounded, Zenon
    <2> HIDE DEF R
    <2>4. PICK x \in Late : \A y \in Late : ~(<<y, x>> \in R)
      BY <1>2, <2>1, <2>3, WFMin
    <2>5. \A y \in Late : ~(y < x) BY <2>1, <2>4, <2>2
    <2>6. x \in 1..n /\ ~IsDue(s[x]) OBVIOUS
    <2>7. \A y \in 1..n : y < x => IsDue(s[y]) BY <2>5
    <2> HIDE DEF Late
    <2>8. \A i \in 1..n : i \in poll(s) <=> i < x
      <3> SUFFICES ASSUME NEW i \in 1..n PROVE i \in poll(s) <=> i < x
        OBVIOUS
      <3>1. i < x => \A k \in 1..i : k \in 1..n /\ k < x BY <2>6
      <3>2. ~(i < x) => x \in 1..i BY <2>6
      <3>3. QED BY <2>6, <2>7, <3>1, <3>2 DEF poll
    <2>9. poll(s) = 1..(x - 1)
      <3>1. poll(s) \subseteq 1..n BY DEF poll
      <3>2. \A i : i \in 1..(x - 1) <=> i \in 1..n /\ i < x BY <2>6
      <3>3. QED BY <2>8, <3>1, <3>2
    <2>10. x - 1 \in 0..n BY <2>6
    <2>11. QED BY <2>9, <2>10
  <1>3. QED BY <1>1, <1>2

-----------------------------------------------------------------------------
(* The invariant *)

\* The properties of the model, in terms of the operators above.
LEMMA AgreeMeans ==
    ASSUME TypeOK, Agree(log, heap)
    PROVE  AdmissionIsExact /\ NoOvertaking /\ JobsAreConserved
  <1>1. \A i : Pending(i) = WaitingCalls(log, i) BY DEF Pending, WaitingCalls, Waits
  <1>2. AdmissionIsExact BY <1>1 DEF AdmissionIsExact, Agree, Exact
  <1>3. NoOvertaking
    <2> SUFFICES ASSUME NEW i \in DOMAIN log, NEW k \in DOMAIN log, i < k,
                        log[i].event = "delivered", log[k].event = "delivered",
                        log[k].job.call \in Pending(i),
                        \A r \in i..(k - 1) : log[r].job.call # log[k].job.call
                 PROVE  \/ log[i].job.run_at < log[k].job.run_at
                        \/ /\ log[i].job.run_at = log[k].job.run_at
                           /\ log[i].job.priority >= log[k].job.priority
      BY DEF NoOvertaking
    <2>1. Waits(log, log[k].job.call, i) BY <1>1 DEF WaitingCalls
    <2>2. ~Before(log[k].job, log[i].job) BY <2>1 DEF Agree, InOrder, Untouched
    <2>3. log[i].job \in Jobs /\ log[k].job \in Jobs
      <3>1. log \in Seq(LogEntry) BY DEF TypeOK, LogEntry
      <3>2. log[i] \in LogEntry /\ log[k] \in LogEntry BY <3>1
      <3>3. QED BY <3>2 DEF LogEntry
    <2>4. /\ log[i].job.run_at \in Int /\ log[k].job.run_at \in Int
          /\ log[i].job.priority \in Int /\ log[k].job.priority \in Int
      BY <2>3, NativeAssumption DEF Jobs, JobPriority
    <2>5. QED BY <2>2, <2>4 DEF Before
  <1>4. JobsAreConserved
    <2>1. {j.call : j \in heap} = Pending(Len(log) + 1) BY <1>1 DEF Agree, CallsOf
    <2>2. ASSUME NEW i \in DOMAIN log, log[i].event = "delivered"
          PROVE  log[i].job.call \in Pending(i)
      <3>1. log \in Seq(LogEntry) BY DEF TypeOK, LogEntry
      <3>2. log[i].job.call \in Calls
        <4>1. log[i] \in LogEntry BY <3>1
        <4>2. log[i].job \in Jobs BY <4>1 DEF LogEntry
        <4>3. QED BY <4>2 DEF Jobs
      <3>3. Waits(log, log[i].job.call, i) BY <2>2 DEF Agree, DeliveredWaited
      <3>4. QED BY <1>1, <3>2, <3>3 DEF WaitingCalls
    <2>3. QED BY <2>1, <2>2 DEF JobsAreConserved
  <1>5. QED BY <1>2, <1>3, <1>4

LEMMA InitInv == Init => SchedulerInv
  <1> SUFFICES ASSUME Init PROVE SchedulerInv OBVIOUS
  <1>1. TypeOK BY NativeAssumption DEF Init, TypeOK
  <1>2. heap = {} /\ log = <<>> BY DEF Init
  <1>3. IsFiniteSet(heap) /\ OneJobPerCall(heap) /\ \A j \in heap : status[j.call] = "queued"
    BY <1>2, FS_EmptySet DEF OneJobPerCall
  <1>4. Agree(log, heap)
    BY <1>2 DEF Agree, WaitingCalls, Waits, CallsOf, DeliveredWaited, NoneOvertaken, Exact, InOrder
  <1>5. QED BY <1>1, <1>3, <1>4 DEF SchedulerInv

\* Scheduler::schedule, for a call that has no job in the heap.
LEMMA ScheduleKeeps ==
    ASSUME SchedulerInv, NEW j \in Jobs, status[j.call] # "queued", schedule(j),
           built' \in BOOLEAN, native' \in Engines \cup {"none"}, now' \in 0..MaxTime,
           entry' \in {"none", "buffered", "flushed", "lost", "gone"}
    PROVE  SchedulerInv'
  <1> DEFINE e == [event |-> status'[j.call], job |-> j]
  <1>1. /\ heap \subseteq Jobs /\ j.call \in Calls
        /\ status \in [Calls -> {"idle", "queued", "refused", "dropped", "delivered", "lost"}]
        /\ log \in Seq(LogEntry)
    BY DEF SchedulerInv, TypeOK, LogEntry, Jobs
  <1>2. \/ /\ Full /\ status' = [status EXCEPT ![j.call] = "refused"] /\ heap' = heap
        \/ /\ ~Full /\ status' = [status EXCEPT ![j.call] = "queued"] /\ heap' = heap \cup {j}
    BY DEF schedule
  <1>3. log' = Append(log, e) BY DEF schedule
  <1>4. /\ e.event \in {"queued", "refused"} /\ e.job = j /\ e \in LogEntry
        /\ e.event = "refused" <=> Full
        /\ heap' = IF e.event = "queued" THEN heap \cup {e.job} ELSE heap
    <2>1. CASE Full /\ status' = [status EXCEPT ![j.call] = "refused"] /\ heap' = heap
      <3>1. status'[j.call] = "refused" BY <1>1, <2>1
      <3>2. QED BY <2>1, <3>1 DEF LogEntry
    <2>2. CASE ~Full /\ status' = [status EXCEPT ![j.call] = "queued"] /\ heap' = heap \cup {j}
      <3>1. status'[j.call] = "queued" BY <1>1, <2>2
      <3>2. QED BY <2>2, <3>1 DEF LogEntry
    <2>3. QED BY <1>2, <2>1, <2>2
  <1> HIDE DEF e
  <1>5. Cardinality(WaitingCalls(log, Len(log) + 1)) = Cardinality(heap)
    BY CallsAreCounted DEF SchedulerInv, Agree
  <1>6. e.event = "refused" <=> Cardinality(WaitingCalls(log, Len(log) + 1)) >= Capacity
    BY <1>4, <1>5 DEF Full
  <1>7. Agree(log', heap')
    BY <1>1, <1>3, <1>4, <1>6, StepAgrees DEF SchedulerInv
  <1>8. \A k \in heap : k.call # j.call /\ status[k.call] = "queued" /\ k.call \in Calls
    BY <1>1 DEF SchedulerInv, Jobs
  <1>9. IsFiniteSet(heap') BY <1>2, FS_AddElement DEF SchedulerInv
  <1>10. OneJobPerCall(heap') BY <1>2, <1>8 DEF SchedulerInv, OneJobPerCall
  <1>11. \A k \in heap' : status'[k.call] = "queued" BY <1>1, <1>2, <1>8
  <1>12. TypeOK'
    <2>1. heap' \subseteq Jobs BY <1>1, <1>2
    <2>2. status' \in [Calls -> {"idle", "queued", "refused", "dropped", "delivered", "lost"}]
      BY <1>1, <1>2
    <2>3. log' \in Seq(LogEntry) BY <1>1, <1>3, <1>4
    <2>4. QED BY <2>1, <2>2, <2>3 DEF TypeOK, LogEntry
  <1>13. QED BY <1>7, <1>9, <1>10, <1>11, <1>12 DEF SchedulerInv

\* Scheduler::poll.
LEMMA PollKeeps ==
    ASSUME SchedulerInv, schedulerPoll
    PROVE  SchedulerInv'
  <1>1. /\ heap \subseteq Jobs /\ IsFiniteSet(heap) /\ OneJobPerCall(heap)
        /\ status \in [Calls -> {"idle", "queued", "refused", "dropped", "delivered", "lost"}]
        /\ log \in Seq(LogEntry)
    BY DEF SchedulerInv, TypeOK, LogEntry
  <1>2. built' \in BOOLEAN /\ now' \in 0..MaxTime
        /\ entry' \in {"none", "buffered", "flushed", "lost", "gone"}
        /\ native' \in Engines \cup {"none"}
    BY DEF SchedulerInv, TypeOK, schedulerPoll, getNative, Engines
  <1>3. CASE getNative # "addon"
    <2>1. log' = log /\ heap' = heap /\ status' = status BY <1>3 DEF schedulerPoll
    <2>2. QED BY <1>2, <2>1 DEF SchedulerInv, TypeOK
  <1>4. CASE getNative = "addon"
    <2>1. PICK s \in HeapOrders :
            LET ready == poll(s)
                out == {s[i] : i \in ready}
            IN  /\ log' = log \o [i \in ready |-> [event |-> "delivered", job |-> s[i]]]
                /\ heap' = heap \ out
                /\ status' = [c \in Calls |-> IF \E j \in out : j.call = c THEN "delivered"
                                              ELSE status[c]]
      BY <1>4 DEF schedulerPoll
    <2> DEFINE n == Cardinality(heap)
    <2>2. /\ n \in Nat /\ s \in [1..n -> heap]
          /\ \A j \in heap : \E i \in 1..n : s[i] = j
          /\ \A i, k \in 1..n : i < k => s[i] # s[k] /\ ~Before(s[k], s[i])
      BY <1>1, OrdersNameEveryJob
    <2> HIDE DEF n
    <2>3. PICK m \in 0..n : poll(s) = 1..m BY <2>2, PollStopsOnce
    <2> DEFINE d == [i \in 1..m |-> [event |-> "delivered", job |-> s[i]]]
               out == {s[i] : i \in 1..m}
    <2>4. /\ log' = log \o d
          /\ heap' = heap \ out
          /\ status' = [c \in Calls |-> IF \E j \in out : j.call = c THEN "delivered"
                                        ELSE status[c]]
      BY <2>1, <2>3
    <2>5. m \in Nat /\ \A i \in 1..m : i \in 1..n /\ s[i] \in heap BY <2>2
    <2>6. d \in Seq(LogEntry) /\ Len(d) = m
      <3>1. \A i \in 1..m : [event |-> "delivered", job |-> s[i]] \in LogEntry
        BY <1>1, <2>5 DEF LogEntry
      <3>2. d \in [1..m -> LogEntry] BY <3>1
      <3>3. QED BY <2>5, <3>2
    <2>7. \A k \in 1..m : d[k].event = "delivered" /\ d[k].job = s[k] OBVIOUS
    <2>8. \A j \in heap : j \in heap' <=> \A k \in 1..m : j # s[k] BY <2>4
    <2>9. heap' \subseteq heap BY <2>4
    <2> HIDE DEF d, out
    <2>10. \A k \in 1..m, j \in heap' : ~Before(j, s[k])
      <3> SUFFICES ASSUME NEW k \in 1..m, NEW j \in heap' PROVE ~Before(j, s[k]) OBVIOUS
      <3>1. PICK i \in 1..n : s[i] = j BY <2>2, <2>9
      <3>2. i \notin 1..m BY <2>8, <2>9, <3>1
      <3>3. k < i /\ k \in 1..n BY <2>2, <2>5, <3>2
      <3>4. QED BY <2>2, <3>1, <3>3
    <2>11. Agree(log \o d, heap')
      <3>1. \A k \in 1..Len(d) : d[k].event = "delivered" /\ d[k].job \in heap
        BY <2>5, <2>6, <2>7
      <3>2. \A a, b \in 1..Len(d) : a < b => d[a].job # d[b].job /\ ~Before(d[b].job, d[a].job)
        BY <2>2, <2>5, <2>6, <2>7
      <3>3. \A j \in heap : j \in heap' <=> \A k \in 1..Len(d) : j # d[k].job
        BY <2>6, <2>7, <2>8
      <3>4. \A k \in 1..Len(d), j \in heap' : ~Before(j, d[k].job) BY <2>6, <2>7, <2>10
      <3>5. Agree(log, heap) BY DEF SchedulerInv
      <3>6. heap \in SUBSET Jobs /\ heap' \in SUBSET heap /\ OneJobPerCall(heap) BY <1>1, <2>9
      <3>7. log \in Seq(LogEntry) /\ d \in Seq(LogEntry) BY <1>1, <2>6
      <3>8. QED BY <3>1, <3>2, <3>3, <3>4, <3>5, <3>6, <3>7, PollAgrees
    <2>12. IsFiniteSet(heap') BY <1>1, <2>9, FS_Subset
    <2>13. OneJobPerCall(heap') BY <1>1, <2>9 DEF OneJobPerCall
    <2>14. \A j \in heap' : status'[j.call] = "queued"
      <3> SUFFICES ASSUME NEW j \in heap' PROVE status'[j.call] = "queued" OBVIOUS
      <3>1. j \in heap /\ j \notin out BY <2>4
      <3>2. \A k \in out : k \in heap BY <2>5 DEF out
      <3>3. ~\E k \in out : k.call = j.call BY <1>1, <3>1, <3>2 DEF OneJobPerCall
      <3>4. j.call \in Calls /\ status[j.call] = "queued" BY <1>1, <3>1 DEF SchedulerInv, Jobs
      <3>5. QED BY <2>4, <3>3, <3>4
    <2>15. TypeOK'
      <3>1. heap' \subseteq Jobs BY <1>1, <2>9
      <3>2. status' \in [Calls -> {"idle", "queued", "refused", "dropped", "delivered", "lost"}]
        BY <1>1, <2>4
      <3>3. log' \in Seq(LogEntry) BY <1>1, <2>4, <2>6
      <3>4. QED BY <1>2, <3>1, <3>2, <3>3 DEF TypeOK, LogEntry
    <2>16. QED BY <2>4, <2>11, <2>12, <2>13, <2>14, <2>15 DEF SchedulerInv
  <1>5. QED BY <1>3, <1>4

\* Steps that leave the heap, its calls and the log alone.
LEMMA OthersKeep ==
    ASSUME SchedulerInv, UNCHANGED <<heap, log>>, TypeOK',
           \A c \in Calls : status[c] = "queued" => status'[c] = "queued"
    PROVE  SchedulerInv'
  <1>1. \A j \in heap : j.call \in Calls BY DEF SchedulerInv, TypeOK, Jobs
  <1>2. \A j \in heap' : status'[j.call] = "queued" BY <1>1 DEF SchedulerInv
  <1>3. IsFiniteSet(heap') /\ OneJobPerCall(heap') /\ Agree(log', heap') BY DEF SchedulerInv
  <1>4. QED BY <1>2, <1>3 DEF SchedulerInv

LEMMA StepInv ==
    ASSUME SchedulerInv, [Next]_vars
    PROVE  SchedulerInv'
  <1>1. TypeOK /\ MaxTime \in Nat BY NativeAssumption DEF SchedulerInv
  <1>2. CASE resetNative \/ setNative \/ Build \/ Tick
    <2>1. heap' = heap /\ log' = log /\ status' = status /\ entry' = entry
      BY <1>2 DEF resetNative, setNative, Build, Tick
    <2>2. built' \in BOOLEAN /\ native' \in Engines \cup {"none"} /\ now' \in 0..MaxTime
      <3>1. built \in BOOLEAN /\ native \in Engines \cup {"none"} /\ now \in 0..MaxTime
        BY <1>1 DEF TypeOK
      <3>2. built' = built \/ built' = TRUE BY <1>2 DEF resetNative, setNative, Build, Tick
      <3>3. native' = native \/ native' \in {"none", "fallback"}
        BY <1>2 DEF resetNative, setNative, Build, Tick
      <3>4. now' = now \/ (now < MaxTime /\ now' = now + 1)
        BY <1>2 DEF resetNative, setNative, Build, Tick
      <3>5. now' \in 0..MaxTime BY <1>1, <3>1, <3>4
      <3>6. native' \in Engines \cup {"none"} BY <3>1, <3>3 DEF Engines
      <3>7. built' \in BOOLEAN
        <4>1. CASE built' = built BY <4>1, <3>1
        <4>2. CASE built' = TRUE BY <4>2
        <4>3. QED BY <3>2, <4>1, <4>2
      <3>8. QED BY <3>5, <3>6, <3>7
    <2>3. TypeOK' BY <1>1, <2>1, <2>2 DEF TypeOK
    <2>4. QED BY <2>1, <2>3, OthersKeep
  <1>3. CASE Restart
    <2>1. /\ heap' = {} /\ log' = <<>> /\ now' = now /\ native' = "none" /\ built' \in BOOLEAN
          /\ entry' \in {"none", "buffered", "flushed", "lost", "gone"}
      BY <1>1, <1>3 DEF Restart, TypeOK
    <2>2. status' \in [Calls -> {"idle", "queued", "refused", "dropped", "delivered", "lost"}]
      BY <1>1, <1>3 DEF Restart, TypeOK
    <2>3. TypeOK' BY <1>1, <2>1, <2>2 DEF TypeOK
    <2>4. IsFiniteSet(heap') /\ OneJobPerCall(heap') /\ \A j \in heap' : status'[j.call] = "queued"
      BY <2>1, FS_EmptySet DEF OneJobPerCall
    <2>5. Agree(<<>>, {})
      BY DEF Agree, WaitingCalls, Waits, CallsOf, DeliveredWaited, NoneOvertaken, Exact, InOrder
    <2>6. QED BY <2>1, <2>3, <2>4, <2>5 DEF SchedulerInv
  <1>4. ASSUME NEW c \in Calls, ScheduleNatively(c)
        PROVE  SchedulerInv'
    <2>1. PICK t \in 0..MaxTime : schedule(Job(c, t, 2)) BY <1>4 DEF ScheduleNatively
    <2>2. Job(c, t, 2) \in Jobs /\ Job(c, t, 2).call = c BY DEF Job, Jobs, JobPriority
    <2>3. status[c] = "idle" /\ UNCHANGED <<built, native, now, entry>>
      BY <1>4 DEF ScheduleNatively
    <2>4. QED BY <1>1, <2>1, <2>2, <2>3, ScheduleKeeps DEF TypeOK
  <1>5. ASSUME NEW c \in Calls, schedulerEnqueue(c)
        PROVE  SchedulerInv'
    <2>1. status[c] = "idle" /\ UNCHANGED <<built, now, entry>> BY <1>5 DEF schedulerEnqueue
    <2>2. native' \in Engines \cup {"none"}
      BY <1>1, <1>5 DEF schedulerEnqueue, getNative, TypeOK, Engines
    <2>3. CASE \E t \in 0..MaxTime : schedule(Job(c, t, Normal))
      <3>1. PICK t \in 0..MaxTime : schedule(Job(c, t, Normal)) BY <2>3
      <3>2. Job(c, t, Normal) \in Jobs /\ Job(c, t, Normal).call = c
        BY DEF Job, Jobs, JobPriority, Normal
      <3>3. QED BY <1>1, <2>1, <2>2, <3>1, <3>2, ScheduleKeeps DEF TypeOK
    <2>4. CASE status' = [status EXCEPT ![c] = "dropped"] /\ UNCHANGED <<heap, log>>
      <3>1. status' \in [Calls -> {"idle", "queued", "refused", "dropped", "delivered", "lost"}]
        BY <1>1, <2>4 DEF TypeOK
      <3>2. TypeOK' BY <1>1, <2>1, <2>2, <2>4, <3>1 DEF TypeOK
      <3>3. \A x \in Calls : status[x] = "queued" => status'[x] = "queued"
        BY <1>1, <2>1, <2>4 DEF TypeOK
      <3>4. QED BY <2>4, <3>2, <3>3, OthersKeep
    <2>5. QED BY <1>5, <2>3, <2>4 DEF schedulerEnqueue
  <1>6. ASSUME NEW c \in Calls, Retry(c)
        PROVE  SchedulerInv'
    <2>1. PICK t \in now..MaxTime : schedule(Job(c, t, Normal)) BY <1>6 DEF Retry
    <2>2. t \in 0..MaxTime BY <1>1 DEF TypeOK
    <2>3. Job(c, t, Normal) \in Jobs /\ Job(c, t, Normal).call = c
      BY <2>2 DEF Job, Jobs, JobPriority, Normal
    <2>4. status[c] = "delivered" /\ UNCHANGED <<built, native, now, entry>> BY <1>6 DEF Retry
    <2>5. QED BY <1>1, <2>1, <2>3, <2>4, ScheduleKeeps DEF TypeOK
  <1>7. CASE schedulerPoll BY <1>7, PollKeeps
  <1>8. CASE ledgerWrite \/ ledgerFlush
    <2>1. heap' = heap /\ log' = log /\ status' = status /\ built' = built /\ now' = now
      BY <1>8 DEF ledgerWrite, ledgerFlush
    <2>2. native' \in Engines \cup {"none"} /\ entry' \in {"none", "buffered", "flushed", "lost", "gone"}
      BY <1>1, <1>8 DEF TypeOK, ledgerWrite, ledgerFlush, getNative, Engines
    <2>3. TypeOK' BY <1>1, <2>1, <2>2 DEF TypeOK
    <2>4. QED BY <2>1, <2>3, OthersKeep
  <1>9. CASE UNCHANGED vars BY <1>9, <1>1, OthersKeep DEF vars, TypeOK
  <1>10. QED BY <1>2, <1>3, <1>4, <1>5, <1>6, <1>7, <1>8, <1>9 DEF Next

\* The log, the heap and the calls of the scheduler agree in every reachable state.
THEOREM SchedulerInvariant == Spec => []SchedulerInv
  <1>1. Init => SchedulerInv BY InitInv
  <1>2. SchedulerInv /\ [Next]_vars => SchedulerInv' BY StepInv
  <1>3. QED BY <1>1, <1>2, PTL DEF Spec

\* schedule refuses a job exactly when the heap is full, and poll delivers no job before
\* one that waits and is due earlier, or at the same time with a higher priority.
THEOREM SchedulerInOrder == Spec => []SchedulerKeepsOrder
  <1>1. SchedulerInv => SchedulerKeepsOrder
    BY AgreeMeans DEF SchedulerInv, SchedulerKeepsOrder
  <1>2. QED BY <1>1, SchedulerInvariant, PTL

\* A job that was accepted waits in the heap until poll returns it, once: none is dropped,
\* delivered twice or delivered without having been accepted, with retries, refusals and
\* polls of either engine in any order.
THEOREM AcceptedIsKept == Spec => []JobsAreConserved
  <1>1. SchedulerInv => JobsAreConserved BY AgreeMeans DEF SchedulerInv
  <1>2. QED BY <1>1, SchedulerInvariant, PTL

-----------------------------------------------------------------------------
(* The addon and its fallback *)

\* The delay between two attempts, which is 4096 seconds or 2^attempt, or an hour.
LEMMA BackoffTable ==
    /\ 2^0 = 1 /\ 2^1 = 2 /\ 2^2 = 4 /\ 2^3 = 8 /\ 2^4 = 16 /\ 2^5 = 32 /\ 2^6 = 64
    /\ 2^7 = 128 /\ 2^8 = 256 /\ 2^9 = 512 /\ 2^10 = 1024 /\ 2^11 = 2048 /\ 2^12 = 4096
  OBVIOUS

LEMMA BackoffDoubles == BackoffIsCapped
  <1>1. \A a \in 12..31 : backoff_seconds(a) = 3600 BY BackoffTable DEF backoff_seconds
  <1>2. \A a \in 0..11 : /\ backoff_seconds(a) <= 3600
                         /\ backoff_seconds(a + 1) \in {2 * backoff_seconds(a), 3600}
    <2>2. /\ backoff_seconds(0) = 1    /\ backoff_seconds(1) = 2     /\ backoff_seconds(2) = 4
          /\ backoff_seconds(3) = 8    /\ backoff_seconds(4) = 16    /\ backoff_seconds(5) = 32
          /\ backoff_seconds(6) = 64   /\ backoff_seconds(7) = 128   /\ backoff_seconds(8) = 256
          /\ backoff_seconds(9) = 512  /\ backoff_seconds(10) = 1024
          /\ backoff_seconds(11) = 2048
          /\ backoff_seconds(12) = 3600
      BY BackoffTable DEF backoff_seconds
    <2>3. \A a \in 0..11 : a \in {0, 1, 2, 3, 4, 5, 6, 7, 8, 9, 10, 11} OBVIOUS
    <2>4. QED BY <2>2, <2>3
  <1>3. \A a \in 12..30 : a \in 12..31 /\ a + 1 \in 12..31 OBVIOUS
  <1>4. \A a \in 12..30 : /\ backoff_seconds(a) <= 3600
                          /\ backoff_seconds(a + 1) \in {2 * backoff_seconds(a), 3600}
    BY <1>1, <1>3
  <1>5. \A a \in 0..30 : a \in 0..11 \/ a \in 12..30 OBVIOUS
  <1>6. QED BY <1>2, <1>4, <1>5 DEF BackoffIsCapped

\* An engine takes what it has made itself, and either takes the other's license keys.
LEMMA GenuineIsAccepted == GenuineAccepted
  <1> SUFFICES ASSUME NEW kind \in Kinds, NEW d \in Data, NEW e \in Engines, NEW f \in Engines,
                      Made(kind, d, e) # Failure, e = f \/ kind = "license"
               PROVE  Accepts(kind, Made(kind, d, e), d, f)
    BY DEF GenuineAccepted
  <1>1. CASE kind = "license"
    BY <1>1 DEF Accepts, Made, generate_license_key, fallbackGenerateLicense
  <1>2. CASE kind = "password"
    BY <1>2 DEF Accepts, Made, argon2_verify, argon2_hash, fallbackArgon2Hash, Engines
  <1>3. CASE kind = "signature"
    BY <1>3 DEF Accepts, Made, ed25519_sign, Engines
  <1>4. CASE kind = "blob"
    BY <1>4 DEF Accepts, Made, compress, Engines
  <1>5. CASE kind = "sealed"
    BY <1>5 DEF Accepts, Made, Engines
  <1>6. QED BY <1>1, <1>2, <1>3, <1>4, <1>5 DEF Kinds

\* What the addon takes for d2 was made for d2, whichever engine made it.
LEMMA ForgeryIsRefused == ForgedRefused
  <1> SUFFICES ASSUME NEW kind \in Kinds, NEW d \in Data, NEW d2 \in Data, NEW e \in Engines,
                      Accepts(kind, Made(kind, d, e), d2, "addon")
               PROVE  d = d2
    BY DEF ForgedRefused
  <1>1. CASE kind = "license"
    BY <1>1 DEF Accepts, Made, generate_license_key, fallbackGenerateLicense, LicenseOf, sha256
  <1>2. CASE kind = "password"
    BY <1>2 DEF Accepts, Made, argon2_verify, argon2_hash, fallbackArgon2Hash
  <1>3. CASE kind = "signature"
    BY <1>3 DEF Accepts, Made, ed25519_sign, fallbackEd25519Sign
  <1>4. CASE kind = "blob"
    BY <1>4, FailureAssumption DEF Accepts, Made, compress, fallbackCompress
  <1>5. CASE kind = "sealed"
    BY <1>5, FailureAssumption DEF Accepts, Made, aes256_encrypt
  <1>6. QED BY <1>1, <1>2, <1>3, <1>4, <1>5 DEF Kinds

\* The two tables of roles are the same, and what one side does not know neither grants.
LEMMA TablesAgree == PermissionsAgree
  <1> SUFFICES ASSUME NEW role \in DOMAIN ID!ROLES \cup {"guest"},
                      NEW p \in DOMAIN ID!PERMISSIONS \cup {"fly"}
               PROVE  fallbackPermissionCheck(role, p) <=> ID!check_by_name(role, p) = TRUE
    BY DEF PermissionsAgree
  <1>1. fallbackRoles = ID!default_roles BY DEF fallbackRoles, ID!default_roles
  <1>2. \A r \in DOMAIN fallbackRoles : fallbackRoles[r] \subseteq DOMAIN ID!PERMISSIONS
    BY DEF fallbackRoles, ID!PERMISSIONS
  <1>3. CASE p \notin DOMAIN ID!PERMISSIONS \/ role \notin DOMAIN ID!default_roles
    <2>1. ID!check_by_name(role, p) = Failure BY <1>3 DEF ID!check_by_name
    <2>2. ~fallbackPermissionCheck(role, p)
      BY <1>1, <1>2, <1>3 DEF fallbackPermissionCheck
    <2>3. QED BY <2>1, <2>2, FailureAssumption
  <1>4. CASE p \in DOMAIN ID!PERMISSIONS /\ role \in DOMAIN ID!default_roles
    <2>1. ID!check_by_name(role, p) = (p \in ID!default_roles[role])
      BY <1>4 DEF ID!check_by_name
    <2>2. fallbackPermissionCheck(role, p) <=> p \in ID!default_roles[role]
      BY <1>1, <1>4 DEF fallbackPermissionCheck
    <2>3. QED BY <2>1, <2>2
  <1>5. QED BY <1>3, <1>4

\* What an even number of quotes is read as.
LEMMA EscapedIsRead ==
    ASSUME NEW id \in TenantIds
    PROVE  /\ Rendered(SQL!OrgIs(id)) = SQL!OrgIs(escape(id))
           /\ Read(SQL!OrgIs(escape(id))) = SQL!OrgIs(id)
           /\ escape(id) = id <=> id.quotes = 0
           /\ Read(SQL!OrgIs(id)) = SQL!OrgIs(id) <=> id.quotes = 0
           /\ Read(SQL!OrgIs(id)) # SQL!NotDeleted
           /\ SQL!OrgIs(id) # SQL!NotDeleted
           /\ SQL!OrgIs(escape(id)) # SQL!NotDeleted
  <1>1. PICK n \in 0..3 : id = [name |-> "acme", quotes |-> n] BY DEF TenantIds
  <1>2. \A m \in Int : SQL!OrgIs([name |-> "acme", quotes |-> m])
                         = <<"org_id", [name |-> "acme", quotes |-> m]>>
    BY DEF SQL!OrgIs
  <1>3. SQL!NotDeleted = <<"deleted_at", "NULL">> BY DEF SQL!NotDeleted
  <1>4. n \in Int /\ 2 * n \in Int /\ (2 * n) % 2 = 0 /\ (2 * n) \div 2 = n
        /\ (2 * n = n <=> n = 0) /\ (n = 0 => n % 2 = 0)
        /\ ((n % 2 # 1 /\ n \div 2 = n) <=> n = 0) /\ n \div 2 \in Int
    <2>1. n = 0 \/ n = 1 \/ n = 2 \/ n = 3 BY <1>1
    <2>2. QED BY <2>1
  <1>5. escape(id) = [name |-> "acme", quotes |-> 2 * n] BY <1>1 DEF escape
  <1>6. ASSUME NEW m \in Int
        PROVE  /\ Read(SQL!OrgIs([name |-> "acme", quotes |-> m])) =
                    IF m % 2 = 1 THEN Failure ELSE SQL!OrgIs([name |-> "acme", quotes |-> m \div 2])
               /\ Rendered(SQL!OrgIs([name |-> "acme", quotes |-> m])) =
                    SQL!OrgIs(escape([name |-> "acme", quotes |-> m]))
    <2> DEFINE x == [name |-> "acme", quotes |-> m]
    <2>1. x.quotes = m /\ [x EXCEPT !.quotes = @ \div 2] = [name |-> "acme", quotes |-> m \div 2]
      OBVIOUS
    <2>2. SQL!OrgIs(x) = <<"org_id", x>> BY <1>2
    <2> HIDE DEF x
    <2>3. SQL!OrgIs(x)[1] = "org_id" /\ SQL!OrgIs(x)[2] = x BY <2>2
    <2>4. Read(SQL!OrgIs(x)) = IF x.quotes % 2 = 1 THEN Failure
                               ELSE SQL!OrgIs([x EXCEPT !.quotes = @ \div 2])
      BY <2>3 DEF Read
    <2>5. Rendered(SQL!OrgIs(x)) = SQL!OrgIs(escape(x)) BY <2>3 DEF Rendered
    <2>6. QED BY <2>1, <2>4, <2>5 DEF x
  <1>7. Failure # SQL!OrgIs(id) /\ Failure # SQL!NotDeleted BY FailureAssumption
  <1>8. \A m, k \in Int : SQL!OrgIs([name |-> "acme", quotes |-> m])
                            = SQL!OrgIs([name |-> "acme", quotes |-> k]) => m = k
    BY <1>2
  <1>9. \A m \in Int : SQL!OrgIs([name |-> "acme", quotes |-> m]) # SQL!NotDeleted
    <2> SUFFICES ASSUME NEW m \in Int
                 PROVE  SQL!OrgIs([name |-> "acme", quotes |-> m]) # SQL!NotDeleted
      OBVIOUS
    <2>1. SQL!OrgIs([name |-> "acme", quotes |-> m])[1] = "org_id" BY <1>2
    <2>2. SQL!NotDeleted[1] = "deleted_at" BY <1>3
    <2>3. QED BY <2>1, <2>2
  <1>10. escape(id) = id <=> id.quotes = 0 BY <1>1, <1>4, <1>5
  <1>11. Read(SQL!OrgIs(id)) = SQL!OrgIs(id) <=> n = 0
    BY <1>1, <1>4, <1>6, <1>7, <1>8
  <1>12. Read(SQL!OrgIs(escape(id))) = SQL!OrgIs(id) BY <1>1, <1>4, <1>5, <1>6
  <1>13. Rendered(SQL!OrgIs(id)) = SQL!OrgIs(escape(id)) BY <1>1, <1>4, <1>6
  <1>14. Read(SQL!OrgIs(id)) # SQL!NotDeleted BY <1>1, <1>4, <1>6, <1>7, <1>9
  <1>15. /\ SQL!OrgIs(id) # SQL!NotDeleted /\ SQL!OrgIs(escape(id)) # SQL!NotDeleted
    BY <1>1, <1>4, <1>5, <1>9
  <1>16. id.quotes = n BY <1>1
  <1>17. QED BY <1>10, <1>11, <1>12, <1>13, <1>14, <1>15, <1>16

\* The condition that leaves out deleted rows is written and read as it is.
LEMMA NotDeletedIsRead ==
    Rendered(SQL!NotDeleted) = SQL!NotDeleted /\ Read(SQL!NotDeleted) = SQL!NotDeleted
  BY DEF Rendered, Read, SQL!NotDeleted

\* The filters that a SELECT of a tenant is given.
Both(id) == {SQL!OrgIs(id), SQL!NotDeleted}

LEMMA PlannedFilters ==
    ASSUME NEW id \in TenantIds, NEW p, p.injected_filters = Both(id)
    PROVE  to_where_clause(p) = Both(escape(id)) /\ ReadFrom(to_where_clause(p)) = Both(id)
  <1>1. to_where_clause(p) = {Rendered(SQL!OrgIs(id)), Rendered(SQL!NotDeleted)}
    BY Zenon DEF to_where_clause, Both
  <1>2. to_where_clause(p) = Both(escape(id))
    BY <1>1, EscapedIsRead, NotDeletedIsRead DEF Both
  <1>3. ReadFrom(Both(escape(id))) = {Read(SQL!OrgIs(escape(id))), Read(SQL!NotDeleted)}
    BY Zenon DEF ReadFrom, Both
  <1>4. QED BY <1>2, <1>3, EscapedIsRead, NotDeletedIsRead DEF Both

Plans == [ injected_filters : SUBSET InjectedFilters, limit : {0, 7, 100, NoValue},
           include_deleted : BOOLEAN,
           governance_flags : SUBSET {"LimitGuardrailApplied", "SudoBypass"} ]

\* The filters and the limit that the planner gives a request that it does not refuse,
\* and the guardrail that it reports.
PlanFilters(op, tenant) ==
    (IF tenant = NoValue THEN {} ELSE {SQL!OrgIs(tenant)})
    \cup (IF op = "select" THEN {SQL!NotDeleted} ELSE {})

PlanLimit(op, limit) ==
    IF op # "select" THEN NoValue ELSE IF limit = NoValue THEN 100 ELSE limit

PlanFlags(op, limit) ==
    IF op = "select" /\ limit = NoValue THEN {"LimitGuardrailApplied"} ELSE {}

IsPlan(p, op, tenant, limit) ==
    p = [ injected_filters |-> PlanFilters(op, tenant), limit |-> PlanLimit(op, limit),
          include_deleted |-> FALSE, governance_flags |-> PlanFlags(op, limit) ]

LEMMA PlanMade ==
    ASSUME NEW op, NEW tenant \in TenantIds \cup {NoValue}, NEW limit \in {0, 7, NoValue},
           NEW p, IsPlan(p, op, tenant, limit)
    PROVE  /\ p # Failure
           /\ p.injected_filters = PlanFilters(op, tenant)
           /\ p.limit = PlanLimit(op, limit)
  <1> DEFINE filters == PlanFilters(op, tenant)
             most == PlanLimit(op, limit)
             flags == PlanFlags(op, limit)
  <1>1. p = [ injected_filters |-> filters, limit |-> most, include_deleted |-> FALSE,
              governance_flags |-> flags ]
    BY DEF IsPlan
  <1>2. tenant # NoValue => SQL!OrgIs(tenant) \in InjectedFilters BY DEF InjectedFilters
  <1>3. filters \subseteq InjectedFilters BY <1>2 DEF InjectedFilters, PlanFilters
  <1>4. most \in {0, 7, 100, NoValue} /\ flags \subseteq {"LimitGuardrailApplied", "SudoBypass"}
    BY DEF PlanLimit, PlanFlags
  <1> HIDE DEF filters, most, flags
  <1>5. p \in Plans BY <1>1, <1>3, <1>4 DEF Plans
  <1>6. Failure \notin Plans BY FailureAssumption, Zenon DEF Plans
  <1>7. p # Failure BY <1>5, <1>6
  <1>8. p.injected_filters = filters /\ p.limit = most BY <1>1
  <1>9. QED BY <1>7, <1>8 DEF filters, most

LEMMA PlanRefused ==
    ASSUME NEW valid \in BOOLEAN, NEW strict \in BOOLEAN, NEW op, NEW tenant, NEW limit,
           ~valid \/ (strict /\ tenant = NoValue)
    PROVE  plan(SampleTable(valid), op, tenant, limit, strict, 100) = Failure
  <1>1. SampleTable(valid).valid = valid BY DEF SampleTable
  <1>2. QED BY <1>1 DEF plan

\* A plan is what the planner is asked for, with the filters and the limit it adds.
LEMMA PlannerConfines == PlansAreConfined
  <1> SUFFICES ASSUME NEW valid \in BOOLEAN, NEW strict \in BOOLEAN,
                      NEW op \in {"select", "insert", "update", "delete"},
                      NEW tenant \in TenantIds \cup {NoValue}, NEW limit \in {0, 7, NoValue}
               PROVE  LET p == plan(SampleTable(valid), op, tenant, limit, strict, 100)
                      IN  /\ p = Failure <=> ~valid \/ (strict /\ tenant = NoValue)
                          /\ p # Failure /\ tenant # NoValue
                               => SQL!OrgIs(tenant) \in p.injected_filters
                          /\ p # Failure /\ op = "select" => p.limit # NoValue
                          /\ p # Failure /\ op = "select" /\ tenant # NoValue
                               => ReadFrom(to_where_clause(p)) = SQL!injected_filters(TRUE, tenant)
    BY Zenon DEF PlansAreConfined
  <1> DEFINE p == plan(SampleTable(valid), op, tenant, limit, strict, 100)
  <1>1. ~valid \/ (strict /\ tenant = NoValue) => p = Failure BY PlanRefused
  <1>2. ASSUME valid, ~(strict /\ tenant = NoValue)
        PROVE  /\ p # Failure
               /\ tenant # NoValue => SQL!OrgIs(tenant) \in p.injected_filters
               /\ op = "select" => p.limit # NoValue
               /\ op = "select" /\ tenant # NoValue
                    => ReadFrom(to_where_clause(p)) = SQL!injected_filters(TRUE, tenant)
    <2>1. IsPlan(p, op, tenant, limit)
      BY <1>2 DEF plan, SampleTable, IsPlan, PlanFilters, PlanLimit, PlanFlags
    <2> HIDE DEF p
    <2>2. /\ p # Failure
          /\ p.injected_filters = PlanFilters(op, tenant)
          /\ p.limit = PlanLimit(op, limit)
      BY <2>1, PlanMade
    <2>3. op = "select" => p.limit # NoValue BY <2>2, FailureAssumption DEF PlanLimit
    <2>4. tenant # NoValue => SQL!OrgIs(tenant) \in p.injected_filters
      BY <2>2 DEF PlanFilters
    <2>5. ASSUME op = "select", tenant # NoValue
          PROVE  ReadFrom(to_where_clause(p)) = SQL!injected_filters(TRUE, tenant)
      <3>1. tenant \in TenantIds BY <2>5
      <3>2. p.injected_filters = Both(tenant) BY <2>2, <2>5 DEF Both, PlanFilters
      <3>3. ReadFrom(to_where_clause(p)) = Both(tenant) BY <3>1, <3>2, PlannedFilters
      <3>4. QED BY <3>3 DEF SQL!injected_filters, Both
    <2>6. QED BY <2>2, <2>3, <2>4, <2>5
  <1> HIDE DEF p
  <1>3. QED BY <1>1, <1>2 DEF p

\* The fallback writes what the planner writes for ids without quotes only.
LEMMA FiltersDiffer == FiltersAgree
  <1> SUFFICES ASSUME NEW valid \in BOOLEAN, NEW tenant \in TenantIds
               PROVE  LET table == SampleTable(valid)
                          clause == fallbackQueryPlanWhere(table, tenant)
                      IN  /\ query_plan_where(table, tenant) = clause
                               <=> valid /\ tenant.quotes = 0
                          /\ ReadFrom(clause) = SQL!injected_filters(TRUE, tenant)
                               <=> tenant.quotes = 0
                          /\ query_plan_sudo(table) = fallbackQueryPlanSudo(table) <=> valid
    BY Zenon DEF FiltersAgree
  <1> DEFINE table == SampleTable(valid)
             clause == fallbackQueryPlanWhere(table, tenant)
             p == plan(table, "select", tenant, NoValue, TRUE, 100)
             sudo == plan_sudo(table, NoValue)
  <1>1. clause = Both(tenant) BY DEF fallbackQueryPlanWhere, Both
  <1>2. tenant # NoValue BY FailureAssumption
  <1>3. Both(tenant) # Failure BY FailureAssumption DEF Both
  <1>4. query_plan_where(table, tenant) = clause <=> valid /\ tenant.quotes = 0
    <2>1. CASE ~valid
      <3>1. p = Failure BY <2>1, PlanRefused
      <3> HIDE DEF p, clause
      <3>2. query_plan_where(table, tenant) = Failure BY <3>1, Zenon DEF query_plan_where, p
      <3>3. QED BY <1>1, <1>3, <2>1, <3>2
    <2>2. CASE valid
      <3>1. IsPlan(p, "select", tenant, NoValue)
        BY <1>2, <2>2 DEF plan, SampleTable, IsPlan, PlanFilters, PlanLimit, PlanFlags
      <3> HIDE DEF p, clause
      <3>2. p # Failure /\ p.injected_filters = PlanFilters("select", tenant)
        BY <3>1, PlanMade, Zenon
      <3>7. query_plan_where(table, tenant) = to_where_clause(p)
        BY <3>2, Zenon DEF query_plan_where, p
      <3>3. p.injected_filters = Both(tenant) BY <1>2, <3>2 DEF Both, PlanFilters
      <3>4. to_where_clause(p) = Both(escape(tenant)) BY <3>3, PlannedFilters
      <3>5. Both(escape(tenant)) = Both(tenant) <=> tenant.quotes = 0
        <4>1. SQL!OrgIs(escape(tenant)) = SQL!OrgIs(tenant) <=> escape(tenant) = tenant
          BY DEF SQL!OrgIs
        <4>2. QED BY <4>1, EscapedIsRead DEF Both
      <3>8. QED BY <1>1, <2>2, <3>7, <3>4, <3>5
    <2>3. QED BY <2>1, <2>2
  <1>5. ReadFrom(clause) = SQL!injected_filters(TRUE, tenant) <=> tenant.quotes = 0
    <2> HIDE DEF clause
    <2>1. ReadFrom(clause) = {Read(SQL!OrgIs(tenant)), Read(SQL!NotDeleted)}
      BY <1>1, Zenon DEF ReadFrom, Both
    <2>2. SQL!injected_filters(TRUE, tenant) = {SQL!OrgIs(tenant), SQL!NotDeleted}
      BY DEF SQL!injected_filters
    <2> DEFINE x == Read(SQL!OrgIs(tenant))
               y == SQL!OrgIs(tenant)
               z == SQL!NotDeleted
    <2>3. x # z /\ y # z /\ (x = y <=> tenant.quotes = 0) BY EscapedIsRead
    <2>4. Read(z) = z BY NotDeletedIsRead
    <2> HIDE DEF x, y, z
    <2>5. {x, z} = {y, z} <=> x = y BY <2>3
    <2>6. QED BY <2>1, <2>2, <2>3, <2>4, <2>5 DEF x, y, z
  <1>6. query_plan_sudo(table) = fallbackQueryPlanSudo(table) <=> valid
    <2>1. table.valid = valid BY DEF SampleTable
    <2>2. Failure # {} BY FailureAssumption
    <2> HIDE DEF table
    <2>3. CASE ~valid
      <3>1. query_plan_sudo(table) = Failure BY <2>1, <2>3 DEF query_plan_sudo, plan_sudo
      <3>2. QED BY <2>2, <2>3, <3>1 DEF fallbackQueryPlanSudo
    <2>4. CASE valid
      <3>1. sudo = [ injected_filters |-> {}, limit |-> NoValue, include_deleted |-> TRUE,
                     governance_flags |-> {"SudoBypass"} ]
        BY <2>1, <2>4 DEF plan_sudo
      <3> HIDE DEF sudo
      <3>2. sudo \in Plans BY <3>1 DEF Plans
      <3>3. Failure \notin Plans BY FailureAssumption, Zenon DEF Plans
      <3>4. sudo # Failure /\ sudo.injected_filters = {} BY <3>1, <3>2, <3>3
      <3>5. query_plan_sudo(table) = to_where_clause(sudo)
        BY <3>4, Zenon DEF query_plan_sudo, sudo
      <3>6. to_where_clause(sudo) = {} BY <3>4 DEF to_where_clause
      <3>7. QED BY <2>4, <3>5, <3>6 DEF fallbackQueryPlanSudo
    <2>5. QED BY <2>3, <2>4
  <1> HIDE DEF table, clause
  <1>7. QED BY <1>4, <1>5, <1>6 DEF table, clause

-----------------------------------------------------------------------------
(* Money.  Sums over sequences of any length are folds: what they add up   *)
(* to is shown by induction over the size of the part that is summed.      *)

\* Induction over the natural numbers, for a set of them.
LEMMA EveryNumber ==
    ASSUME NEW P, 0 \in P, \A n \in Nat : n \in P => n + 1 \in P
    PROVE  \A n \in Nat : n \in P
  <1> DEFINE R == OpToRel(<, Nat)
             B == Nat \ P
  <1>1. \A y, z \in Nat : y < z => <<y, z>> \in R BY Zenon DEF OpToRel
  <1>2. IsWellFoundedOn(R, Nat) BY NatLessThanWellFounded, Zenon
  <1> HIDE DEF R
  <1>3. SUFFICES ASSUME B # {} PROVE FALSE OBVIOUS
  <1>4. PICK x \in B : \A y \in B : ~(<<y, x>> \in R) BY <1>2, <1>3, WFMin
  <1>5. x \in Nat /\ x # 0 OBVIOUS
  <1>6. x - 1 \in Nat /\ x - 1 < x /\ (x - 1) + 1 = x BY <1>5
  <1>7. x - 1 \notin B BY <1>1, <1>4, <1>5, <1>6
  <1>8. QED BY <1>6, <1>7

\* Division rounds down.
LEMMA Division ==
    ASSUME NEW n \in Int, NEW d \in Nat, d > 0
    PROVE  /\ n \div d \in Int
           /\ d * (n \div d) <= n
           /\ n < d * (n \div d) + d
  OBVIOUS

\* g tells the sum of f over each of the subsets S of D, an element at a time.
IsSum(g, f, S) ==
    g = [s \in S |-> IF s = {} THEN 0
                     ELSE LET x == CHOOSE x \in s : TRUE IN f[x] + g[s \ {x}]]

LEMMA SumUnfolds ==
    ASSUME NEW f, NEW D
    PROVE  SumFunctionOnSet(f, D) = (CHOOSE g : IsSum(g, f, SUBSET D))[D]
  BY Zenon DEF SumFunctionOnSet, FoldFunctionOnSet, MapThenFoldSet, IsSum

\* A finite set has such sums.
LEMMA SumDefined ==
    ASSUME NEW f, NEW D, IsFiniteSet(D)
    PROVE  \E g : IsSum(g, f, SUBSET D)
  <1> DEFINE Small(n) == {s \in SUBSET D : Cardinality(s) <= n}
             P == {n \in Nat : \E g : IsSum(g, f, Small(n))}
             Pick(s) == CHOOSE x \in s : TRUE
             Rest(s) == s \ {Pick(s)}
  <1>1. \A s \in SUBSET D : IsFiniteSet(s) /\ Cardinality(s) \in Nat
    BY FS_Subset, FS_CardinalityType
  <1>2. \A s \in SUBSET D : s # {} => Pick(s) \in s OBVIOUS
  <1>3. \A s \in SUBSET D : s # {} => Cardinality(Rest(s)) = Cardinality(s) - 1
    BY <1>1, <1>2, FS_RemoveElement
  <1>4. \A n \in Nat : \A s \in Small(n) : s # {} => Rest(s) \in Small(n)
    BY <1>1, <1>3
  <1>5. \A n \in Nat : \A s \in Small(n + 1) : s # {} => Rest(s) \in Small(n)
    BY <1>1, <1>3
  <1>6. Small(0) = {{}}
    <2>1. \A s \in SUBSET D : Cardinality(s) <= 0 => s = {} BY <1>1, FS_EmptySet
    <2>2. {} \in Small(0) BY FS_EmptySet
    <2>3. QED BY <2>1, <2>2
  <1>7. Small(Cardinality(D)) = SUBSET D
    BY FS_Subset
  <1>8. \A n \in Nat : \A s \in Small(n) : s \in Small(n + 1) BY <1>1
  <1>9. \A h, S : IsSum(h, f, S) <=>
             h = [s \in S |-> IF s = {} THEN 0 ELSE f[Pick(s)] + h[Rest(s)]]
    BY Zenon DEF IsSum
  <1> HIDE DEF Small, Pick, Rest
  <1>10. 0 \in P
    <2> DEFINE g == [s \in Small(0) |-> 0]
    <2>1. g = [s \in Small(0) |-> IF s = {} THEN 0 ELSE f[Pick(s)] + g[Rest(s)]] BY <1>6
    <2>2. QED BY <1>9, <2>1
  <1>11. ASSUME NEW n \in Nat, n \in P PROVE n + 1 \in P
    <2>1. PICK g : IsSum(g, f, Small(n)) BY <1>11
    <2>2. g = [s \in Small(n) |-> IF s = {} THEN 0 ELSE f[Pick(s)] + g[Rest(s)]] BY <1>9, <2>1
    <2> DEFINE h == [s \in Small(n + 1) |-> IF s = {} THEN 0 ELSE f[Pick(s)] + g[Rest(s)]]
    <2>3. \A s \in Small(n) : h[s] = g[s] BY <1>8, <2>2
    <2>4. \A s \in Small(n + 1) : s # {} => h[Rest(s)] = g[Rest(s)] BY <1>5, <2>3
    <2>5. h = [s \in Small(n + 1) |-> IF s = {} THEN 0 ELSE f[Pick(s)] + h[Rest(s)]]
      <3> DEFINE k == [s \in Small(n + 1) |-> IF s = {} THEN 0 ELSE f[Pick(s)] + h[Rest(s)]]
      <3>1. \A s \in Small(n + 1) : h[s] = k[s] BY <2>4
      <3>2. QED BY <3>1
    <2>6. IsSum(h, f, Small(n + 1)) BY <1>9, <2>5
    <2>7. QED BY <2>6
  <1> HIDE DEF P
  <1>12. \A n \in Nat : n \in P BY <1>10, <1>11, EveryNumber
  <1>13. Cardinality(D) \in P BY <1>12, FS_CardinalityType
  <1>14. QED BY <1>7, <1>13 DEF P

\* g adds up the elements of each subset of D in any order.
AddsUp(g, f, D) ==
    /\ g[{}] = 0
    /\ \A s \in SUBSET D : g[s] \in Int /\ \A x \in s : g[s] = f[x] + g[s \ {x}]

\* The order in which the elements are added makes no difference.
LEMMA AnyElementFirst ==
    ASSUME NEW D, IsFiniteSet(D), NEW f \in [D -> Int], NEW g, IsSum(g, f, SUBSET D)
    PROVE  AddsUp(g, f, D)
  <1> DEFINE Splits(s) == g[s] \in Int /\ \A x \in s : g[s] = f[x] + g[s \ {x}]
             P == {n \in Nat : \A s \in SUBSET D : Cardinality(s) <= n => Splits(s)}
             Pick(s) == CHOOSE x \in s : TRUE
  <1>1. \A s \in SUBSET D : IsFiniteSet(s) /\ Cardinality(s) \in Nat
    BY FS_Subset, FS_CardinalityType
  <1>2. \A s \in SUBSET D : s # {} => Pick(s) \in s OBVIOUS
  <1>3. \A s \in SUBSET D : \A x \in s :
          s \ {x} \in SUBSET D /\ Cardinality(s \ {x}) = Cardinality(s) - 1
    BY <1>1, FS_RemoveElement
  <1>4. g[{}] = 0 /\ \A s \in SUBSET D : s # {} => g[s] = f[Pick(s)] + g[s \ {Pick(s)}]
    <2>1. g = [s \in SUBSET D |-> IF s = {} THEN 0 ELSE f[Pick(s)] + g[s \ {Pick(s)}]]
      BY Zenon DEF IsSum
    <2> HIDE DEF Pick
    <2>2. {} \in SUBSET D OBVIOUS
    <2>3. QED BY <2>1, <2>2
  <1> HIDE DEF Pick
  <1>5. 0 \in P
    <2>1. ASSUME NEW s \in SUBSET D, Cardinality(s) <= 0 PROVE Splits(s)
      <3>1. s = {} BY <1>1, <2>1, FS_EmptySet
      <3>2. QED BY <1>4, <3>1
    <2>2. QED BY <2>1
  <1>6. ASSUME NEW n \in Nat, n \in P PROVE n + 1 \in P
    <2>1. ASSUME NEW s \in SUBSET D, Cardinality(s) <= n + 1 PROVE Splits(s)
      <3> DEFINE p == Pick(s)
      <3>0. CASE s = {} BY <1>4, <3>0
      <3>1. SUFFICES ASSUME s # {} PROVE Splits(s) BY <3>0
      <3>2. p \in s /\ g[s] = f[p] + g[s \ {p}] BY <1>2, <1>4, <3>1
      <3>3. \A x \in s : s \ {x} \in SUBSET D /\ Cardinality(s \ {x}) <= n
        BY <1>1, <1>3, <2>1
      <3>4. \A x \in s : Splits(s \ {x}) BY <1>6, <3>3
      <3>5. \A x \in s : f[x] \in Int OBVIOUS
      <3>6. g[s] \in Int BY <3>2, <3>4, <3>5
      <3>7. ASSUME NEW x \in s PROVE g[s] = f[x] + g[s \ {x}]
        <4>1. CASE x = p BY <4>1, <3>2
        <4>2. CASE x # p
          <5> DEFINE both == (s \ {p}) \ {x}
          <5>1. x \in s \ {p} /\ p \in s \ {x} /\ both = (s \ {x}) \ {p} BY <3>2, <4>2
          <5>2. g[s \ {p}] = f[x] + g[both] BY <3>2, <3>4, <5>1
          <5>3. g[s \ {x}] = f[p] + g[both] BY <3>4, <5>1
          <5>4. both \in SUBSET D /\ Cardinality(both) <= n
            <6> DEFINE q == s \ {p}
            <6>1. q \in SUBSET D /\ Cardinality(q) <= n /\ x \in q BY <3>2, <3>3, <5>1
            <6>2. Cardinality(q) \in Nat BY <1>1, <6>1
            <6> HIDE DEF q
            <6>3. q \ {x} \in SUBSET D /\ Cardinality(q \ {x}) = Cardinality(q) - 1
              BY <1>3, <6>1
            <6>4. QED BY <6>1, <6>2, <6>3 DEF q
          <5>5. g[both] \in Int BY <1>6, <5>4
          <5>6. QED BY <3>2, <3>5, <5>2, <5>3, <5>5
        <4>3. QED BY <4>1, <4>2
      <3>8. QED BY <3>6, <3>7
    <2>2. QED BY <2>1
  <1> HIDE DEF P
  <1>7. \A n \in Nat : n \in P BY <1>5, <1>6, EveryNumber
  <1>8. \A s \in SUBSET D : Splits(s) BY <1>1, <1>7 DEF P
  <1>9. QED BY <1>4, <1>8 DEF AddsUp

\* The sum of a sequence, added up from left to right.
LEMMA SumOfSequence ==
    ASSUME NEW n \in Nat, NEW f \in [1..n -> Int]
    PROVE  \E g \in [0..n -> Int] :
              /\ g[0] = 0 /\ g[n] = SumFunction(f)
              /\ \A k \in 1..n : g[k] = g[k - 1] + f[k]
  <1> DEFINE D == 1..n
  <1>1. IsFiniteSet(D) BY FS_Interval
  <1>2. f \in [D -> Int] OBVIOUS
  <1>3. PICK h : IsSum(h, f, SUBSET D) /\ h[D] = SumFunction(f)
    <2> DEFINE m == CHOOSE g : IsSum(g, f, SUBSET D)
    <2>1. IsSum(m, f, SUBSET D) BY <1>1, SumDefined
    <2>2. DOMAIN f = D BY <1>2
    <2>3. SumFunction(f) = SumFunctionOnSet(f, D) BY <2>2, Zenon DEF SumFunction
    <2>4. SumFunctionOnSet(f, D) = m[D] BY SumUnfolds, Zenon
    <2> HIDE DEF m
    <2>5. QED BY <2>1, <2>3, <2>4
  <1> DEFINE g == [k \in 0..n |-> h[1..k]]
  <1>4. /\ h[{}] = 0
        /\ \A s \in SUBSET D : h[s] \in Int /\ \A x \in s : h[s] = f[x] + h[s \ {x}]
    <2>1. AddsUp(h, f, D)
      <3> HIDE DEF D, g
      <3>1. QED BY <1>1, <1>2, <1>3, AnyElementFirst
    <2>2. QED BY <2>1, Zenon DEF AddsUp
  <1>5. \A k \in 0..n : 1..k \in SUBSET D OBVIOUS
  <1>6. \A k \in 1..n : k \in 1..k /\ (1..k) \ {k} = 1..(k - 1) /\ k \in 0..n /\ k - 1 \in 0..n
    OBVIOUS
  <1>7. 1..0 = {} OBVIOUS
  <1>8. g \in [0..n -> Int] BY <1>4, <1>5
  <1>9. g[0] = 0 /\ g[n] = SumFunction(f) BY <1>3, <1>4, <1>7
  <1>10. ASSUME NEW k \in 1..n PROVE g[k] = g[k - 1] + f[k]
    <2>1. h[1..k] = f[k] + h[1..(k - 1)]
      <3> DEFINE s == 1..k
      <3>1. s \in SUBSET D /\ k \in s /\ s \ {k} = 1..(k - 1) BY <1>5, <1>6
      <3> HIDE DEF s, D
      <3>2. h[s] = f[k] + h[s \ {k}] BY <1>4, <3>1
      <3>3. QED BY <3>1, <3>2 DEF s
    <2>2. h[1..k] \in Int /\ h[1..(k - 1)] \in Int /\ f[k] \in Int BY <1>4, <1>5, <1>6
    <2>3. g[k] = h[1..k] /\ g[k - 1] = h[1..(k - 1)] BY <1>6
    <2> HIDE DEF g
    <2>4. QED BY <2>1, <2>2, <2>3
  <1>11. QED BY <1>8, <1>9, <1>10

\* The sum is an integer, and none without numbers.
LEMMA SumIsInt ==
    ASSUME NEW n \in Nat, NEW f \in [1..n -> Int]
    PROVE  SumFunction(f) \in Int /\ (n = 0 => SumFunction(f) = 0)
  <1>1. PICK g \in [0..n -> Int] : g[0] = 0 /\ g[n] = SumFunction(f) BY SumOfSequence
  <1>2. QED BY <1>1

\* Two inequalities are added up.
LEMMA AddedUp ==
    ASSUME NEW a \in Int, NEW b \in Int, NEW c \in Int, NEW k \in Int,
           NEW u \in Int, NEW v \in Int, NEW x \in Int, NEW y \in Int,
           a * u <= b * v + c * k, a * x <= b * y + c
    PROVE  a * (u + x) <= b * (v + y) + c * (k + 1)
  <1>1. /\ a * (u + x) = a * u + a * x /\ b * (v + y) = b * v + b * y
        /\ c * (k + 1) = c * k + c
    OBVIOUS
  <1>2. a * u \in Int /\ a * x \in Int /\ b * v \in Int /\ b * y \in Int /\ c * k \in Int
    OBVIOUS
  <1>3. a * u + a * x <= b * v + b * y + (c * k + c)
    <2> DEFINE p == a * u
               q == a * x
               s == b * v
               t == b * y
               z == c * k
    <2>1. p \in Int /\ q \in Int /\ s \in Int /\ t \in Int /\ z \in Int BY <1>2
    <2>2. p <= s + z /\ q <= t + c OBVIOUS
    <2> HIDE DEF p, q, s, t, z
    <2>3. p + q <= s + t + (z + c) BY <2>1, <2>2
    <2>4. QED BY <2>3 DEF p, q, s, t, z
  <1>4. QED BY <1>1, <1>3

\* What relates each number of one sequence to that of another relates the sums.
LEMMA SumsCompare ==
    ASSUME NEW n \in Nat, NEW f \in [1..n -> Int], NEW h \in [1..n -> Int],
           NEW a \in Int, NEW b \in Int, NEW c \in Int,
           \A k \in 1..n : a * f[k] <= b * h[k] + c
    PROVE  a * SumFunction(f) <= b * SumFunction(h) + c * n
  <1>1. PICK F \in [0..n -> Int] : /\ F[0] = 0 /\ F[n] = SumFunction(f)
                                   /\ \A k \in 1..n : F[k] = F[k - 1] + f[k]
    BY SumOfSequence
  <1>2. PICK H \in [0..n -> Int] : /\ H[0] = 0 /\ H[n] = SumFunction(h)
                                   /\ \A k \in 1..n : H[k] = H[k - 1] + h[k]
    BY SumOfSequence
  <1> DEFINE P == {k \in Nat : k <= n => a * F[k] <= b * H[k] + c * k}
  <1>3. 0 \in P BY <1>1, <1>2
  <1>4. ASSUME NEW k \in Nat, k \in P PROVE k + 1 \in P
    <2> SUFFICES ASSUME k + 1 <= n PROVE a * F[k + 1] <= b * H[k + 1] + c * (k + 1) OBVIOUS
    <2>1. k + 1 \in 1..n /\ (k + 1) - 1 = k /\ k \in 0..n OBVIOUS
    <2>2. F[k + 1] = F[k] + f[k + 1] /\ H[k + 1] = H[k] + h[k + 1] BY <1>1, <1>2, <2>1
    <2>3. a * F[k] <= b * H[k] + c * k BY <1>4, <2>1
    <2>4. a * f[k + 1] <= b * h[k + 1] + c BY <2>1
    <2>5. /\ F[k] \in Int /\ H[k] \in Int /\ f[k + 1] \in Int /\ h[k + 1] \in Int BY <2>1
    <2>6. a * (F[k] + f[k + 1]) <= b * (H[k] + h[k + 1]) + c * (k + 1)
      <3> DEFINE u == F[k]
                 x == f[k + 1]
                 v == H[k]
                 y == h[k + 1]
      <3>1. u \in Int /\ x \in Int /\ v \in Int /\ y \in Int /\ k \in Int BY <2>5
      <3>2. a * u <= b * v + c * k /\ a * x <= b * y + c BY <2>3, <2>4
      <3> HIDE DEF u, x, v, y
      <3>3. a * (u + x) <= b * (v + y) + c * (k + 1) BY <3>1, <3>2, AddedUp, Zenon
      <3>4. QED BY <3>3 DEF u, x, v, y
    <2>7. QED BY <2>2, <2>6
  <1>5. \A k \in Nat : k \in P
    <2> HIDE DEF P
    <2>1. QED BY <1>3, <1>4, EveryNumber
  <1>6. n \in P BY <1>5
  <1>7. QED BY <1>1, <1>2, <1>6

\* e is the sequence of n numbers f with r added to the sum.
RaisedBy(e, n, f, r) == e \in [1..n -> Int] /\ SumFunction(e) = SumFunction(f) + r

\* What is added to the first number is added to the sum.
LEMMA FirstRaised ==
    ASSUME NEW n \in Nat, n > 0, NEW f \in [1..n -> Int], NEW r \in Int
    PROVE  RaisedBy([f EXCEPT ![1] = @ + r], n, f, r)
  <1> DEFINE e == [f EXCEPT ![1] = @ + r]
  <1>1. e \in [1..n -> Int] /\ e[1] = f[1] + r /\ \A k \in 2..n : e[k] = f[k]
    OBVIOUS
  <1> HIDE DEF e
  <1>2. PICK F \in [0..n -> Int] : /\ F[0] = 0 /\ F[n] = SumFunction(f)
                                   /\ \A k \in 1..n : F[k] = F[k - 1] + f[k]
    BY SumOfSequence
  <1>3. PICK E \in [0..n -> Int] : /\ E[0] = 0 /\ E[n] = SumFunction(e)
                                   /\ \A k \in 1..n : E[k] = E[k - 1] + e[k]
    BY <1>1, SumOfSequence
  <1> DEFINE P == {k \in Nat : k + 1 <= n => E[k + 1] = F[k + 1] + r}
  <1>4. 0 \in P
    <2>1. 1 \in 1..n /\ 1 - 1 = 0 /\ 0 + 1 = 1 OBVIOUS
    <2>2. F[1] = F[0] + f[1] /\ E[1] = E[0] + e[1] BY <1>2, <1>3, <2>1
    <2>3. QED BY <1>1, <1>2, <1>3, <2>1, <2>2
  <1>5. ASSUME NEW k \in Nat, k \in P PROVE k + 1 \in P
    <2> SUFFICES ASSUME (k + 1) + 1 <= n PROVE E[(k + 1) + 1] = F[(k + 1) + 1] + r OBVIOUS
    <2> DEFINE m == (k + 1) + 1
    <2>1. m \in 2..n /\ m \in 1..n /\ m - 1 = k + 1 /\ k + 1 \in 0..n /\ m \in 0..n OBVIOUS
    <2> HIDE DEF m
    <2>2. F[m] = F[k + 1] + f[m] /\ E[m] = E[k + 1] + e[m] BY <1>2, <1>3, <2>1
    <2>3. E[k + 1] = F[k + 1] + r BY <1>5, <2>1
    <2>4. e[m] = f[m] BY <1>1, <2>1
    <2>5. F[k + 1] \in Int /\ f[m] \in Int BY <2>1
    <2>6. E[m] = F[m] + r BY <2>2, <2>3, <2>4, <2>5
    <2>7. QED BY <2>6 DEF m
  <1>6. \A k \in Nat : k \in P
    <2> HIDE DEF P
    <2>1. QED BY <1>4, <1>5, EveryNumber
  <1>7. n - 1 \in P /\ n - 1 + 1 = n
    <2>1. n - 1 \in Nat /\ n - 1 + 1 = n OBVIOUS
    <2> HIDE DEF P
    <2>2. QED BY <1>6, <2>1
  <1>8. SumFunction(e) = SumFunction(f) + r BY <1>2, <1>3, <1>7
  <1>9. QED BY <1>1, <1>8 DEF RaisedBy, e

\* A positive factor is left out.
LEMMA Cancelled ==
    ASSUME NEW q \in Nat, q > 0, NEW x \in Int, NEW y \in Int
    PROVE  /\ q * x <= q * y => x <= y
           /\ q * x < q * y => x < y
  <1>1. x > y => x >= y + 1 /\ q * x >= q * (y + 1) OBVIOUS
  <1>2. q * (y + 1) = q * y + q OBVIOUS
  <1>3. q * x \in Int /\ q * y \in Int OBVIOUS
  <1>4. x > y => q * x > q * y BY <1>1, <1>2, <1>3
  <1>5. x = y => q * x = q * y OBVIOUS
  <1>6. QED BY <1>3, <1>4, <1>5

Sign(t) == t \div Abs(t)

LEMMA SignAndSize ==
    ASSUME NEW t \in Int, t # 0
    PROVE  /\ Abs(t) \in Nat /\ Abs(t) > 0
           /\ Sign(t) \in Int /\ Sign(t) = (IF t > 0 THEN 1 ELSE -1)
           /\ Sign(t) * t = Abs(t)
  <1>1. CASE t > 0
    <2>1. Abs(t) = t BY <1>1 DEF Abs
    <2>2. t \div t = 1 BY <1>1
    <2>3. QED BY <1>1, <2>1, <2>2 DEF Sign
  <1>2. CASE t < 0
    <2>1. Abs(t) = -t BY <1>2 DEF Abs
    <2> DEFINE d == -t
    <2>2. d \in Nat /\ d > 0 /\ t = -d BY <1>2
    <2>3. t \div d = -1
      <3> HIDE DEF d
      <3> DEFINE q == (-d) \div d
      <3>1. q \in Int /\ d * q <= -d /\ -d < d * q + d BY <2>2, Division
      <3> HIDE DEF q
      <3>2. d * q <= d * (-1) /\ d * (-2) < d * q BY <2>2, <3>1
      <3>3. q <= -1 /\ -2 < q BY <2>2, <3>1, <3>2, Cancelled
      <3>4. q = -1 BY <3>1, <3>3
      <3>5. QED BY <2>2, <3>4 DEF q
    <2>4. QED BY <1>2, <2>1, <2>2, <2>3 DEF Sign
  <1>3. QED BY <1>1, <1>2

\* A share is the quota of its ratio, rounded down.
LEMMA ShareIsQuota ==
    ASSUME NEW m \in Int, NEW r \in Int, NEW t \in Int, t # 0
    PROVE  LET s == Share(m, r, t, "floor")
           IN  /\ s \in Int
               /\ Abs(t) * s <= (m * Sign(t)) * r
               /\ (m * Sign(t)) * r < Abs(t) * s + Abs(t)
  <1>1. CASE t > 0
    <2>1. Share(m, r, t, "floor") = (m * r) \div t BY <1>1 DEF Share, Quot
    <2>2. Abs(t) = t /\ Sign(t) = 1 BY <1>1, SignAndSize DEF Abs
    <2>3. m * r \in Int /\ (m * 1) * r = m * r OBVIOUS
    <2>4. QED BY <1>1, <2>1, <2>2, <2>3, Division
  <1>2. CASE t < 0
    <2>1. Share(m, r, t, "floor") = (-(m * r)) \div (-t) BY <1>2 DEF Share, Quot
    <2>2. Abs(t) = -t /\ Sign(t) = -1 /\ -t \in Nat /\ -t > 0 BY <1>2, SignAndSize DEF Abs
    <2>3. -(m * r) \in Int /\ (m * (-1)) * r = -(m * r) OBVIOUS
    <2>4. QED BY <2>1, <2>2, <2>3, Division
  <1>3. QED BY <1>1, <1>2

\* The shares of an amount, each rounded down.
FloorShares(k, ratios, m) ==
    [i \in 1..k |-> Share(m, ratios[i], SumFunction(ratios), "floor")]

\* What the shares leave of the amount is given to the first.
RestToFirst(shares, m) == [shares EXCEPT ![1] = @ + m - SumFunction(shares)]

\* The shares that are rounded down leave less than one unit each.
LEMMA SharesFallShort ==
    ASSUME NEW k \in Nat, k > 0, NEW ratios \in [1..k -> Int], NEW m \in Int,
           SumFunction(ratios) # 0
    PROVE  LET shares == FloorShares(k, ratios, m)
           IN  /\ shares \in [1..k -> Int]
               /\ SumFunction(shares) \in Int
               /\ SumFunction(shares) <= m
               /\ m < SumFunction(shares) + k
  <1> DEFINE t == SumFunction(ratios)
             shares == [i \in 1..k |-> Share(m, ratios[i], t, "floor")]
             q == Abs(t)
             g == Sign(t)
             total == SumFunction(shares)
  <1>1. t \in Int /\ t # 0 BY SumIsInt
  <1>2. q \in Nat /\ q > 0 /\ g \in Int /\ g * t = q
    <2> HIDE DEF t
    <2>1. QED BY <1>1, SignAndSize
  <1>3. \A i \in 1..k : /\ shares[i] \in Int
                        /\ q * shares[i] <= (m * g) * ratios[i]
                        /\ (m * g) * ratios[i] < q * shares[i] + q
    BY <1>1, ShareIsQuota
  <1>4. shares \in [1..k -> Int]
    <2>1. \A i \in 1..k : shares[i] \in Int BY <1>3
    <2>2. QED BY <2>1
  <1> HIDE DEF t, q, g, shares
  <1>5. total \in Int BY <1>4, SumIsInt
  <1>6. m * g \in Int /\ (m * g) * t = q * m
    <2>1. (m * g) * t = m * (g * t) BY <1>1, <1>2
    <2>2. m * g \in Int BY <1>2
    <2>3. m * q = q * m BY <1>2
    <2>4. QED BY <1>2, <2>1, <2>2, <2>3
  <1>7. q * total <= (m * g) * t + 0 * k
    <2>1. \A i \in 1..k : q * shares[i] <= (m * g) * ratios[i] + 0
      BY <1>2, <1>3, <1>6
    <2>2. q \in Int /\ 0 \in Int BY <1>2
    <2>3. QED BY <1>4, <1>6, <2>1, <2>2, SumsCompare DEF t
  <1>8. (m * g) * t <= q * total + (q - 1) * k
    <2>1. ASSUME NEW i \in 1..k PROVE (m * g) * ratios[i] <= q * shares[i] + (q - 1)
      <3> DEFINE u == (m * g) * ratios[i]
                 v == q * shares[i]
      <3>1. u < v + q BY <1>3
      <3>2. u \in Int /\ v \in Int BY <1>2, <1>3, <1>6
      <3> HIDE DEF u, v
      <3>3. u <= v + (q - 1) BY <1>2, <3>1, <3>2
      <3>4. QED BY <3>3 DEF u, v
    <2>2. q \in Int /\ q - 1 \in Int BY <1>2
    <2>3. QED BY <1>4, <1>6, <2>1, <2>2, SumsCompare DEF t
  <1>9. total <= m
    <2>1. 0 * k = 0 /\ q * m \in Int BY <1>2
    <2>2. q * total <= q * m
      <3> DEFINE u == q * total
                 v == (m * g) * t
      <3>1. u <= v + 0 * k /\ v = q * m BY <1>6, <1>7
      <3>2. u \in Int BY <1>2, <1>5
      <3> HIDE DEF u, v
      <3>3. u <= q * m BY <2>1, <3>1, <3>2
      <3>4. QED BY <3>3 DEF u
    <2>3. QED BY <1>2, <1>5, <2>2, Cancelled
  <1>10. m < total + k
    <2>1. (q - 1) * k = q * k - k /\ q * k \in Int BY <1>2
    <2>2. q * (total + k) = q * total + q * k /\ q * total \in Int /\ q * m \in Int
      BY <1>2, <1>5
    <2>3. q * m <= q * total + (q * k - k) BY <1>6, <1>8, <2>1
    <2>4. q * m < q * (total + k) BY <2>1, <2>2, <2>3
    <2>5. total + k \in Int BY <1>5
    <2>6. QED BY <1>2, <2>4, <2>5, Cancelled
  <1>11. shares = FloorShares(k, ratios, m) BY Zenon DEF shares, t, FloorShares
  <1>12. QED BY <1>4, <1>5, <1>9, <1>10, <1>11

\* The powers of ten in use.
LEMMA PowersOfTen ==
    10^0 = 1 /\ 10^1 = 10 /\ 10^2 = 100 /\ 10^3 = 1000 /\ 10^4 = 10000
  OBVIOUS

LEMMA Precisions ==
    ASSUME NEW c
    PROVE  getCurrencyDecimals(c) \in {0, 2, 3}
  BY DEF getCurrencyDecimals

\* A number of thousandths in minor units.
LEMMA ThousandthsInUnits ==
    ASSUME NEW n \in Int, NEW mode
    PROVE  /\ Units(Dec(n, 3), 0, mode) = Quot(n, 1000, mode)
           /\ Units(Dec(n, 3), 2, mode) = Quot(n, 10, mode)
           /\ Units(Dec(n, 3), 3, mode) = n
           /\ \A k \in {0, 2, 3} : Units(Dec(n, 3), k, mode) \in Int
  <1>1. /\ Units(Dec(n, 3), 0, mode) = Quot(n, 1000, mode)
        /\ Units(Dec(n, 3), 2, mode) = Quot(n, 10, mode)
        /\ Units(Dec(n, 3), 3, mode) = n
    BY PowersOfTen DEF Units, Dec
  <1>2. Quot(n, 1000, mode) \in Int /\ Quot(n, 10, mode) \in Int BY DEF Quot
  <1>3. QED BY <1>1, <1>2

\* Money.allocate gives what the shares leave, and that is never negative, to the first.
LEMMA RestGoesToTheFirst ==
    ASSUME NEW k \in Nat, k > 0, NEW ratios \in [1..k -> Int], NEW x, NEW c,
           Units(x, getCurrencyDecimals(c), "floor") \in Int, SumFunction(ratios) # 0
    PROVE  LET m == Units(x, getCurrencyDecimals(c), "floor")
           IN  allocate(x, c, ratios) = RestToFirst(FloorShares(k, ratios, m), m)
  <1> DEFINE m == Units(x, getCurrencyDecimals(c), "floor")
             t == SumFunction(ratios)
             shares == FloorShares(k, ratios, m)
             total == SumFunction(shares)
  <1>1. shares \in [1..k -> Int] /\ total \in Int /\ total <= m
    <2>1. m \in Int /\ t # 0 OBVIOUS
    <2> HIDE DEF m
    <2>2. QED BY <2>1, SharesFallShort
  <1>2. DOMAIN ratios = 1..k /\ ratios # <<>> OBVIOUS
  <1>3. allocate(x, c, ratios) =
          IF ratios = <<>> \/ t = 0 THEN Failure
          ELSE IF m - total > 0 THEN [shares EXCEPT ![1] = @ + (m - total)] ELSE shares
    BY <1>2, Zenon DEF allocate, FloorShares
  <1>4. m \in Int /\ t # 0 OBVIOUS
  <1> HIDE DEF m, t, shares, total
  <1>5. \A v \in Int : v + m - total = v + (m - total) BY <1>1, <1>4
  <1>6. 1 \in 1..k /\ shares[1] \in Int BY <1>1
  <1>7. [shares EXCEPT ![1] = @ + m - total] = [shares EXCEPT ![1] = @ + (m - total)]
    BY <1>5, <1>6
  <1> DEFINE raised == [shares EXCEPT ![1] = @ + m - total]
  <1>8. ASSUME m - total > 0 PROVE allocate(x, c, ratios) = raised
    BY <1>2, <1>3, <1>4, <1>7, <1>8
  <1>9. ASSUME ~(m - total > 0) PROVE allocate(x, c, ratios) = raised
    <2>1. m - total = 0 BY <1>1, <1>4, <1>9
    <2>2. [shares EXCEPT ![1] = @ + (m - total)] = shares
      BY <1>1, <1>6, <2>1
    <2>3. allocate(x, c, ratios) = shares BY <1>2, <1>3, <1>4, <1>9
    <2>4. QED BY <1>7, <2>2, <2>3
  <1> HIDE DEF raised
  <1>10. raised = RestToFirst(shares, m) BY Zenon DEF raised, total, RestToFirst
  <1>11. QED BY <1>8, <1>9, <1>10 DEF m, shares

\* A list of ratios that can be allocated to.
LEMMA Allocatable ==
    ASSUME NEW ratios \in Seq(Int), NEW x, NEW c, allocate(x, c, ratios) # Failure
    PROVE  /\ Len(ratios) \in Nat /\ Len(ratios) > 0 /\ ratios \in [1..Len(ratios) -> Int]
           /\ SumFunction(ratios) # 0
  <1>1. ratios # <<>> /\ SumFunction(ratios) # 0 BY Zenon DEF allocate
  <1>2. QED BY <1>1

\* With the rest the shares are the amount.
LEMMA RestCompletes ==
    ASSUME NEW k \in Nat, k > 0, NEW shares \in [1..k -> Int], NEW m \in Int
    PROVE  LET a == RestToFirst(shares, m)
               left == m - SumFunction(shares)
           IN  /\ left \in Int
               /\ a \in [1..k -> Int] /\ SumFunction(a) = m
               /\ a[1] = shares[1] + left
               /\ \A i \in 2..k : a[i] = shares[i]
  <1> DEFINE total == SumFunction(shares)
             left == m - total
             a == RestToFirst(shares, m)
  <1>1. total \in Int BY SumIsInt
  <1> HIDE DEF total
  <1>2. left \in Int /\ \A v \in Int : v + m - total = v + left BY <1>1
  <1>3. 1 \in 1..k /\ shares[1] \in Int OBVIOUS
  <1> HIDE DEF left
  <1>4. a = [shares EXCEPT ![1] = @ + left] BY <1>2, <1>3 DEF RestToFirst, total
  <1> HIDE DEF a
  <1>5. a \in [1..k -> Int] /\ SumFunction(a) = total + left
    <2>1. RaisedBy(a, k, shares, left) BY <1>2, <1>4, FirstRaised
    <2>2. QED BY <2>1 DEF RaisedBy, total
  <1>6. total + left = m BY <1>1 DEF left
  <1>7. a[1] = shares[1] + left /\ \A i \in 2..k : a[i] = shares[i] BY <1>3, <1>4
  <1>8. QED BY <1>2, <1>5, <1>6, <1>7 DEF a, left, total

\* What is cut off below the minor unit k decimals long shows if it is rounded up.
LEMMA ShownOrOneLess ==
    ASSUME NEW n \in Int, NEW k \in {0, 2, 3}
    PROVE  LET m == Units(Dec(n, 3), k, "floor")
               shown == Units(Dec(n, 3), k, "even")
           IN  /\ shown - m \in {0, 1}
               /\ SameValue(Dec(m, k), Dec(n, 3)) => shown = m
  <1> DEFINE Floor(d) == Quot(n, d, "floor")
             Even(d) == Quot(n, d, "even")
  <1>1. ASSUME NEW d \in {10, 1000}
        PROVE  /\ Floor(d) \in Int /\ Even(d) \in Int /\ Even(d) - Floor(d) \in {0, 1}
               /\ Floor(d) * d = n => Even(d) = Floor(d)
    <2> DEFINE q == n \div d
               r == n % d
    <2>1. q \in Int /\ r \in 0..(d - 1) /\ n = d * q + r OBVIOUS
    <2>2. Floor(d) = q BY DEF Quot
    <2>3. Even(d) = IF 2 * r > d \/ (2 * r = d /\ q % 2 = 1) THEN q + 1 ELSE q BY DEF Quot
    <2> HIDE DEF q, r, Floor, Even
    <2>4. q * d = n => r = 0 BY <2>1
    <2>5. QED BY <2>1, <2>2, <2>3, <2>4
  <1>2. \A x \in Int : /\ SameValue(Dec(x, 0), Dec(n, 3)) => x * 1000 = n
                       /\ SameValue(Dec(x, 2), Dec(n, 3)) => x * 10 = n
    BY PowersOfTen DEF SameValue, DecAdd, DecMul, Dec
  <1> HIDE DEF Floor, Even
  <1>3. CASE k = 3
    <2>1. Units(Dec(n, 3), k, "floor") = n /\ Units(Dec(n, 3), k, "even") = n
      BY <1>3, ThousandthsInUnits
    <2>2. QED BY <2>1
  <1>4. CASE k = 2
    <2>1. Units(Dec(n, 3), k, "floor") = Floor(10) /\ Units(Dec(n, 3), k, "even") = Even(10)
      BY <1>4, ThousandthsInUnits DEF Floor, Even
    <2>2. QED BY <1>1, <1>2, <1>4, <2>1
  <1>5. CASE k = 0
    <2>1. /\ Units(Dec(n, 3), k, "floor") = Floor(1000)
          /\ Units(Dec(n, 3), k, "even") = Even(1000)
      BY <1>5, ThousandthsInUnits DEF Floor, Even
    <2>2. QED BY <1>1, <1>2, <1>5, <2>1
  <1>6. QED BY <1>3, <1>4, <1>5

\* No unit is lost or invented, and only the first share is above its quota.
LEMMA NothingIsLost == AllocationLosesNothing
  <1> SUFFICES ASSUME NEW n \in Thousandths, NEW c \in SampleCurrencies,
                      NEW ratios \in RatioLists,
                      allocate(Dec(n, 3), c, ratios) # Failure
               PROVE  LET minor == Units(Dec(n, 3), getCurrencyDecimals(c), "floor")
                          total == SumFunction(ratios)
                          a == allocate(Dec(n, 3), c, ratios)
                      IN  /\ SumFunction(a) = minor
                          /\ toMinorUnits(Dec(n, 3), c) - minor \in {0, 1}
                          /\ SameValue(Dec(minor, getCurrencyDecimals(c)), Dec(n, 3))
                               => toMinorUnits(Dec(n, 3), c) = minor
                          /\ \A i \in 2..Len(ratios) :
                                Abs(total) * (a[i] + 1) > minor * ratios[i] * (total \div Abs(total))
                          /\ a[1] < Share(minor, ratios[1], total, "floor") + Len(ratios)
    BY DEF AllocationLosesNothing
  <1> DEFINE x == Dec(n, 3)
             m == Units(x, getCurrencyDecimals(c), "floor")
             k == Len(ratios)
             t == SumFunction(ratios)
             shares == FloorShares(k, ratios, m)
             left == m - SumFunction(shares)
             a == allocate(x, c, ratios)
             shown == toMinorUnits(x, c)
             whole == SameValue(Dec(m, getCurrencyDecimals(c)), x)
  <1>1. n \in Int /\ ratios \in Seq(Int) BY NativeAssumption
  <1>2. m \in Int BY <1>1, Precisions, ThousandthsInUnits
  <1>3. shown - m \in {0, 1} /\ (whole => shown = m)
    <2> DEFINE places == getCurrencyDecimals(c)
    <2>1. places \in {0, 2, 3} BY Precisions
    <2>2. /\ shown = Units(Dec(n, 3), places, "even") /\ m = Units(Dec(n, 3), places, "floor")
          /\ whole = SameValue(Dec(Units(Dec(n, 3), places, "floor"), places), Dec(n, 3))
      BY DEF toMinorUnits
    <2> HIDE DEF places, shown, whole, m, x
    <2>3. /\ Units(Dec(n, 3), places, "even") - Units(Dec(n, 3), places, "floor") \in {0, 1}
          /\ SameValue(Dec(Units(Dec(n, 3), places, "floor"), places), Dec(n, 3))
               => Units(Dec(n, 3), places, "even") = Units(Dec(n, 3), places, "floor")
      BY <1>1, <2>1, ShownOrOneLess
    <2>4. QED BY <2>2, <2>3
  <1> HIDE DEF shown, whole
  <1>4. k \in Nat /\ k > 0 /\ ratios \in [1..k -> Int] /\ t # 0 /\ t \in Int
    BY <1>1, Allocatable, SumIsInt
  <1>5. a = RestToFirst(shares, m)
    <2>1. k \in Nat /\ k > 0 /\ ratios \in [1..k -> Int] /\ t # 0 BY <1>4
    <2> HIDE DEF x, k
    <2>2. QED BY <1>2, <2>1, RestGoesToTheFirst
  <1> HIDE DEF m
  <1>6. /\ shares \in [1..k -> Int] /\ SumFunction(shares) \in Int
        /\ SumFunction(shares) <= m /\ m < SumFunction(shares) + k
    <2> HIDE DEF k
    <2>1. QED BY <1>2, <1>4, SharesFallShort
  <1>7. \A i \in 1..k : /\ shares[i] \in Int
                        /\ (m * Sign(t)) * ratios[i] < Abs(t) * shares[i] + Abs(t)
    BY <1>2, <1>4, ShareIsQuota DEF FloorShares
  <1>8. shares[1] = Share(m, ratios[1], t, "floor") BY <1>4 DEF FloorShares
  <1>9. Abs(t) \in Nat /\ Sign(t) \in Int
    <2> HIDE DEF t
    <2>1. QED BY <1>4, SignAndSize
  <1> HIDE DEF x, t, shares, k, a
  <1>10. left \in Int /\ left < k BY <1>2, <1>4, <1>6
  <1> HIDE DEF left
  <1>11. /\ SumFunction(a) = m
         /\ a[1] = shares[1] + left
         /\ \A i \in 2..k : a[i] = shares[i]
    BY <1>2, <1>4, <1>5, <1>6, RestCompletes DEF left
  <1>12. ASSUME NEW i \in 2..k
         PROVE  Abs(t) * (a[i] + 1) > m * ratios[i] * (t \div Abs(t))
    <2>1. i \in 1..k /\ a[i] = shares[i] BY <1>4, <1>11
    <2>2. Abs(t) * (shares[i] + 1) = Abs(t) * shares[i] + Abs(t) BY <1>7, <1>9, <2>1
    <2>3. (m * Sign(t)) * ratios[i] = m * ratios[i] * Sign(t)
      BY <1>2, <1>4, <1>9, <2>1
    <2>4. m * ratios[i] * Sign(t) \in Int /\ Abs(t) * shares[i] + Abs(t) \in Int
      <3>1. ratios[i] \in Int /\ shares[i] \in Int /\ Abs(t) \in Int BY <1>4, <1>7, <1>9, <2>1
      <3>2. m * ratios[i] \in Int /\ Abs(t) * shares[i] \in Int BY <1>2, <3>1
      <3>3. QED BY <1>9, <3>1, <3>2
    <2>5. m * ratios[i] * Sign(t) < Abs(t) * shares[i] + Abs(t) BY <1>7, <2>1, <2>3
    <2>6. Abs(t) * (a[i] + 1) > m * ratios[i] * Sign(t) BY <2>1, <2>2, <2>4, <2>5
    <2>7. QED BY <2>6 DEF Sign
  <1>13. a[1] < shares[1] + k
    <2>1. 1 \in 1..k BY <1>4
    <2>2. shares[1] \in Int BY <1>7, <2>1
    <2>3. QED BY <1>4, <1>10, <1>11, <2>2
  <1>14. QED BY <1>3, <1>8, <1>11, <1>12, <1>13 DEF x, m, t, k, a, shown, whole

\* The shares of the engine, each cut off.
CutShares(k, ratios, m) ==
    [i \in 1..k |-> Share(m, ratios[i], SumFunction(ratios), "zero")]

\* The three allocators split an amount that is not negative alike, and lose nothing.
LEMMA SplitAlike == AllocatorsAgree
  <1> SUFFICES ASSUME NEW m \in Thousandths, NEW ratios \in RatioLists,
                      allocate(Dec(m, 2), "ZAR", ratios) # Failure,
                      \A i \in DOMAIN ratios : ratios[i] >= 0
               PROVE  LET a == allocate(Dec(m, 2), "ZAR", ratios)
                          b == allocate_rust(m, ratios)
                      IN  /\ a = fallbackAllocate(m, ratios)
                          /\ m >= 0 => a = b
                          /\ SumFunction(b) = m
    BY DEF AllocatorsAgree
  <1> DEFINE x == Dec(m, 2)
             k == Len(ratios)
             t == SumFunction(ratios)
             a == allocate(x, "ZAR", ratios)
             b == allocate_rust(m, ratios)
             f == fallbackAllocate(m, ratios)
  <1>1. m \in Int /\ ratios \in Seq(Int) BY NativeAssumption
  <1>2. k \in Nat /\ k > 0 /\ ratios \in [1..k -> Int] /\ t # 0 /\ t \in Int
    BY <1>1, Allocatable, SumIsInt
  <1>3. Units(x, getCurrencyDecimals("ZAR"), "floor") = m
    <2>1. getCurrencyDecimals("ZAR") = 2 BY DEF getCurrencyDecimals, ZeroDecimal, ThreeDecimal
    <2>2. Units(x, 2, "floor") = m BY <1>1, PowersOfTen DEF Units, Dec
    <2>3. QED BY <2>1, <2>2
  <1>4. DOMAIN ratios = 1..k BY <1>2
  <1> HIDE DEF x, k
  <1>5. a = RestToFirst(FloorShares(k, ratios, m), m)
    BY <1>1, <1>2, <1>3, RestGoesToTheFirst
  <1>6. f = RestToFirst(FloorShares(k, ratios, m), m)
    BY <1>2, <1>4, Zenon DEF fallbackAllocate, Allocated, RestToFirst, FloorShares
  <1>7. b = RestToFirst(CutShares(k, ratios, m), m)
    BY <1>2, <1>4, Zenon DEF allocate_rust, Allocated, RestToFirst, CutShares
  <1>8. t > 0
    <2>1. \A i \in 1..k : (-1) * ratios[i] <= 0 * ratios[i] + 0 BY <1>2, <1>4
    <2> DEFINE minus == -1
               none == 0
    <2>2. minus \in Int /\ none \in Int /\ \A i \in 1..k : minus * ratios[i] <= none * ratios[i] + none
      BY <2>1
    <2> HIDE DEF minus, none
    <2>3. minus * t <= none * t + none * k BY <1>2, <2>2, SumsCompare
    <2> HIDE DEF t
    <2>4. QED BY <1>2, <2>3 DEF minus, none
  <1> HIDE DEF t, a, b, f
  <1>9. ASSUME NEW i \in 1..k
        PROVE  /\ Share(m, ratios[i], t, "zero") \in Int
               /\ m >= 0 => Share(m, ratios[i], t, "zero") = Share(m, ratios[i], t, "floor")
    <2> DEFINE v == m * ratios[i]
    <2>1. ratios[i] \in Int /\ ratios[i] >= 0 BY <1>2, <1>4
    <2>2. v \in Int /\ (m >= 0 => v >= 0) BY <1>1, <2>1
    <2>3. \A mode : Share(m, ratios[i], t, mode) = Quot(v, t, mode) BY <1>8 DEF Share
    <2> HIDE DEF v
    <2>4. v \div t \in Int BY <1>2, <1>8, <2>2, Division
    <2>5. Quot(v, t, "floor") = v \div t BY DEF Quot
    <2>6. Quot(v, t, "zero") \in {v \div t, v \div t + 1} BY DEF Quot
    <2>7. v >= 0 => Quot(v, t, "zero") = v \div t BY <2>2 DEF Quot
    <2>8. QED BY <2>2, <2>3, <2>4, <2>5, <2>6, <2>7
  <1>10. CutShares(k, ratios, m) \in [1..k -> Int]
    BY <1>9 DEF CutShares, t
  <1>11. SumFunction(b) = m BY <1>1, <1>2, <1>7, <1>10, RestCompletes
  <1>12. m >= 0 => CutShares(k, ratios, m) = FloorShares(k, ratios, m)
    BY <1>9 DEF CutShares, FloorShares, t
  <1>13. QED BY <1>5, <1>6, <1>7, <1>11, <1>12 DEF x, a, b, f

\* A currency that the engine knows has the precision that Money gives it.
LEMMA PrecisionsAgree ==
    ASSUME NEW c, currency_decimals(c) # Failure
    PROVE  currency_decimals(c) \in {0, 2, 3} /\ getCurrencyDecimals(c) = currency_decimals(c)
  <1>1. CASE c \in ZeroDecimal BY <1>1 DEF currency_decimals, getCurrencyDecimals
  <1>2. CASE c \notin ZeroDecimal /\ c \in {"BHD", "KWD", "OMR", "JOD", "TND", "LYD"}
    BY <1>2 DEF currency_decimals, getCurrencyDecimals, ThreeDecimal
  <1>3. CASE /\ c \notin ZeroDecimal /\ c \notin {"BHD", "KWD", "OMR", "JOD", "TND", "LYD"}
             /\ c \in TwoDecimalRust
    <2>1. c # "IQD" BY <1>3 DEF TwoDecimalRust
    <2>2. c \notin ThreeDecimal BY <1>3, <2>1 DEF ThreeDecimal
    <2>3. QED BY <1>3, <2>2 DEF currency_decimals, getCurrencyDecimals
  <1>4. QED BY <1>1, <1>2, <1>3 DEF currency_decimals

\* What the engine writes in minor units is read back.
LEMMA RoundTrip == MinorUnitsRoundTrip
  <1> SUFFICES ASSUME NEW n \in Thousandths, NEW c \in KnownCurrencies,
                      from_minor_units(n, c) # Failure
               PROVE  LET x == from_minor_units(n, c)
                      IN  toMinorUnits(x, c) = n /\ to_minor_units(x, c) = n
    BY DEF MinorUnitsRoundTrip
  <1> DEFINE k == currency_decimals(c)
  <1>1. k # Failure /\ from_minor_units(n, c) = Dec(n, k) BY DEF from_minor_units
  <1>2. k \in {0, 2, 3} /\ getCurrencyDecimals(c) = k BY <1>1, PrecisionsAgree
  <1>3. \A mode : Units(Dec(n, k), k, mode) = n
    <2>1. n \in Int BY NativeAssumption
    <2> HIDE DEF k
    <2>2. \A mode : /\ Units(Dec(n, 0), 0, mode) = n /\ Units(Dec(n, 2), 2, mode) = n
                    /\ Units(Dec(n, 3), 3, mode) = n
      BY <2>1, PowersOfTen DEF Units, Dec
    <2>3. QED BY <1>2, <2>2
  <1>4. QED BY <1>1, <1>2, <1>3 DEF toMinorUnits, to_minor_units

\* How far the roundings of n / 1000 and n / 10 are from it and from each other.
LEMMA RoundingsAreNear ==
    ASSUME NEW n \in Int, NEW d \in {10, 1000}
    PROVE  LET m == Quot(n, d, "even")
           IN  /\ m \in Int /\ 2 * Abs(m * d - n) <= d
               /\ Abs(m - Quot(n, d, "zero")) <= 1
               /\ Abs(m - Quot(n, d, "round")) <= 1
  <1> DEFINE q == n \div d
             r == n % d
  <1>1. q \in Int /\ r \in 0..(d - 1) /\ n = q * d + r
    <2>1. CASE d = 10 BY <2>1
    <2>2. CASE d = 1000 BY <2>2
    <2>3. QED BY <2>1, <2>2
  <1> DEFINE m == Quot(n, d, "even")
             z == Quot(n, d, "zero")
             h == Quot(n, d, "round")
  <1>2. m = IF 2 * r > d \/ (2 * r = d /\ q % 2 = 1) THEN q + 1 ELSE q BY DEF Quot
  <1>3. z = IF n < 0 /\ r # 0 THEN q + 1 ELSE q BY DEF Quot
  <1>4. h = IF 2 * r >= d THEN q + 1 ELSE q BY DEF Quot
  <1> HIDE DEF q, r, m, z, h
  <1>5. Abs(m - z) <= 1 /\ Abs(m - h) <= 1 BY <1>1, <1>2, <1>3, <1>4 DEF Abs
  <1>6. m \in Int /\ 2 * Abs(m * d - n) <= d
    <2>1. CASE m = q
      <3>1. 2 * r <= d BY <1>1, <1>2, <2>1
      <3>2. m * d - n = -r BY <1>1, <2>1
      <3>3. QED BY <1>1, <2>1, <3>1, <3>2 DEF Abs
    <2>2. CASE m = q + 1
      <3>1. 2 * r >= d BY <1>1, <1>2, <2>2
      <3>2. m * d - n = d - r
        <4>1. (q + 1) * d = q * d + d BY <1>1
        <4>2. QED BY <1>1, <2>2, <4>1
      <3>3. QED BY <1>1, <2>2, <3>1, <3>2 DEF Abs
    <2>3. QED BY <1>2, <2>1, <2>2
  <1>7. QED BY <1>5, <1>6 DEF m, z, h

\* Money, the engine and the fallback round to within one unit of each other.
LEMMA RoundedAlike == RoundingWithinOneUnit
  <1> SUFFICES ASSUME NEW n \in Thousandths, NEW c \in SampleCurrencies
               PROVE  LET m == toMinorUnits(Dec(n, 3), c)
                          unit == 10^(3 - getCurrencyDecimals(c))
                      IN  /\ 2 * Abs(m * unit - n) <= unit
                          /\ Abs(m - to_minor_units(Dec(n, 3), c)) <= 1
                          /\ Abs(m - fallbackToMinorUnits(Dec(n, 3), c)) <= 1
    BY DEF RoundingWithinOneUnit
  <1>1. n \in Int /\ Failure \notin Int BY NativeAssumption, FailureAssumption
  <1> DEFINE k == getCurrencyDecimals(c)
  <1>2. k \in {0, 2, 3} /\ currency_decimals(c) = k /\ fallbackDecimals(c) = k
    <2>1. CASE c = "JPY"
      BY <2>1 DEF getCurrencyDecimals, currency_decimals, fallbackDecimals, ZeroDecimal
    <2>2. CASE c = "ZAR"
      BY <2>2 DEF getCurrencyDecimals, currency_decimals, fallbackDecimals, ZeroDecimal,
                  ThreeDecimal, TwoDecimalRust
    <2>3. CASE c = "BHD"
      BY <2>3 DEF getCurrencyDecimals, currency_decimals, fallbackDecimals, ZeroDecimal,
                  ThreeDecimal
    <2>4. QED BY <2>1, <2>2, <2>3 DEF SampleCurrencies
  <1>3. /\ toMinorUnits(Dec(n, 3), c) = Units(Dec(n, 3), k, "even")
        /\ to_minor_units(Dec(n, 3), c) = Units(Dec(n, 3), k, "zero")
        /\ fallbackToMinorUnits(Dec(n, 3), c) = Units(Dec(n, 3), k, "round")
    BY <1>1, <1>2 DEF toMinorUnits, to_minor_units, fallbackToMinorUnits
  <1> HIDE DEF k
  <1>4. SUFFICES LET m == Units(Dec(n, 3), k, "even")
                     unit == 10^(3 - k)
                 IN  /\ 2 * Abs(m * unit - n) <= unit
                     /\ Abs(m - Units(Dec(n, 3), k, "zero")) <= 1
                     /\ Abs(m - Units(Dec(n, 3), k, "round")) <= 1
    BY <1>3 DEF k
  <1>5. CASE k = 0
    BY <1>1, <1>5, ThousandthsInUnits, RoundingsAreNear, PowersOfTen
  <1>6. CASE k = 2
    BY <1>1, <1>6, ThousandthsInUnits, RoundingsAreNear, PowersOfTen
  <1>7. CASE k = 3
    BY <1>1, <1>7, ThousandthsInUnits, PowersOfTen DEF Abs
  <1>8. QED BY <1>2, <1>5, <1>6, <1>7

\* Ten thousandths of a unit are basis points.
LEMMA BasisPoints ==
    ASSUME NEW m \in Int, NEW bp \in Int, NEW mode
    PROVE  apply_basis_points(m, bp, mode) = Quot(m * bp, 10000, mode)
  BY PowersOfTen DEF apply_basis_points, multiply, DecMul, Dec, Units

LEMMA PointsAgree == BasisPointsAgree
  <1> SUFFICES ASSUME NEW m \in Thousandths, NEW bp \in {1, 250, 500, 1900, 2500, 10000}
               PROVE  LET r == apply_basis_points(m, bp, "even")
                          f == fallbackApplyBasisPoints(m, bp)
                      IN  r # f => Tie(m * bp) /\ Abs(r - f) = 1
    BY DEF BasisPointsAgree
  <1> DEFINE w == m * bp
  <1>1. m \in Int /\ bp \in Int /\ w \in Int BY NativeAssumption
  <1>2. /\ apply_basis_points(m, bp, "even") = Quot(w, 10000, "even")
        /\ fallbackApplyBasisPoints(m, bp) = Quot(w, 10000, "round")
    BY <1>1, BasisPoints DEF fallbackApplyBasisPoints
  <1> HIDE DEF w
  <1>3. LET r == Quot(w, 10000, "even")
            f == Quot(w, 10000, "round")
        IN  r # f => w % 10000 = 5000 /\ Abs(r - f) = 1
    BY <1>1 DEF Quot, Abs
  <1>4. QED BY <1>2, <1>3 DEF w, Tie

-----------------------------------------------------------------------------
(* The two tax calculations *)

LEMMA RatesAreInts == \A c \in DOMAIN RateBP : RateBP[c] \in Int
  <1>1. \A c \in DOMAIN EU_VAT_BP : EU_VAT_BP[c] \in Int BY DEF EU_VAT_BP
  <1>2. \A c \in DOMAIN OTHER_RATES_BP : OTHER_RATES_BP[c] \in Int BY DEF OTHER_RATES_BP
  <1>3. QED BY <1>1, <1>2 DEF RateBP

\* The engine knows no rate where Money takes it for nought, and the same otherwise; but
\* for the destinations that only Money taxes.
LEMMA RatesAgree ==
    ASSUME NEW d, d.vatId \in {"none", "empty", "some"}
    PROVE  /\ resolveRateBP(d) \in Int
           /\ vat_basis_points(d) \in Int \cup {Failure}
           /\ OnlyMoneyTaxes(d) => vat_basis_points(d) \in {0, Failure}
           /\ ~OnlyMoneyTaxes(d) =>
                resolveRateBP(d) = IF vat_basis_points(d) = Failure THEN 0 ELSE vat_basis_points(d)
  <1>1. \A c \in DOMAIN RateBP : RateBP[c] \in Int BY RatesAreInts
  <1>2. Failure \notin Int BY FailureAssumption
  <1>3. resolveRateBP(d) \in Int BY <1>1 DEF resolveRateBP
  <1>4. CASE ~d.capitals
    <2>1. vat_basis_points(d) = Failure BY <1>4 DEF vat_basis_points
    <2>2. ~OnlyMoneyTaxes(d) => resolveRateBP(d) = 0 BY <1>4 DEF OnlyMoneyTaxes
    <2>3. QED BY <1>3, <2>1, <2>2
  <1>5. CASE d.capitals /\ d.vatId # "none" /\ d.country \in DOMAIN EU_VAT_BP
    <2>1. vat_basis_points(d) = 0 BY <1>5 DEF vat_basis_points
    <2>2. d.vatId = "some" => resolveRateBP(d) = 0 BY <1>5 DEF resolveRateBP
    <2>3. ~OnlyMoneyTaxes(d) => resolveRateBP(d) = 0 BY <1>5, <2>2 DEF OnlyMoneyTaxes
    <2>4. QED BY <1>2, <1>3, <2>1, <2>3
  <1>6. CASE d.capitals /\ ~(d.vatId # "none" /\ d.country \in DOMAIN EU_VAT_BP)
    <2>1. ~OnlyMoneyTaxes(d) BY <1>6 DEF OnlyMoneyTaxes
    <2>2. CASE d.country \in DOMAIN RateBP
      <3>1. vat_basis_points(d) = RateBP[d.country] /\ resolveRateBP(d) = RateBP[d.country]
        BY <1>6, <2>2 DEF vat_basis_points, resolveRateBP
      <3>2. QED BY <1>1, <1>2, <2>1, <2>2, <3>1
    <2>3. CASE d.country \notin DOMAIN RateBP
      <3>1. vat_basis_points(d) = Failure /\ resolveRateBP(d) = 0
        BY <1>6, <2>3 DEF vat_basis_points, resolveRateBP
      <3>2. QED BY <2>1, <3>1
    <2>4. QED BY <2>2, <2>3
  <1>7. QED BY <1>4, <1>5, <1>6

\* g holds the subtotals of the first items.
IsSubtotal(g, items) ==
    g = [i \in 0..Len(items) |->
           IF i = 0 THEN [amount |-> Dec(0, 0), currency |-> items[1].price.currency]
           ELSE moneyAdd(g[i - 1], moneyMultiply(items[i].price, Dec(items[i].quantity, 0)))]

\* The subtotal of the two items, in hundredths.
LEMMA SubtotalOfItems ==
    ASSUME NEW p \in Int, NEW q \in Int, NEW g, IsSubtotal(g, Items(p, q))
    PROVE  g[2] = [amount |-> Dec(p * q + 3, 2), currency |-> "ZAR"]
  <1> DEFINE Zar(a) == [amount |-> a, currency |-> "ZAR"]
             items == Items(p, q)
             Line(i) == moneyMultiply(items[i].price, Dec(items[i].quantity, 0))
  <1>1. Len(items) = 2 /\ items[1].price.currency = "ZAR" BY DEF Items
  <1>2. Line(1) = Zar(Dec(p * q, 2))
    <2>1. items[1].price = Zar(Dec(p, 2)) /\ items[1].quantity = q BY DEF Items
    <2>2. DecMul(Dec(p, 2), Dec(q, 0)) = Dec(p * q, 2) BY DEF DecMul, Dec
    <2>3. [Zar(Dec(p, 2)) EXCEPT !.amount = DecMul(@, Dec(q, 0))] = Zar(Dec(p * q, 2))
      BY <2>2
    <2> HIDE DEF items
    <2>4. QED BY <2>1, <2>3 DEF moneyMultiply
  <1>3. Line(2) = Zar(Dec(3, 2))
    <2>1. items[2].price = Zar(Dec(1, 2)) /\ items[2].quantity = 3 BY DEF Items
    <2>2. DecMul(Dec(1, 2), Dec(3, 0)) = Dec(3, 2) BY DEF DecMul, Dec
    <2>3. [Zar(Dec(1, 2)) EXCEPT !.amount = DecMul(@, Dec(3, 0))] = Zar(Dec(3, 2))
      BY <2>2
    <2> HIDE DEF items
    <2>4. QED BY <2>1, <2>3 DEF moneyMultiply
  <1>4. g = [i \in 0..2 |-> IF i = 0 THEN Zar(Dec(0, 0)) ELSE moneyAdd(g[i - 1], Line(i))]
    BY <1>1, Zenon DEF IsSubtotal
  <1> HIDE DEF Line, items
  <1>5. \A a, b \in [n : Int, k : Nat] : moneyAdd(Zar(a), Zar(b)) = Zar(DecAdd(a, b))
    <2> SUFFICES ASSUME NEW a \in [n : Int, k : Nat], NEW b \in [n : Int, k : Nat]
                 PROVE  moneyAdd(Zar(a), Zar(b)) = Zar(DecAdd(a, b))
      OBVIOUS
    <2>1. Zar(a) # Failure /\ Zar(b) # Failure BY FailureAssumption
    <2>2. QED BY <2>1 DEF moneyAdd
  <1>6. g[0] = Zar(Dec(0, 0)) /\ g[1] = moneyAdd(g[0], Line(1)) /\ g[2] = moneyAdd(g[1], Line(2))
    <2> HIDE DEF Zar
    <2>1. 0 \in 0..2 /\ 1 \in 0..2 /\ 2 \in 0..2 /\ 1 - 1 = 0 /\ 2 - 1 = 1 OBVIOUS
    <2>2. QED BY <1>4, <2>1
  <1> DEFINE w == p * q
  <1>7. w \in Int OBVIOUS
  <1> HIDE DEF w
  <1>8. /\ Dec(0, 0) \in [n : Int, k : Nat] /\ Dec(w, 2) \in [n : Int, k : Nat]
        /\ Dec(3, 2) \in [n : Int, k : Nat]
        /\ DecAdd(Dec(0, 0), Dec(w, 2)) = Dec(w, 2)
        /\ DecAdd(Dec(w, 2), Dec(3, 2)) = Dec(w + 3, 2)
    BY <1>7, PowersOfTen DEF DecAdd, Dec
  <1>9. Line(1) = Zar(Dec(w, 2)) BY <1>2 DEF w
  <1>10. g[1] = Zar(Dec(w, 2)) BY <1>5, <1>6, <1>8, <1>9
  <1>11. g[2] = Zar(Dec(w + 3, 2)) BY <1>3, <1>5, <1>6, <1>8, <1>10
  <1>12. QED BY <1>11 DEF w

\* t holds the subtotal of s hundredths, with the tax of w millionths.
TotalsOf(t, s, w) ==
    /\ t.subtotal.amount = Dec(s, 2)
    /\ t.taxTotal.amount = Dec(w, 6)
    /\ t.grandTotal.amount = Dec(s * 10000 + w, 6)

\* Whatever the total is calculated with has a rate.
LEMMA RateOfInput ==
    ASSUME NEW p, NEW q, NEW taxRate \in Maybe(TaxRates), NEW destination \in Maybe(Destinations)
    PROVE  taxRateBP(Input(p, q, taxRate, destination)) \in Int
  <1> DEFINE input == Input(p, q, taxRate, destination)
  <1>1. input.taxRate = taxRate /\ input.destination = destination BY DEF Input
  <1> HIDE DEF input
  <1>2. \A x \in TaxRates : Units(x, 4, "round") \in Int
    <2>1. /\ Units(Dec(0, 0), 4, "round") \in Int /\ Units(Dec(15, 2), 4, "round") \in Int
          /\ Units(Dec(-1, 0), 4, "round") \in Int
      BY PowersOfTen DEF Units, Dec
    <2>2. Units(Dec(77777, 6), 4, "round") = Quot(77777, 100, "round")
      BY PowersOfTen DEF Units, Dec
    <2>3. Quot(77777, 100, "round") \in Int BY DEF Quot
    <2>4. QED BY <2>1, <2>2, <2>3 DEF TaxRates
  <1>3. \A d \in Destinations : resolveRateBP(d) \in Int
    <2> SUFFICES ASSUME NEW d \in Destinations PROVE resolveRateBP(d) \in Int OBVIOUS
    <2>1. d.vatId \in {"none", "empty", "some"} BY DEF Destinations
    <2>2. QED BY <2>1, RatesAgree
  <1>4. CASE taxRate # <<>>
    <2>1. PICK x \in TaxRates : taxRate = <<x>> BY <1>4 DEF Maybe
    <2>2. taxRateBP(input) = Units(x, 4, "round") BY <1>1, <1>4, <2>1 DEF taxRateBP
    <2>3. QED BY <1>2, <2>2 DEF input
  <1>5. CASE taxRate = <<>> /\ destination # <<>>
    <2>1. PICK d \in Destinations : destination = <<d>> BY <1>5 DEF Maybe
    <2>2. taxRateBP(input) = resolveRateBP(d) BY <1>1, <1>5, <2>1 DEF taxRateBP
    <2>3. QED BY <1>3, <2>2 DEF input
  <1>6. CASE taxRate = <<>> /\ destination = <<>>
    BY <1>1, <1>6 DEF taxRateBP, input
  <1>7. QED BY <1>4, <1>5, <1>6

\* What calculateTotal returns for two items and a rate.
LEMMA TotalOfItems ==
    ASSUME NEW p \in Int, NEW q \in Int, NEW input, input.items = Items(p, q),
           NEW bp \in Int, bp = taxRateBP(input)
    PROVE  TotalsOf(calculateTotal(input), Sum(p, q), Sum(p, q) * bp)
  <1> DEFINE Zar(a) == [amount |-> a, currency |-> "ZAR"]
             items == Items(p, q)
             s == p * q + 3
             w == s * bp
             h == CHOOSE g : IsSubtotal(g, items)
  <1>1. Len(items) = 2 /\ items # <<>> BY DEF Items
  <1>2. \E g : IsSubtotal(g, items)
    <2> DEFINE Line(i) == moneyMultiply(items[i].price, Dec(items[i].quantity, 0))
               z == [amount |-> Dec(0, 0), currency |-> items[1].price.currency]
               g == [i \in 0..2 |-> IF i = 0 THEN z
                                    ELSE IF i = 1 THEN moneyAdd(z, Line(1))
                                    ELSE moneyAdd(moneyAdd(z, Line(1)), Line(2))]
    <2> HIDE DEF Line, z, items
    <2>1. \A i \in 0..2 : g[i] = IF i = 0 THEN z ELSE moneyAdd(g[i - 1], Line(i))
      <3>1. g[0] = z /\ g[1] = moneyAdd(z, Line(1)) /\ g[2] = moneyAdd(moneyAdd(z, Line(1)), Line(2))
        OBVIOUS
      <3>2. \A i \in 0..2 : i = 0 \/ (i = 1 /\ i - 1 = 0) \/ (i = 2 /\ i - 1 = 1) OBVIOUS
      <3> HIDE DEF g
      <3>3. QED BY <3>1, <3>2
    <2>2. g = [i \in 0..2 |-> IF i = 0 THEN z ELSE moneyAdd(g[i - 1], Line(i))] BY <2>1
    <2>3. IsSubtotal(g, items)
      <3> HIDE DEF g
      <3>1. QED BY <1>1, <2>2, Zenon DEF IsSubtotal, z, Line
    <2>4. QED BY <2>3
  <1>3. h[2] = Zar(Dec(s, 2))
    <2>1. IsSubtotal(h, items) BY <1>2
    <2> HIDE DEF h
    <2>2. QED BY <2>1, SubtotalOfItems
  <1>4. calculateTotal(input) =
          LET subtotal == h[Len(items)]
              tax == moneyMultiply(subtotal, Dec(bp, 4))
          IN  IF subtotal = Failure THEN Failure
              ELSE [subtotal |-> subtotal, taxTotal |-> tax, grandTotal |-> moneyAdd(subtotal, tax)]
    <2> HIDE DEF items
    <2>1. input.items = items BY DEF items
    <2>2. QED BY <1>1, <2>1, Zenon DEF calculateTotal, IsSubtotal
  <1>5. bp \in Int /\ s \in Int OBVIOUS
  <1> HIDE DEF h, items, s
  <1>6. w \in Int BY <1>5
  <1>7. DecMul(Dec(s, 2), Dec(bp, 4)) = Dec(w, 6) BY DEF DecMul, Dec
  <1> HIDE DEF w
  <1>8. moneyMultiply(Zar(Dec(s, 2)), Dec(bp, 4)) = Zar(Dec(w, 6)) BY <1>7 DEF moneyMultiply
  <1>9. DecAdd(Dec(s, 2), Dec(w, 6)) = Dec(s * 10000 + w, 6)
    BY <1>5, <1>6, PowersOfTen DEF DecAdd, Dec
  <1>10. Zar(Dec(s, 2)) # Failure /\ Zar(Dec(w, 6)) # Failure
    <2>1. Dec(s, 2) \in [n : Int, k : Nat] /\ Dec(w, 6) \in [n : Int, k : Nat]
      BY <1>5, <1>6 DEF Dec
    <2>2. QED BY <2>1, FailureAssumption
  <1>11. moneyAdd(Zar(Dec(s, 2)), Zar(Dec(w, 6))) = Zar(Dec(s * 10000 + w, 6))
    BY <1>9, <1>10 DEF moneyAdd
  <1>12. calculateTotal(input) =
           [ subtotal |-> Zar(Dec(s, 2)), taxTotal |-> Zar(Dec(w, 6)),
             grandTotal |-> Zar(Dec(s * 10000 + w, 6)) ]
    BY <1>1, <1>3, <1>4, <1>8, <1>10, <1>11
  <1>13. TotalsOf(calculateTotal(input), s, w) BY <1>12 DEF TotalsOf
  <1>14. QED BY <1>13 DEF s, w, Sum

Decimals == [n : Int, k : Nat]
Entries ==
    {"tenant-isolation", "permission-scope", "vat", "fraud-signal"}
      \X {"PASSED", "FAILED", "charged", "reverse-charge", "REVIEW"}
Pipelines ==
    [amount : Decimals, tax : Decimals, applied : Seq(Entries), passed : BOOLEAN]

\* x is the pipeline s with the line that one more rule has left.
Extends(x, s, line) ==
    /\ x \in Pipelines /\ (x.passed <=> s.passed)
    /\ x.amount = s.amount /\ x.tax = s.tax
    /\ Len(x.applied) = Len(s.applied) + 1
    /\ x.applied[Len(x.applied)] = line

\* x is the pipeline s after a check that failed.
Fails(x, s) ==
    /\ x \in Pipelines /\ ~x.passed
    /\ x.amount = s.amount /\ x.tax = s.tax /\ x.applied = s.applied

\* A rule leaves a line behind those of the rules before it.
LEMMA RuleApplies ==
    ASSUME NEW s \in Pipelines, NEW rule, NEW outcome, <<rule, outcome>> \in Entries
    PROVE  Extends(Apply(s, rule, outcome), s, <<rule, outcome>>)
  <1> DEFINE line == <<rule, outcome>>
             more == Append(s.applied, line)
             x == Apply(s, rule, outcome)
  <1>1. s.applied \in Seq(Entries) BY DEF Pipelines
  <1>2. x = [s EXCEPT !.applied = more] BY DEF Apply
  <1> HIDE DEF line
  <1>3. /\ more \in Seq(Entries) /\ Len(more) = Len(s.applied) + 1
        /\ more[Len(more)] = line
    BY <1>1 DEF line
  <1> HIDE DEF more, x
  <1>4. x \in Pipelines /\ x.applied = more BY <1>2, <1>3 DEF Pipelines
  <1>5. x.amount = s.amount /\ x.tax = s.tax /\ (x.passed <=> s.passed)
    BY <1>2 DEF Pipelines
  <1>6. Extends(x, s, line) BY <1>3, <1>4, <1>5 DEF Extends
  <1>7. QED BY <1>6 DEF x, line

LEMMA RuleFails ==
    ASSUME NEW s \in Pipelines
    PROVE  Fails([s EXCEPT !.passed = FALSE], s)
  BY DEF Pipelines, Fails

Identified(ctx) == ctx.tenant_id # ""
Allowed(ctx) == ctx.user_role \in ALLOWED_ROLES
Admitted(ctx) == Identified(ctx) /\ Allowed(ctx)

\* Both of the checks are run, and the pipeline passes if they do.
LEMMA ChecksRun ==
    ASSUME NEW ctx, NEW amount \in Decimals
    PROVE  LET x == PermissionScopeRule(ctx, TenantIsolationRule(ctx, NewPipeline(amount)))
           IN  /\ x \in Pipelines
               /\ x.amount = amount /\ x.tax = Dec(0, 0) /\ Len(x.applied) = 2
               /\ (x.passed <=> Admitted(ctx))
  <1> DEFINE s == NewPipeline(amount)
             t == TenantIsolationRule(ctx, s)
             p == PermissionScopeRule(ctx, t)
  <1>1. /\ s \in Pipelines /\ s.passed
        /\ s.amount = amount /\ s.tax = Dec(0, 0) /\ Len(s.applied) = 0
    BY DEF NewPipeline, Pipelines, Decimals, Dec
  <1> HIDE DEF s
  <1>2. /\ t \in Pipelines /\ (t.passed <=> Identified(ctx))
        /\ t.amount = amount /\ t.tax = Dec(0, 0) /\ Len(t.applied) = 1
    <2>1. CASE ~Identified(ctx)
      <3> DEFINE f == Apply(s, "tenant-isolation", "FAILED")
      <3>1. <<"tenant-isolation", "FAILED">> \in Entries BY DEF Entries
      <3>2. Extends(f, s, <<"tenant-isolation", "FAILED">>) BY <1>1, <3>1, RuleApplies
      <3>3. t = [f EXCEPT !.passed = FALSE] BY <2>1, Zenon DEF TenantIsolationRule, Identified
      <3> HIDE DEF f
      <3>4. f \in Pipelines BY <3>2 DEF Extends
      <3>5. Fails([f EXCEPT !.passed = FALSE], f) BY <3>4, RuleFails
      <3>6. Fails(t, f) BY <3>3, <3>5
      <3> HIDE DEF t
      <3>7. t.passed <=> Identified(ctx) BY <2>1, <3>6, Zenon DEF Fails
      <3>8. /\ t \in Pipelines /\ t.amount = f.amount /\ t.tax = f.tax
            /\ t.applied = f.applied
        BY <3>6, Zenon DEF Fails
      <3>9. /\ f.amount = s.amount /\ f.tax = s.tax
            /\ Len(f.applied) = Len(s.applied) + 1
        BY <3>2, Zenon DEF Extends
      <3>10. QED BY <1>1, <3>7, <3>8, <3>9
    <2>2. CASE Identified(ctx)
      <3>1. <<"tenant-isolation", "PASSED">> \in Entries BY DEF Entries
      <3>2. t = Apply(s, "tenant-isolation", "PASSED") BY <2>2, Zenon DEF TenantIsolationRule, Identified
      <3> HIDE DEF t
      <3>3. Extends(t, s, <<"tenant-isolation", "PASSED">>) BY <1>1, <3>1, <3>2, RuleApplies
      <3>4. t.passed <=> Identified(ctx) BY <1>1, <2>2, <3>3, Zenon DEF Extends
      <3>5. /\ t \in Pipelines /\ t.amount = s.amount /\ t.tax = s.tax
            /\ Len(t.applied) = Len(s.applied) + 1
        BY <3>3, Zenon DEF Extends
      <3>6. QED BY <1>1, <3>4, <3>5
    <2>3. QED BY <2>1, <2>2
  <1> HIDE DEF t
  <1>3. /\ p \in Pipelines
        /\ (p.passed <=> (t.passed /\ Allowed(ctx)))
        /\ p.amount = amount /\ p.tax = Dec(0, 0) /\ Len(p.applied) = 2
    <2>1. CASE ~Allowed(ctx)
      <3> DEFINE f == Apply(t, "permission-scope", "FAILED")
      <3>1. <<"permission-scope", "FAILED">> \in Entries BY DEF Entries
      <3>2. Extends(f, t, <<"permission-scope", "FAILED">>) BY <1>2, <3>1, RuleApplies
      <3>3. p = [f EXCEPT !.passed = FALSE] BY <2>1, Zenon DEF PermissionScopeRule, Allowed
      <3> HIDE DEF f
      <3>4. f \in Pipelines BY <3>2 DEF Extends
      <3>5. Fails([f EXCEPT !.passed = FALSE], f) BY <3>4, RuleFails
      <3>6. Fails(p, f) BY <3>3, <3>5
      <3> HIDE DEF p
      <3>7. p.passed <=> (t.passed /\ Allowed(ctx))
        BY <2>1, <3>6, Zenon DEF Fails
      <3>8. /\ p \in Pipelines /\ p.amount = f.amount /\ p.tax = f.tax
            /\ p.applied = f.applied
        BY <3>6, Zenon DEF Fails
      <3>9. /\ f.amount = t.amount /\ f.tax = t.tax
            /\ Len(f.applied) = Len(t.applied) + 1
        BY <3>2, Zenon DEF Extends
      <3>10. QED BY <1>2, <3>7, <3>8, <3>9
    <2>2. CASE Allowed(ctx)
      <3>1. <<"permission-scope", "PASSED">> \in Entries BY DEF Entries
      <3>2. p = Apply(t, "permission-scope", "PASSED") BY <2>2, Zenon DEF PermissionScopeRule, Allowed
      <3> HIDE DEF p
      <3>3. Extends(p, t, <<"permission-scope", "PASSED">>) BY <1>2, <3>1, <3>2, RuleApplies
      <3>4. p.passed <=> (t.passed /\ Allowed(ctx))
        BY <2>2, <3>3, Zenon DEF Extends
      <3>5. /\ p \in Pipelines /\ p.amount = t.amount /\ p.tax = t.tax
            /\ Len(p.applied) = Len(t.applied) + 1
        BY <3>3, Zenon DEF Extends
      <3>6. QED BY <1>2, <3>4, <3>5
    <2>3. QED BY <2>1, <2>2
  <1> HIDE DEF p
  <1>4. QED BY <1>2, <1>3 DEF p, t, s, Admitted

\* The tax that the pipeline adds to n / 10^k, in hundredths.
Rounded(n, k, bp) == Units(DecMul(Dec(n, k), Dec(bp, 4)), 2, "even")

LEMMA RoundedIsInt ==
    \A n, bp \in Int, k \in {0, 2} : Rounded(n, k, bp) \in Int
  <1> SUFFICES ASSUME NEW n \in Int, NEW bp \in Int, NEW k \in {0, 2}
               PROVE  Rounded(n, k, bp) \in Int
    OBVIOUS
  <1> DEFINE w == n * bp
  <1>1. w \in Int OBVIOUS
  <1>2. DecMul(Dec(n, k), Dec(bp, 4)) = Dec(w, k + 4) BY DEF DecMul, Dec
  <1> HIDE DEF w
  <1>3. Quot(w, 100, "even") \in Int /\ Quot(w, 10000, "even") \in Int BY <1>1 DEF Quot
  <1>4. /\ Units(Dec(w, 4), 2, "even") = Quot(w, 100, "even")
        /\ Units(Dec(w, 6), 2, "even") = Quot(w, 10000, "even")
    BY <1>1, PowersOfTen DEF Units, Dec
  <1>5. QED BY <1>2, <1>3, <1>4 DEF Rounded

\* For an amount in hundredths it is a quotient.
LEMMA RoundedTax ==
    \A n, bp \in Int : Rounded(n, 2, bp) = Quot(n * bp, 10000, "even")
  <1> SUFFICES ASSUME NEW n \in Int, NEW bp \in Int
               PROVE  Rounded(n, 2, bp) = Quot(n * bp, 10000, "even")
    OBVIOUS
  <1> DEFINE w == n * bp
  <1>1. w \in Int OBVIOUS
  <1>2. DecMul(Dec(n, 2), Dec(bp, 4)) = Dec(w, 6) BY DEF DecMul, Dec
  <1> HIDE DEF w
  <1>3. Units(Dec(w, 6), 2, "even") = Quot(w, 10000, "even")
    BY <1>1, PowersOfTen DEF Units, Dec
  <1>4. QED BY <1>2, <1>3 DEF Rounded, w

\* What the pipeline has become when its last rule has run: it has checked ctx, and has
\* charged bp basis points on n / 10^k, with the outcome e.
Ran(e, ctx, n, k, bp) ==
    LET charged == bp # Failure /\ bp # 0
        add == Dec(Rounded(n, k, bp), 2)
    IN  /\ (e.passed <=> Admitted(ctx))
        /\ Len(e.applied) = IF bp = Failure THEN 3 ELSE 4
        /\ e.amount = IF charged THEN DecAdd(Dec(n, k), add) ELSE Dec(n, k)
        /\ e.tax = IF charged THEN DecAdd(Dec(0, 0), add) ELSE Dec(0, 0)
        /\ (e.applied[Len(e.applied)] = <<"fraud-signal", "REVIEW">>
              <=> Units(e.amount, 4, "floor") >= Units(FRAUD_REVIEW_THRESHOLD, 4, "floor"))

LEMMA PipelineRuns ==
    ASSUME NEW ctx, NEW n \in Int, NEW k \in {0, 2}, ctx.amount = Dec(n, k),
           NEW bp, bp = vat_basis_points(ctx.destination),
           bp \in Int \cup {Failure}
    PROVE  Ran(evaluate(ctx), ctx, n, k, bp)
  <1> DEFINE amount == Dec(n, k)
             zero == Dec(0, 0)
             add == Dec(Rounded(n, k, bp), 2)
             charged == bp # Failure /\ bp # 0
             c == PermissionScopeRule(ctx, TenantIsolationRule(ctx, NewPipeline(amount)))
             v == VatRule(ctx, c)
             e == evaluate(ctx)
  <1>1. amount \in Decimals /\ zero \in Decimals BY DEF Decimals, Dec
  <1>2. charged => /\ DecAdd(amount, add) \in Decimals
                   /\ DecAdd(zero, add) \in Decimals
    <2> SUFFICES ASSUME charged
                 PROVE  DecAdd(amount, add) \in Decimals /\ DecAdd(zero, add) \in Decimals
      OBVIOUS
    <2> DEFINE y == Rounded(n, k, bp)
    <2>1. bp \in Int OBVIOUS
    <2> HIDE DEF charged, y, amount, add, zero, c, v, e
    <2>2. Rounded(n, k, bp) \in Int BY <2>1, RoundedIsInt
    <2>3. /\ DecAdd(Dec(n, 0), Dec(y, 2)) \in Decimals
          /\ DecAdd(Dec(n, 2), Dec(y, 2)) \in Decimals
          /\ DecAdd(Dec(0, 0), Dec(y, 2)) \in Decimals
      BY <2>2, PowersOfTen DEF DecAdd, Dec, Decimals, y
    <2>4. k = 0 \/ k = 2 OBVIOUS
    <2>5. QED BY <2>3, <2>4 DEF y, amount, add, zero
  <1>3. /\ c \in Pipelines
        /\ c.amount = amount /\ c.tax = zero /\ Len(c.applied) = 2
        /\ (c.passed <=> Admitted(ctx))
    <2> HIDE DEF amount
    <2>1. QED BY <1>1, ChecksRun
  <1>4. e = FraudSignalRule(v)
    <2>1. ctx.amount # Failure BY <1>1, FailureAssumption DEF Decimals
    <2>2. QED BY <2>1, Zenon DEF evaluate
  <1>5. v = IF bp = Failure THEN c
            ELSE IF bp = 0 THEN Apply(c, "vat", "reverse-charge")
            ELSE Apply([c EXCEPT !.tax = DecAdd(@, add), !.amount = DecAdd(@, add)],
                       "vat", "charged")
    <2> HIDE DEF c
    <2>1. add = Dec(Units(DecMul(c.amount, Dec(bp, 4)), 2, "even"), 2) BY <1>3 DEF Rounded
    <2> HIDE DEF add
    <2>2. QED BY <2>1, Zenon DEF VatRule
  <1> HIDE DEF amount, zero, add, charged, c, v, e
  <1>6. /\ v \in Pipelines /\ (v.passed <=> c.passed)
        /\ Len(v.applied) = IF bp = Failure THEN 2 ELSE 3
        /\ v.amount = IF charged THEN DecAdd(amount, add) ELSE amount
        /\ v.tax = IF charged THEN DecAdd(zero, add) ELSE zero
    <2>1. CASE bp = Failure
      <3>1. v = c /\ ~charged BY <1>5, <2>1 DEF charged
      <3>2. QED BY <1>3, <2>1, <3>1
    <2>2. CASE bp # Failure /\ bp = 0
      <3>1. <<"vat", "reverse-charge">> \in Entries BY DEF Entries
      <3>2. v = Apply(c, "vat", "reverse-charge") /\ ~charged BY <1>5, <2>2 DEF charged
      <3>3. Extends(v, c, <<"vat", "reverse-charge">>) BY <1>3, <3>1, <3>2, RuleApplies
      <3>4. /\ v \in Pipelines /\ (v.passed <=> c.passed)
            /\ v.amount = c.amount /\ v.tax = c.tax
            /\ Len(v.applied) = Len(c.applied) + 1
        BY <3>3, Zenon DEF Extends
      <3>5. v.passed <=> c.passed BY <3>4, Zenon
      <3>6. Len(v.applied) = 3 /\ v.amount = amount /\ v.tax = zero BY <1>3, <3>4
      <3>7. v \in Pipelines BY <3>4, Zenon
      <3>8. QED BY <2>2, <3>2, <3>5, <3>6, <3>7
    <2>3. CASE charged
      <3> DEFINE da == DecAdd(amount, add)
                 dz == DecAdd(zero, add)
                 g == [c EXCEPT !.tax = dz, !.amount = da]
      <3>1. da \in Decimals /\ dz \in Decimals BY <1>2, <2>3
      <3>2. [c EXCEPT !.tax = DecAdd(@, add), !.amount = DecAdd(@, add)] = g
        BY <1>3 DEF Pipelines
      <3>3. v = Apply(g, "vat", "charged") BY <1>5, <2>3, <3>2 DEF charged
      <3> HIDE DEF da, dz
      <3>4. /\ g \in Pipelines /\ (g.passed <=> c.passed) /\ g.applied = c.applied
            /\ g.amount = da /\ g.tax = dz
        BY <1>3, <3>1 DEF Pipelines
      <3> HIDE DEF g
      <3>5. <<"vat", "charged">> \in Entries BY DEF Entries
      <3>6. Extends(v, g, <<"vat", "charged">>) BY <3>3, <3>4, <3>5, RuleApplies
      <3>7. bp # Failure BY <2>3 DEF charged
      <3>8. /\ v \in Pipelines /\ (v.passed <=> g.passed)
            /\ v.amount = g.amount /\ v.tax = g.tax
            /\ Len(v.applied) = Len(g.applied) + 1
        BY <3>6, Zenon DEF Extends
      <3>9. v.passed <=> c.passed BY <3>4, <3>8, Zenon
      <3>10. Len(v.applied) = 3 /\ v.amount = da /\ v.tax = dz BY <1>3, <3>4, <3>8
      <3>11. v \in Pipelines BY <3>8, Zenon
      <3>12. QED BY <2>3, <3>7, <3>9, <3>10, <3>11 DEF da, dz
    <2>4. QED BY <2>1, <2>2, <2>3 DEF charged
  <1> DEFINE high == Units(v.amount, 4, "floor") >= Units(FRAUD_REVIEW_THRESHOLD, 4, "floor")
             word == IF high THEN "REVIEW" ELSE "PASSED"
             line == <<"fraud-signal", word>>
  <1>7. e = Apply(v, "fraud-signal", word) BY <1>4 DEF FraudSignalRule
  <1> HIDE DEF high
  <1>8. line \in Entries BY DEF Entries
  <1>9. line = <<"fraud-signal", "REVIEW">> <=> high OBVIOUS
  <1> HIDE DEF word
  <1>10. Extends(Apply(v, "fraud-signal", word), v, line) BY <1>6, <1>8, RuleApplies
  <1> HIDE DEF line
  <1>11. Extends(e, v, line) BY <1>7, <1>10
  <1>12. Len(e.applied) = IF bp = Failure THEN 3 ELSE 4 BY <1>6, <1>11 DEF Extends
  <1>13. e.passed <=> Admitted(ctx)
    BY <1>3, <1>6, <1>11 DEF Extends
  <1>14. /\ e.amount = IF charged THEN DecAdd(amount, add) ELSE amount
         /\ e.tax = IF charged THEN DecAdd(zero, add) ELSE zero
    BY <1>6, <1>11 DEF Extends
  <1>15. (e.applied[Len(e.applied)] = <<"fraud-signal", "REVIEW">>)
           <=> Units(e.amount, 4, "floor") >= Units(FRAUD_REVIEW_THRESHOLD, 4, "floor")
    BY <1>9, <1>11 DEF high, Extends
  <1>16. QED BY <1>12, <1>13, <1>14, <1>15 DEF Ran, amount, zero, add, charged, e

\* The rounded tax on an amount and the amount make the rounded total, but for a tie.
OffByATie(s, w) ==
    LET y == Quot(w, 10000, "even")
        total == Quot(s * 10000 + w, 10000, "even")
    IN  /\ y \in Int /\ total \in Int
        /\ w = 0 => total = s
        /\ Abs(total - (s + y)) <= IF Tie(w) THEN 1 ELSE 0

LEMMA TaxOnSum ==
    ASSUME NEW s \in Int, NEW w \in Int
    PROVE  OffByATie(s, w)
  <1> DEFINE v == s * 10000 + w
             q == w \div 10000
             r == w % 10000
  <1>1. v \in Int /\ q \in Int /\ r \in 0..9999 /\ (w = 0 => q = 0 /\ r = 0) OBVIOUS
  <1>2. v \div 10000 = s + q /\ v % 10000 = r
    <2>1. w = 10000 * q + r BY <1>1
    <2> HIDE DEF q, r
    <2>2. v = 10000 * (s + q) + r BY <1>1, <2>1
    <2>3. QED BY <1>1, <2>2
  <1>3. Quot(w, 10000, "even") = IF 2 * r > 10000 \/ (2 * r = 10000 /\ q % 2 = 1)
                                 THEN q + 1 ELSE q
    BY DEF Quot
  <1> HIDE DEF v
  <1>4. Quot(v, 10000, "even") = IF 2 * r > 10000 \/ (2 * r = 10000 /\ (s + q) % 2 = 1)
                                 THEN s + q + 1 ELSE s + q
    BY <1>1, <1>2 DEF Quot
  <1> HIDE DEF q, r
  <1> DEFINE x == Quot(w, 10000, "even")
             z == Quot(v, 10000, "even")
  <1> HIDE DEF x, z
  <1>5. x \in Int /\ z \in Int BY <1>1, <1>3, <1>4 DEF x, z
  <1>6. z - (s + x) \in {-1, 0, 1} /\ (r # 5000 => z - (s + x) = 0)
    BY <1>1, <1>3, <1>4 DEF x, z
  <1>7. w = 0 => z = s BY <1>1, <1>4 DEF z
  <1>8. Abs(z - (s + x)) <= IF r = 5000 THEN 1 ELSE 0 BY <1>5, <1>6 DEF Abs
  <1>9. QED BY <1>5, <1>7, <1>8 DEF OffByATie, Tie, x, z, v, r

\* Sums of amounts in units or in hundredths.
LEMMA SumsOfTwo ==
    \A n, y \in Int :
        /\ DecAdd(Dec(n, 2), Dec(y, 2)) = Dec(n + y, 2)
        /\ DecAdd(Dec(n, 0), Dec(y, 2)) = Dec(n * 100 + y, 2)
        /\ DecAdd(Dec(0, 0), Dec(y, 2)) = Dec(y, 2)
        /\ DecAdd(Dec(n, 2), Dec(0, 0)) = Dec(n, 2)
        /\ DecAdd(Dec(n, 0), Dec(0, 0)) = Dec(n, 0)
  BY PowersOfTen DEF DecAdd, Dec

LEMMA RandInHundredths ==
    \A n \in Int : /\ toMinorUnits(Dec(n, 2), "ZAR") = n
                   /\ toMinorUnits(Dec(n, 6), "ZAR") = Quot(n, 10000, "even")
  <1>1. getCurrencyDecimals("ZAR") = 2
    BY DEF getCurrencyDecimals, ZeroDecimal, ThreeDecimal
  <1>2. SUFFICES ASSUME NEW n \in Int
                 PROVE  /\ toMinorUnits(Dec(n, 2), "ZAR") = n
                        /\ toMinorUnits(Dec(n, 6), "ZAR") = Quot(n, 10000, "even")
    OBVIOUS
  <1>3. Units(Dec(n, 2), 2, "even") = n BY PowersOfTen DEF Units, Dec
  <1>4. Units(Dec(n, 6), 2, "even") = Quot(n, 10000, "even") BY PowersOfTen DEF Units, Dec
  <1>5. QED BY <1>1, <1>3, <1>4 DEF toMinorUnits

\* What a customer reads of a total: the subtotal, and a grand total that is the sum of what
\* he reads but for a tie.
Readable(t, s, w) ==
    LET y == Quot(w, 10000, "even")
        total == Quot(s * 10000 + w, 10000, "even")
    IN  /\ RandInCents(t.subtotal.amount) = s
        /\ RandInCents(t.taxTotal.amount) = y
        /\ RandInCents(t.grandTotal.amount) = total
        /\ y \in Int /\ total \in Int /\ (w = 0 => total = s)
        /\ Abs(total - (s + y)) <= IF Tie(w) THEN 1 ELSE 0

LEMMA TotalIsRead ==
    ASSUME NEW t, NEW s \in Int, NEW w \in Int, TotalsOf(t, s, w)
    PROVE  Readable(t, s, w)
  <1>1. OffByATie(s, w) BY TaxOnSum
  <1>2. s * 10000 + w \in Int OBVIOUS
  <1>3. /\ RandInCents(Dec(s, 2)) = s
        /\ RandInCents(Dec(w, 6)) = Quot(w, 10000, "even")
        /\ RandInCents(Dec(s * 10000 + w, 6)) = Quot(s * 10000 + w, 10000, "even")
    BY <1>2, RandInHundredths DEF RandInCents
  <1>4. QED BY <1>1, <1>3 DEF TotalsOf, OffByATie, Readable

LEMMA TotalsAreReadable == TotalsAddUp
  <1> SUFFICES ASSUME NEW price \in Prices, NEW quantity \in 1..2,
                      NEW taxRate \in Maybe(TaxRates), NEW destination \in Maybe(Destinations)
               PROVE  LET input == Input(price, quantity, taxRate, destination)
                          t == calculateTotal(input)
                          off == IF Tie(Sum(price, quantity) * taxRateBP(input)) THEN 1 ELSE 0
                      IN  /\ RandInCents(t.subtotal.amount) = Sum(price, quantity)
                          /\ Abs(RandInCents(t.grandTotal.amount) - RandInCents(t.subtotal.amount)
                                   - RandInCents(t.taxTotal.amount)) <= off
    BY Zenon DEF TotalsAddUp
  <1> DEFINE input == Input(price, quantity, taxRate, destination)
             t == calculateTotal(input)
             s == Sum(price, quantity)
             bp == taxRateBP(input)
             w == s * bp
  <1>1. price \in Int /\ quantity \in Int /\ s \in Int BY NativeAssumption DEF Sum
  <1>2. bp \in Int BY RateOfInput
  <1>3. input.items = Items(price, quantity) BY DEF Input
  <1> HIDE DEF input
  <1>4. TotalsOf(t, s, w) BY <1>1, <1>2, <1>3, TotalOfItems
  <1> HIDE DEF t, s, bp
  <1>5. w \in Int BY <1>1, <1>2
  <1> HIDE DEF w
  <1>6. Readable(t, s, w) BY <1>1, <1>4, <1>5, TotalIsRead
  <1> DEFINE y == Quot(w, 10000, "even")
             total == Quot(s * 10000 + w, 10000, "even")
             off == IF Tie(w) THEN 1 ELSE 0
  <1>7. /\ RandInCents(t.subtotal.amount) = s /\ RandInCents(t.taxTotal.amount) = y
        /\ RandInCents(t.grandTotal.amount) = total
        /\ y \in Int /\ total \in Int /\ Abs(total - (s + y)) <= off
    BY <1>6 DEF Readable
  <1> HIDE DEF y, total, off
  <1>8. total - s - y = total - (s + y) BY <1>1, <1>7
  <1>9. Abs(RandInCents(t.grandTotal.amount) - RandInCents(t.subtotal.amount)
              - RandInCents(t.taxTotal.amount)) <= off
    BY <1>7, <1>8
  <1>10. QED BY <1>7, <1>9 DEF off, w, t, s, bp, input

\* The engine's amount for a sum of s hundredths at bp basis points, in hundredths.
LEMMA EngineTotal ==
    ASSUME NEW e, NEW ctx, NEW s \in Int, NEW bp \in Int \cup {Failure},
           Ran(e, ctx, s, 2, bp)
    PROVE  /\ bp \in {0, Failure} => RandInCents(e.amount) = s
           /\ bp \notin {0, Failure} =>
                RandInCents(e.amount) = s + Quot(s * bp, 10000, "even")
  <1>1. ASSUME bp \in {0, Failure} PROVE RandInCents(e.amount) = s
    <2>1. e.amount = Dec(s, 2) BY <1>1 DEF Ran
    <2>2. QED BY <2>1, RandInHundredths DEF RandInCents
  <1>2. ASSUME bp \notin {0, Failure}
        PROVE  RandInCents(e.amount) = s + Quot(s * bp, 10000, "even")
    <2> DEFINE w == s * bp
               y == Quot(w, 10000, "even")
    <2>1. bp \in Int /\ w \in Int BY <1>2
    <2>2. Rounded(s, 2, bp) = y BY <2>1, RoundedTax
    <2> HIDE DEF w
    <2>3. y \in Int BY <2>1 DEF Quot
    <2> HIDE DEF y
    <2>4. e.amount = DecAdd(Dec(s, 2), Dec(y, 2)) BY <1>2, <2>2 DEF Ran
    <2>5. e.amount = Dec(s + y, 2) BY <2>3, <2>4, SumsOfTwo
    <2>6. s + y \in Int BY <2>3
    <2>7. RandInCents(e.amount) = s + y BY <2>5, <2>6, RandInHundredths DEF RandInCents
    <2>8. QED BY <2>7 DEF y, w
  <1>3. QED BY <1>1, <1>2

LEMMA TotalsMatch == TotalsAgree
  <1> SUFFICES ASSUME NEW price \in Prices, NEW quantity \in 1..2, NEW d \in Destinations
               PROVE  LET t == calculateTotal(Input(price, quantity, <<>>, <<d>>))
                          sum == Sum(price, quantity)
                          e == evaluate([tenant_id |-> "acme", user_role |-> "owner",
                                         destination |-> d, amount |-> Dec(sum, 2)])
                          off == IF Tie(sum * resolveRateBP(d)) THEN 1 ELSE 0
                      IN  IF OnlyMoneyTaxes(d) THEN RandInCents(e.amount) = sum
                          ELSE Abs(RandInCents(t.grandTotal.amount) - RandInCents(e.amount)) <= off
    BY Zenon DEF TotalsAgree
  <1> DEFINE input == Input(price, quantity, <<>>, <<d>>)
             t == calculateTotal(input)
             s == Sum(price, quantity)
             ctx == [tenant_id |-> "acme", user_role |-> "owner", destination |-> d,
                     amount |-> Dec(s, 2)]
             e == evaluate(ctx)
             bp == vat_basis_points(d)
             rate == resolveRateBP(d)
             w == s * rate
  <1>1. price \in Int /\ quantity \in Int /\ s \in Int BY NativeAssumption DEF Sum
  <1>2. d.vatId \in {"none", "empty", "some"} BY DEF Destinations
  <1>3. /\ rate \in Int /\ bp \in Int \cup {Failure}
        /\ OnlyMoneyTaxes(d) => bp \in {0, Failure}
        /\ ~OnlyMoneyTaxes(d) => rate = IF bp = Failure THEN 0 ELSE bp
    BY <1>2, RatesAgree
  <1>4. input.items = Items(price, quantity) /\ rate = taxRateBP(input)
    BY DEF Input, taxRateBP
  <1>5. ctx.amount = Dec(s, 2) /\ bp = vat_basis_points(ctx.destination) OBVIOUS
  <1> HIDE DEF input, rate, bp, ctx
  <1>6. TotalsOf(t, s, w) BY <1>1, <1>3, <1>4, TotalOfItems
  <1> HIDE DEF t, s
  <1>7. w \in Int BY <1>1, <1>3
  <1>8. Ran(e, ctx, s, 2, bp)
    <2> DEFINE two == 2
    <2>1. two \in {0, 2} OBVIOUS
    <2> HIDE DEF two
    <2>2. ctx.amount = Dec(s, two) BY <1>5 DEF two
    <2>3. Ran(evaluate(ctx), ctx, s, two, bp) BY <1>1, <1>3, <1>5, <2>1, <2>2, PipelineRuns
    <2>4. QED BY <2>3 DEF two
  <1> HIDE DEF e
  <1>9. /\ bp \in {0, Failure} => RandInCents(e.amount) = s
        /\ bp \notin {0, Failure} => RandInCents(e.amount) = s + Quot(s * bp, 10000, "even")
    BY <1>1, <1>3, <1>8, EngineTotal
  <1> DEFINE y == Quot(w, 10000, "even")
             total == Quot(s * 10000 + w, 10000, "even")
             off == IF Tie(w) THEN 1 ELSE 0
             a == RandInCents(e.amount)
             b == RandInCents(t.grandTotal.amount)
  <1>10. ASSUME ~OnlyMoneyTaxes(d)
         PROVE  Abs(b - a) <= off
    <2>1. a = s + y \/ (w = 0 /\ a = s)
      <3>1. CASE bp \in {0, Failure}
        <4>1. rate = 0 BY <1>3, <1>10, <3>1
        <4>2. w = 0 BY <1>1, <4>1
        <4>3. QED BY <1>9, <3>1, <4>2
      <3>2. CASE bp \notin {0, Failure}
        <4>1. rate = bp BY <1>3, <1>10, <3>2
        <4>2. QED BY <1>9, <3>2, <4>1
      <3>3. QED BY <3>1, <3>2
    <2> HIDE DEF w
    <2>2. Readable(t, s, w) BY <1>1, <1>6, <1>7, TotalIsRead
    <2>3. /\ b = total /\ y \in Int /\ total \in Int /\ (w = 0 => total = s)
          /\ Abs(total - (s + y)) <= off
      BY <2>2 DEF Readable
    <2>4. off \in {0, 1} OBVIOUS
    <2> HIDE DEF a, b, y, total, off
    <2>5. QED BY <1>1, <2>1, <2>3, <2>4 DEF Abs
  <1>11. ASSUME OnlyMoneyTaxes(d) PROVE a = s BY <1>3, <1>9, <1>11
  <1>12. QED BY <1>10, <1>11 DEF off, w, rate, a, b, e, t, ctx, s, input

\* What PipelineVerdict says of one run of the pipeline, with the outcome e.
Verdict(e, ctx) ==
    /\ e.passed <=> ctx.tenant_id # "" /\ ctx.user_role \in ALLOWED_ROLES
    /\ Len(e.applied) = IF ctx.destination.country = "US" \/ ~ctx.destination.capitals
                        THEN 3 ELSE 4
    /\ SameValue(e.amount, DecAdd(ctx.amount, e.tax))
    /\ e.applied[Len(e.applied)] = <<"fraud-signal", "REVIEW">>
         <=> Units(e.amount, 2, "even") >= FRAUD_REVIEW_THRESHOLD.n

LEMMA SameAsItself == \A m \in Int, k \in {0, 2} : SameValue(Dec(m, k), Dec(m, k))
  <1>1. \A m \in Int : SameValue(Dec(m, 0), Dec(m, 0))
    BY PowersOfTen DEF SameValue, DecAdd, DecMul, Dec
  <1>2. \A m \in Int : SameValue(Dec(m, 2), Dec(m, 2))
    BY PowersOfTen DEF SameValue, DecAdd, DecMul, Dec
  <1>3. QED BY <1>1, <1>2

\* The threshold is the same in units of 10^-4 and in hundredths.
LEMMA ReviewsAlike ==
    \A m \in Int, k \in {0, 2} :
        Units(Dec(m, k), 4, "floor") >= Units(FRAUD_REVIEW_THRESHOLD, 4, "floor")
          <=> Units(Dec(m, k), 2, "even") >= FRAUD_REVIEW_THRESHOLD.n
  <1> DEFINE threshold == FRAUD_REVIEW_THRESHOLD.n
  <1>1. FRAUD_REVIEW_THRESHOLD = Dec(threshold, 2) /\ threshold \in Int
    BY DEF FRAUD_REVIEW_THRESHOLD, Dec
  <1> HIDE DEF threshold
  <1>2. Units(FRAUD_REVIEW_THRESHOLD, 4, "floor") = threshold * 100
    BY <1>1, PowersOfTen DEF Units, Dec
  <1>3. \A m \in Int : /\ Units(Dec(m, 0), 4, "floor") = m * 10000
                        /\ Units(Dec(m, 0), 2, "even") = m * 100
                        /\ Units(Dec(m, 2), 4, "floor") = m * 100
                        /\ Units(Dec(m, 2), 2, "even") = m
    BY PowersOfTen DEF Units, Dec
  <1>4. QED BY <1>1, <1>2, <1>3 DEF threshold

\* The pipeline charges a rate, or none in a country that has none.
LEMMA RateOfCountry ==
    ASSUME NEW ctx \in Contexts
    PROVE  LET bp == vat_basis_points(ctx.destination)
           IN  /\ bp \in {Failure, 0, 1500, 1900}
               /\ bp = Failure <=> ctx.destination.country = "US" \/ ~ctx.destination.capitals
  <1> DEFINE d == ctx.destination
             bp == vat_basis_points(d)
  <1>1. d.country \in {"ZA", "DE", "US"} /\ d.capitals \in BOOLEAN BY DEF Contexts
  <1> HIDE DEF d
  <1>2. /\ "ZA" \in DOMAIN RateBP /\ "DE" \in DOMAIN RateBP /\ "US" \notin DOMAIN RateBP
        /\ RateBP["ZA"] = 1500 /\ RateBP["DE"] = 1900
        /\ DOMAIN EU_VAT_BP \subseteq DOMAIN RateBP
    BY DEF RateBP, EU_VAT_BP, OTHER_RATES_BP
  <1>3. 0 # Failure /\ 1500 # Failure /\ 1900 # Failure
    <2>1. 0 \in Int /\ 1500 \in Int /\ 1900 \in Int OBVIOUS
    <2>2. QED BY <2>1, FailureAssumption
  <1>4. bp = IF ~d.capitals THEN Failure
             ELSE IF d.vatId # "none" /\ d.country \in DOMAIN EU_VAT_BP THEN 0
             ELSE IF d.country \in DOMAIN RateBP THEN RateBP[d.country] ELSE Failure
    BY DEF vat_basis_points
  <1> HIDE DEF bp
  <1>5. bp \in {Failure, 0, 1500, 1900} /\ (bp = Failure <=> d.country = "US" \/ ~d.capitals)
    BY <1>1, <1>2, <1>3, <1>4
  <1>6. QED BY <1>5 DEF bp, d

\* The amount and the tax that the pipeline ends with, if it charges bp on n / 10^k.
Charged(e, n, k, bp) ==
    /\ bp \in {0, Failure} => e.amount = Dec(n, k) /\ e.tax = Dec(0, 0)
    /\ bp \notin {0, Failure} =>
         /\ Rounded(n, k, bp) \in Int
         /\ e.tax = Dec(Rounded(n, k, bp), 2)
         /\ e.amount = Dec((IF k = 2 THEN n ELSE n * 100) + Rounded(n, k, bp), 2)

LEMMA WhatRanAdds ==
    ASSUME NEW e, NEW ctx, NEW n \in Int, NEW k \in {0, 2}, NEW bp \in Int \cup {Failure},
           Ran(e, ctx, n, k, bp)
    PROVE  Charged(e, n, k, bp)
  <1> DEFINE y == Rounded(n, k, bp)
             charged == bp # Failure /\ bp # 0
  <1>1. /\ e.amount = IF charged THEN DecAdd(Dec(n, k), Dec(y, 2)) ELSE Dec(n, k)
        /\ e.tax = IF charged THEN DecAdd(Dec(0, 0), Dec(y, 2)) ELSE Dec(0, 0)
    BY Zenon DEF Ran
  <1> SUFFICES /\ bp \in {0, Failure} => e.amount = Dec(n, k) /\ e.tax = Dec(0, 0)
               /\ bp \notin {0, Failure} =>
                    /\ y \in Int /\ e.tax = Dec(y, 2)
                    /\ e.amount = Dec((IF k = 2 THEN n ELSE n * 100) + y, 2)
    BY Zenon DEF Charged
  <1>2. bp \in {0, Failure} <=> ~charged OBVIOUS
  <1>3. charged => y \in Int
    <2>1. charged => bp \in Int OBVIOUS
    <2> HIDE DEF charged
    <2>2. QED BY <2>1, RoundedIsInt
  <1> HIDE DEF y, charged
  <1>4. CASE charged /\ k = 2
    <2>1. e.amount = Dec(n + y, 2) /\ e.tax = Dec(y, 2) BY <1>1, <1>3, <1>4, SumsOfTwo
    <2>2. QED BY <1>2, <1>3, <1>4, <2>1
  <1>5. CASE charged /\ k = 0
    <2>1. e.amount = DecAdd(Dec(n, 0), Dec(y, 2)) /\ e.tax = DecAdd(Dec(0, 0), Dec(y, 2))
      BY <1>1, <1>5
    <2>2. y \in Int BY <1>3, <1>5
    <2>3. /\ DecAdd(Dec(n, 0), Dec(y, 2)) = Dec(n * 100 + y, 2)
          /\ DecAdd(Dec(0, 0), Dec(y, 2)) = Dec(y, 2)
      BY <2>2, SumsOfTwo, Zenon
    <2>4. e.amount = Dec(n * 100 + y, 2) /\ e.tax = Dec(y, 2) BY <2>1, <2>3
    <2>5. QED BY <1>2, <1>5, <2>2, <2>4
  <1>6. CASE ~charged
    BY <1>1, <1>2, <1>6
  <1>7. QED BY <1>4, <1>5, <1>6

\* A sample amount as the pipeline runs on it.
LEMMA RanOnSample ==
    ASSUME NEW ctx \in Contexts, NEW n \in Int, NEW k \in {0, 2}, ctx.amount = Dec(n, k)
    PROVE  LET bp == vat_basis_points(ctx.destination)
           IN  bp \in Int \cup {Failure} /\ Ran(evaluate(ctx), ctx, n, k, bp)
  <1> DEFINE bp == vat_basis_points(ctx.destination)
  <1>1. bp \in Int \cup {Failure}
    <2>1. bp \in {Failure, 0, 1500, 1900} BY RateOfCountry
    <2> HIDE DEF bp
    <2>2. QED BY <2>1
  <1>2. bp = vat_basis_points(ctx.destination) OBVIOUS
  <1> HIDE DEF bp
  <1>3. Ran(evaluate(ctx), ctx, n, k, bp) BY <1>1, <1>2, PipelineRuns
  <1>4. QED BY <1>1, <1>3 DEF bp

LEMMA VerdictOfRules ==
    ASSUME NEW ctx \in Contexts, NEW n \in Int, NEW k \in {0, 2}, ctx.amount = Dec(n, k)
    PROVE  Verdict(evaluate(ctx), ctx)
  <1> DEFINE e == evaluate(ctx)
             bp == vat_basis_points(ctx.destination)
             y == Rounded(n, k, bp)
             none == ctx.destination.country = "US" \/ ~ctx.destination.capitals
  <1>1. bp \in Int \cup {Failure} /\ Ran(e, ctx, n, k, bp) BY RanOnSample
  <1>2. bp = Failure <=> none BY RateOfCountry
  <1> HIDE DEF e, bp, none
  <1>3. /\ (e.passed <=> Admitted(ctx))
        /\ Len(e.applied) = IF bp = Failure THEN 3 ELSE 4
        /\ (e.applied[Len(e.applied)] = <<"fraud-signal", "REVIEW">>
              <=> Units(e.amount, 4, "floor") >= Units(FRAUD_REVIEW_THRESHOLD, 4, "floor"))
    BY <1>1, Zenon DEF Ran
  <1>4. PICK m \in Int, j \in {0, 2} :
          e.amount = Dec(m, j) /\ DecAdd(ctx.amount, e.tax) = Dec(m, j)
    <2>1. /\ bp \in {0, Failure} => e.amount = Dec(n, k) /\ e.tax = Dec(0, 0)
          /\ bp \notin {0, Failure} =>
               /\ y \in Int /\ e.tax = Dec(y, 2)
               /\ e.amount = Dec((IF k = 2 THEN n ELSE n * 100) + y, 2)
      <3>1. Charged(e, n, k, bp) BY <1>1, WhatRanAdds
      <3>2. QED BY <3>1, Zenon DEF Charged
    <2> HIDE DEF y
    <2>2. CASE bp \in {0, Failure}
      <3>1. DecAdd(Dec(n, k), Dec(0, 0)) = Dec(n, k)
        <4>1. k = 0 \/ k = 2 OBVIOUS
        <4>2. QED BY <4>1, SumsOfTwo
      <3>2. QED BY <2>1, <2>2, <3>1
    <2>3. CASE bp \notin {0, Failure} /\ k = 2
      <3>1. e.amount = Dec(n + y, 2) /\ e.tax = Dec(y, 2) /\ y \in Int BY <2>1, <2>3
      <3>2. DecAdd(ctx.amount, e.tax) = Dec(n + y, 2) BY <2>3, <3>1, SumsOfTwo
      <3>3. n + y \in Int BY <3>1
      <3>4. QED BY <3>1, <3>2, <3>3
    <2>4. CASE bp \notin {0, Failure} /\ k = 0
      <3>1. e.amount = Dec(n * 100 + y, 2) /\ e.tax = Dec(y, 2) /\ y \in Int BY <2>1, <2>4
      <3>2. DecAdd(ctx.amount, e.tax) = Dec(n * 100 + y, 2) BY <2>4, <3>1, SumsOfTwo
      <3>3. n * 100 + y \in Int BY <3>1
      <3>4. QED BY <3>1, <3>2, <3>3
    <2>5. QED BY <2>2, <2>3, <2>4
  <1>5. SameValue(Dec(m, j), Dec(m, j)) BY SameAsItself
  <1>6. Units(Dec(m, j), 4, "floor") >= Units(FRAUD_REVIEW_THRESHOLD, 4, "floor")
          <=> Units(Dec(m, j), 2, "even") >= FRAUD_REVIEW_THRESHOLD.n
    BY ReviewsAlike
  <1>7. e.passed <=> ctx.tenant_id # "" /\ ctx.user_role \in ALLOWED_ROLES
    BY <1>3, Zenon DEF Admitted, Identified, Allowed
  <1>8. Len(e.applied) = IF none THEN 3 ELSE 4 BY <1>2, <1>3
  <1>9. SameValue(e.amount, DecAdd(ctx.amount, e.tax)) BY <1>4, <1>5
  <1>10. e.applied[Len(e.applied)] = <<"fraud-signal", "REVIEW">>
           <=> Units(e.amount, 2, "even") >= FRAUD_REVIEW_THRESHOLD.n
    BY <1>3, <1>4, <1>6, Zenon
  <1>11. Verdict(e, ctx)
    BY <1>7, <1>8, <1>9, <1>10, Zenon DEF Verdict, none
  <1>12. QED BY <1>11 DEF e

\* The amounts that the rules are tried with.
Sample(n, k) == n \in {0, 434783, 499999, 500000} /\ (k = 0 => n = 0)

LEMMA SamplesAre ==
    ASSUME NEW ctx \in Contexts
    PROVE  \E n \in Int, k \in {0, 2} : ctx.amount = Dec(n, k) /\ Sample(n, k)
  <1> DEFINE Tenants == {"", "acme"}
             Roles == {"owner", "billing", "viewer", "guest"}
             Places == [ country : {"ZA", "DE", "US"}, capitals : BOOLEAN,
                         vatId : {"none", "empty", "some"} ]
  <1>1. ctx \in [tenant_id : Tenants, user_role : Roles, destination : Places,
                 amount : SampleAmounts]
    BY Zenon DEF Contexts
  <1> HIDE DEF Tenants, Roles, Places
  <1>2. ctx.amount \in SampleAmounts BY <1>1
  <1>3. QED BY <1>2 DEF SampleAmounts, Sample

LEMMA VerdictsHold == PipelineVerdict
  <1>1. ASSUME NEW ctx \in Contexts
        PROVE  Verdict(evaluate(ctx), ctx)
    <2>1. PICK n \in Int, k \in {0, 2} : ctx.amount = Dec(n, k) BY SamplesAre
    <2>2. QED BY <2>1, VerdictOfRules
  <1>2. QED BY <1>1, Zenon DEF PipelineVerdict, Verdict

\* The tax on a sample amount is nothing if there is nothing to charge on, and only then.
LEMMA TaxOfNothing ==
    ASSUME NEW n \in Int, NEW k \in {0, 2}, Sample(n, k), NEW bp \in {1500, 1900}
    PROVE  Rounded(n, k, bp) = 0 <=> n = 0
  <1>0. n \in {0, 434783, 499999, 500000} /\ (k = 0 => n = 0) BY DEF Sample
  <1>1. CASE k = 0
    <2>1. n = 0 BY <1>0, <1>1
    <2>2. DecMul(Dec(0, 0), Dec(bp, 4)) = Dec(0, 4) BY DEF DecMul, Dec
    <2>3. Units(Dec(0, 4), 2, "even") = 0 BY PowersOfTen DEF Units, Dec, Quot
    <2>4. QED BY <1>1, <2>1, <2>2, <2>3 DEF Rounded
  <1>2. CASE k = 2
    <2>1. Rounded(n, k, bp) = Quot(n * bp, 10000, "even") BY <1>2, RoundedTax
    <2>2. n = 0 => n * bp = 0 OBVIOUS
    <2>3. n # 0 => n * bp >= 10000
      <3>1. CASE bp = 1500 BY <1>0, <3>1
      <3>2. CASE bp = 1900 BY <1>0, <3>2
      <3>3. QED BY <3>1, <3>2
    <2> DEFINE w == n * bp
    <2>4. w \in Int OBVIOUS
    <2>5. w \div 10000 \in Int /\ (w = 0 => w \div 10000 = 0 /\ w % 10000 = 0)
          /\ (w >= 10000 => w \div 10000 >= 1)
      <3> HIDE DEF w
      <3>1. QED BY <2>4
    <2>6. w = 0 => Quot(w, 10000, "even") = 0 BY <2>4, <2>5 DEF Quot
    <2>7. w >= 10000 => Quot(w, 10000, "even") >= 1
      <3> HIDE DEF w
      <3>1. Quot(w, 10000, "even") \in {w \div 10000, w \div 10000 + 1} BY <2>4 DEF Quot
      <3>2. QED BY <2>5, <3>1
    <2> DEFINE x == Quot(w, 10000, "even")
    <2>8. (n = 0 => x = 0) /\ (n # 0 => x >= 1) BY <2>2, <2>3, <2>6, <2>7
    <2> HIDE DEF x, w
    <2>9. x = 0 <=> n = 0 BY <2>8
    <2>10. QED BY <2>1, <2>9 DEF x, w
  <1>3. QED BY <1>1, <1>2

\* The fallback's rules agree with the pipeline where that passes and charges nothing.
LEMMA RulesDecide == RulesAgree
  <1> SUFFICES ASSUME NEW ctx \in Contexts
               PROVE  LET e == evaluate(ctx)
                          f == fallbackRuleEvaluate(ctx)
                      IN  ( /\ e.passed <=> f.passed
                            /\ SameValue(e.amount, f.amount)
                            /\ SameValue(e.tax, f.tax) )
                          <=> /\ ctx.tenant_id # "" /\ ctx.user_role \in ALLOWED_ROLES
                              /\ vat_basis_points(ctx.destination) \in {0, Failure}
                                   \/ ctx.amount.n = 0
    BY Zenon DEF RulesAgree
  <1> DEFINE e == evaluate(ctx)
             f == fallbackRuleEvaluate(ctx)
             bp == vat_basis_points(ctx.destination)
             admitted == ctx.tenant_id # "" /\ ctx.user_role \in ALLOWED_ROLES
             same == SameValue(e.amount, f.amount) /\ SameValue(e.tax, f.tax)
             nothing == bp \in {0, Failure}
  <1>1. PICK n \in Int, k \in {0, 2} : ctx.amount = Dec(n, k) /\ Sample(n, k)
    BY SamplesAre
  <1>2. ctx.amount.n = n BY <1>1 DEF Dec
  <1>3. f.passed = TRUE /\ f.amount = Dec(n, k) /\ f.tax = Dec(0, 0)
    BY <1>1 DEF fallbackRuleEvaluate, NewPipeline
  <1>4. bp \in Int \cup {Failure} /\ Ran(e, ctx, n, k, bp) BY <1>1, RanOnSample
  <1>5. bp \in {Failure, 0, 1500, 1900} BY RateOfCountry
  <1> DEFINE y == Rounded(n, k, bp)
  <1>6. e.passed <=> admitted
    <2>1. Verdict(e, ctx) BY <1>1, VerdictOfRules
    <2> HIDE DEF e
    <2>2. QED BY <2>1, Zenon DEF Verdict
  <1> HIDE DEF e, f, bp
  <1>7. /\ nothing => e.amount = Dec(n, k) /\ e.tax = Dec(0, 0)
        /\ ~nothing => /\ y \in Int /\ e.tax = Dec(y, 2)
                       /\ e.amount = Dec((IF k = 2 THEN n ELSE n * 100) + y, 2)
    <2>1. Charged(e, n, k, bp) BY <1>4, WhatRanAdds
    <2>2. QED BY <2>1, Zenon DEF Charged
  <1>8. ASSUME nothing PROVE same
    <2>1. SameValue(Dec(n, k), Dec(n, k)) /\ SameValue(Dec(0, 0), Dec(0, 0))
      BY SameAsItself
    <2>2. e.amount = f.amount /\ e.tax = f.tax /\ f.amount = Dec(n, k) /\ f.tax = Dec(0, 0)
      BY <1>3, <1>7, <1>8
    <2>3. QED BY <2>1, <2>2
  <1>9. ASSUME ~nothing PROVE same <=> n = 0
    <2>1. bp \in {1500, 1900} BY <1>5, <1>9
    <2>2. y = 0 <=> n = 0 BY <1>1, <2>1, TaxOfNothing
    <2>3. y \in Int /\ e.tax = Dec(y, 2)
          /\ e.amount = Dec((IF k = 2 THEN n ELSE n * 100) + y, 2)
      BY <1>7, <1>9
    <2> HIDE DEF y, nothing
    <2>4. SameValue(Dec(y, 2), Dec(0, 0)) <=> y = 0
      BY <2>3, PowersOfTen DEF SameValue, DecAdd, DecMul, Dec
    <2>5. n = 0 => SameValue(e.amount, f.amount)
      <3> SUFFICES ASSUME n = 0 PROVE SameValue(e.amount, f.amount) OBVIOUS
      <3>1. e.amount = Dec(0, 2) BY <2>2, <2>3
      <3>2. SameValue(Dec(0, 2), Dec(0, 0)) /\ SameValue(Dec(0, 2), Dec(0, 2))
        BY PowersOfTen DEF SameValue, DecAdd, DecMul, Dec
      <3>3. f.amount = Dec(0, 0) \/ f.amount = Dec(0, 2) BY <1>3
      <3>4. QED BY <3>1, <3>2, <3>3
    <2>6. SameValue(e.tax, f.tax) <=> n = 0
      <3>1. e.tax = Dec(y, 2) /\ f.tax = Dec(0, 0) BY <1>3, <2>3
      <3>2. QED BY <2>2, <2>4, <3>1
    <2>7. QED BY <2>5, <2>6, Zenon
  <1> HIDE DEF same, nothing, admitted
  <1>10. same <=> nothing \/ n = 0 BY <1>8, <1>9, Zenon
  <1>11. (e.passed <=> f.passed) <=> admitted BY <1>3, <1>6, Zenon
  <1>12. ((e.passed <=> f.passed) /\ same) <=> (admitted /\ (nothing \/ ctx.amount.n = 0))
    BY <1>2, <1>10, <1>11, Zenon
  <1>13. QED BY <1>12, Zenon DEF same, nothing, admitted, e, f, bp

-----------------------------------------------------------------------------
(* The theorems about the two engines and about money *)

\* A process with the addon and one with the fallback decide alike on license keys and on
\* permissions, and on filters and rules exactly where the properties say: the planner
\* confines every SELECT to its tenant and escapes the tenant's id (lib.rs to_where_clause),
\* the fallback's clause (bridge.ts queryPlanWhere) is the same only for an id without
\* quotes and a valid table, and its ruleEvaluate only where the pipeline passes and
\* charges nothing.  Shown for every set of data; tables, tenants, roles and inputs of the
\* rules are the samples that the properties name.
THEOREM EnginesDecideAlike == Spec => []EnginesAgree
  <1>1. EnginesAgree
    BY GenuineIsAccepted, ForgeryIsRefused, TablesAgree, PlannerConfines, FiltersDiffer,
       RulesDecide, BackoffDoubles
    DEF EnginesAgree
  <1>2. QED BY <1>1, PTL

\* Money, the formula engine and the fallback count alike to the minor unit and lose no
\* whole one of it.  For every set of amounts, prices and ratio lists of integers: shares
\* add up to the amount without what it has below the minor unit (Money.allocate),
\* conversions read back, roundings are a unit apart at most, and calculateTotal
\* (packages/finance) shows totals that add up, and charges what the rule pipeline
\* (crates/rule-engine) charges but for a unit at a tie and the destinations that only
\* calculateTotal taxes.  Decimals are exact here; the pipeline's verdict is about its
\* sample contexts.
THEOREM AmountsAddUp == Spec => []AmountsAgree
  <1>1. AmountsAgree
    BY NothingIsLost, SplitAlike, RoundTrip, RoundedAlike, PointsAgree, TotalsAreReadable,
       TotalsMatch, VerdictsHold
    DEF AmountsAgree
  <1>2. QED BY <1>1, PTL

=============================================================================
