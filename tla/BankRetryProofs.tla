--------------------------- MODULE BankRetryProofs ---------------------------
(***************************************************************************)
(* Proofs about BankRetry for every number of payments and entries, every  *)
(* interval and duration, with forceResolve and cancelAllRetries at any    *)
(* moment.                                                                 *)
(***************************************************************************)
EXTENDS BankRetry, TLAPS

(***************************************************************************)
(* The inductive invariant, entry by entry.  The third conjunct is the     *)
(* arithmetic behind GivesUpOnlyAfterMaxDuration: n attempts have taken at *)
(* least n intervals by the time the n-th timer is due, hence by the time  *)
(* the n-th check runs.                                                    *)
(***************************************************************************)
NotificationOrder(r) ==
    /\ r.resolved <=> r.told # <<>>
    /\ Len(r.told) <= 2
    /\ Len(r.told) = 1 /\ r.phase = "checking" => r.told[1].by = "force"
    /\ Len(r.told) = 2 =>
          /\ r.phase = "idle"
          /\ r.told[1].by = "force"
          /\ r.told[2].by = "poll"

AttemptsTakeTime(r) ==
    /\ r.phase = "timer" => r.attempt * POLL_INTERVAL <= r.due
    /\ r.phase = "checking" => r.attempt * POLL_INTERVAL <= r.elapsed

GaveUpInTime(r) ==
    \A i \in 1..Len(r.told) :
        r.told[i].by = "giveUp" => r.told[i].at >= MAX_POLL_DURATION

EntryInv(r) ==
    /\ r.phase = "unused" => ~r.resolved
    /\ r.phase # "unused" => r.paymentId \in Payments
    /\ r.phase = "timer" => ~r.resolved
    /\ NotificationOrder(r)
    /\ AttemptsTakeTime(r)
    /\ GaveUpInTime(r)

EntriesInv == \A e \in Entries : EntryInv(entry[e])

RetryInv ==
    /\ TypeOK
    /\ EntriesInv
    /\ ActiveEntryIsPolled

-----------------------------------------------------------------------------
(* The polling budget *)

\* MAX_POLL_ATTEMPTS intervals cover MAX_POLL_DURATION: the quotient is rounded up.
LEMMA AttemptsCoverDuration ==
    /\ MAX_POLL_ATTEMPTS \in Nat
    /\ MAX_POLL_ATTEMPTS * POLL_INTERVAL >= MAX_POLL_DURATION
  BY RetryAssumption DEF MAX_POLL_ATTEMPTS

\* An entry whose check has settled gives up only when MAX_POLL_DURATION has elapsed.
LEMMA BudgetSpentLate ==
    ASSUME NEW r \in RetryEntry, AttemptsTakeTime(r), r.phase = "checking", BudgetSpent(r)
    PROVE  r.elapsed >= MAX_POLL_DURATION
  <1>1. CASE r.elapsed >= MAX_POLL_DURATION
    BY <1>1
  <1>2. CASE r.attempt >= MAX_POLL_ATTEMPTS
    <2> DEFINE n == r.attempt
               t == r.elapsed
               M == MAX_POLL_ATTEMPTS
    <2>1. n \in Nat /\ t \in Nat /\ M \in Nat /\ n >= M
      BY <1>2, AttemptsCoverDuration DEF RetryEntry, Horizon
    <2>2. n * POLL_INTERVAL <= t
      BY DEF AttemptsTakeTime
    <2>3. M * POLL_INTERVAL >= MAX_POLL_DURATION
      BY AttemptsCoverDuration
    <2> HIDE DEF n, t, M
    <2>4. n * POLL_INTERVAL >= M * POLL_INTERVAL
      BY <2>1, RetryAssumption
    <2>5. t >= MAX_POLL_DURATION
      BY <2>1, <2>2, <2>3, <2>4, RetryAssumption
    <2> QED BY <2>5 DEF t
  <1> QED BY <1>1, <1>2 DEF BudgetSpent

-----------------------------------------------------------------------------
(* What the shared statements do to an entry *)

\* Notify keeps the fields it does not assign and appends one well-typed notification.
LEMMA NotifyType ==
    ASSUME NEW r \in RetryEntry, NEW state \in FinalStates,
           NEW by \in {"poll", "giveUp", "force"}, NEW ph \in Phases
    PROVE  /\ Notify(r, state, by) \in RetryEntry
           /\ [Notify(r, state, by) EXCEPT !.phase = ph] \in RetryEntry
  <1>1. [state |-> state, by |-> by, at |-> r.elapsed] \in Notifications
    BY DEF RetryEntry, Notifications
  <1>2. Append(r.told, [state |-> state, by |-> by, at |-> r.elapsed]) \in Seq(Notifications)
    BY <1>1 DEF RetryEntry
  <1> QED BY <1>2 DEF Notify, RetryEntry

\* schedulePoll keeps an entry well typed: the due time it computes is within the horizon.
LEMMA schedulePollType ==
    ASSUME NEW r \in RetryEntry
    PROVE  schedulePoll(r) \in RetryEntry
  <1>1. CASE r.resolved
    BY <1>1 DEF schedulePoll, RetryEntry, Phases
  <1>2. CASE ~r.resolved /\ BudgetSpent(r)
    BY <1>2, NotifyType DEF schedulePoll, FinalStates, Phases
  <1>3. CASE ~r.resolved /\ ~BudgetSpent(r)
    <2>1. r.elapsed + POLL_INTERVAL \in 0..Horizon
      BY <1>3, RetryAssumption DEF BudgetSpent, Horizon, RetryEntry
    <2>2. r.attempt + 1 \in Nat
      BY DEF RetryEntry
    <2>3. schedulePoll(r) = [r EXCEPT !.attempt = r.attempt + 1,
                                      !.due = r.elapsed + POLL_INTERVAL,
                                      !.phase = "timer"]
      BY <1>3 DEF schedulePoll
    <2> DEFINE n == r.attempt + 1
               d == r.elapsed + POLL_INTERVAL
    <2> HIDE DEF n, d
    <2>4. [r EXCEPT !.attempt = n, !.due = d, !.phase = "timer"] \in RetryEntry
      BY <2>1, <2>2 DEF RetryEntry, Phases, n, d
    <2> QED BY <2>3, <2>4 DEF n, d
  <1> QED BY <1>1, <1>2, <1>3

\* So does the rest of the timer callback, for every answer of the bank.
LEMMA afterCheckType ==
    ASSUME NEW r \in RetryEntry, NEW answer \in BankAnswers
    PROVE  afterCheck(r, answer) \in RetryEntry
  BY NotifyType, schedulePollType DEF afterCheck, BankAnswers, FinalStates, Phases

\* The fields of a notified entry, its phase ph being set by the caller.
LEMMA NotifyFields ==
    ASSUME NEW r \in RetryEntry, NEW state, NEW by, NEW ph
    PROVE  LET q == [Notify(r, state, by) EXCEPT !.phase = ph]
           IN  /\ q.paymentId = r.paymentId
               /\ q.phase = ph
               /\ q.resolved
               /\ q.told = Append(r.told, [state |-> state, by |-> by, at |-> r.elapsed])
  BY DEF Notify, RetryEntry

\* The last notification of a longer sequence is the one appended.
LEMMA AppendTold ==
    ASSUME NEW told \in Seq(Notifications), NEW n \in Notifications
    PROVE  /\ Append(told, n) # <<>>
           /\ Len(Append(told, n)) = Len(told) + 1
           /\ \A i \in 1..Len(told) : Append(told, n)[i] = told[i]
           /\ Append(told, n)[Len(told) + 1] = n
  OBVIOUS

\* A verdict, or giving up once the duration has elapsed, ends the chain of an entry.
LEMMA NotifyEndsChain ==
    ASSUME NEW r \in RetryEntry, EntryInv(r), r.phase = "checking",
           NEW state \in FinalStates, NEW by \in {"poll", "giveUp"},
           by = "giveUp" => ~r.resolved /\ r.elapsed >= MAX_POLL_DURATION
    PROVE  EntryInv([Notify(r, state, by) EXCEPT !.phase = "idle"])
  <1> DEFINE n == [state |-> state, by |-> by, at |-> r.elapsed]
             q == [Notify(r, state, by) EXCEPT !.phase = "idle"]
  <1>1. r.told \in Seq(Notifications) /\ n \in Notifications
    BY DEF RetryEntry, Notifications
  <1>2. q.paymentId = r.paymentId /\ q.phase = "idle" /\ q.resolved
        /\ q.told = Append(r.told, n)
    BY NotifyFields
  <1>3. n.by = by /\ n.at = r.elapsed
    OBVIOUS
  <1> HIDE DEF n, q
  <1>4. Len(r.told) \in Nat /\ Len(r.told) <= 1
    <2> DEFINE k == Len(r.told)
    <2>1. k \in Nat
      BY <1>1
    <2>2. k <= 2 /\ k # 2
      BY DEF EntryInv, NotificationOrder
    <2> HIDE DEF k
    <2>3. k <= 1
      BY <2>1, <2>2
    <2> QED BY <2>1, <2>3 DEF k
  <1>5. NotificationOrder(q)
    <2>1. q.told # <<>> /\ Len(q.told) = Len(r.told) + 1
      BY <1>1, <1>2, AppendTold
    <2>2. ASSUME Len(r.told) = 1
          PROVE  q.told[1].by = "force" /\ q.told[2].by = "poll"
      <3>1. r.told[1].by = "force" /\ r.resolved
        BY <2>2 DEF EntryInv, NotificationOrder
      <3>2. by = "poll"
        BY <3>1
      <3>3. 1 \in 1..Len(r.told) /\ Len(r.told) + 1 = 2
        BY <2>2
      <3>4. q.told[1] = r.told[1] /\ q.told[2] = n
        BY <3>3, <1>1, <1>2, AppendTold
      <3> QED BY <3>1, <3>2, <3>4, <1>3
    <2>3. Len(q.told) <= 2 /\ (Len(q.told) = 2 => Len(r.told) = 1)
      <3> DEFINE k == Len(r.told)
                 m == Len(q.told)
      <3>1. k \in Nat /\ k <= 1 /\ m = k + 1
        BY <1>4, <2>1
      <3> HIDE DEF k, m
      <3>2. m <= 2 /\ (m = 2 => k = 1)
        BY <3>1
      <3> QED BY <3>2 DEF k, m
    <2>4. (q.resolved <=> q.told # <<>>) /\ q.phase # "checking"
      BY <1>2, <2>1
    <2> QED BY <1>2, <2>2, <2>3, <2>4 DEF NotificationOrder
  <1>6. GaveUpInTime(q)
    <2> SUFFICES ASSUME NEW i \in 1..Len(q.told), q.told[i].by = "giveUp"
                 PROVE  q.told[i].at >= MAX_POLL_DURATION
      BY DEF GaveUpInTime
    <2>1. i \in 1..Len(r.told) \/ i = Len(r.told) + 1
      BY <1>1, <1>2, <1>4, AppendTold
    <2>2. CASE i \in 1..Len(r.told)
      <3>1. q.told[i] = r.told[i]
        BY <1>1, <1>2, <2>2, AppendTold
      <3> QED BY <3>1, <2>2 DEF EntryInv, GaveUpInTime
    <2>3. CASE i = Len(r.told) + 1
      <3>1. q.told[i] = n
        BY <1>1, <1>2, <2>3, AppendTold
      <3> QED BY <3>1, <1>3
    <2> QED BY <2>1, <2>2, <2>3
  <1>7. AttemptsTakeTime(q)
    BY <1>2 DEF AttemptsTakeTime
  <1> QED BY <1>2, <1>5, <1>6, <1>7 DEF EntryInv, q

\* Whatever the bank answers, the entry keeps its invariant.
LEMMA afterCheckInv ==
    ASSUME NEW r \in RetryEntry, EntryInv(r), r.phase = "checking", NEW answer \in BankAnswers
    PROVE  EntryInv(afterCheck(r, answer))
  <1>1. CASE answer \in {"succeeded", "failed"}
    BY <1>1, NotifyEndsChain DEF afterCheck, FinalStates
  <1>2. CASE answer \notin {"succeeded", "failed"}
    <2>1. afterCheck(r, answer) = schedulePoll(r)
      BY <1>2 DEF afterCheck
    <2>2. CASE r.resolved
      <3> DEFINE q == [r EXCEPT !.phase = "idle"]
      <3>1. schedulePoll(r) = q
        BY <2>2 DEF schedulePoll
      <3>2. q.phase = "idle" /\ q.resolved = r.resolved /\ q.told = r.told
            /\ q.paymentId = r.paymentId
        BY DEF RetryEntry
      <3> HIDE DEF q
      <3>3. EntryInv(q)
        BY <3>2 DEF EntryInv, NotificationOrder, AttemptsTakeTime, GaveUpInTime
      <3> QED BY <2>1, <3>1, <3>3
    <2>3. CASE ~r.resolved /\ BudgetSpent(r)
      <3>1. r.elapsed >= MAX_POLL_DURATION
        BY <2>3, BudgetSpentLate DEF EntryInv
      <3>2. schedulePoll(r) = [Notify(r, "MANUAL_REVIEW", "giveUp") EXCEPT !.phase = "idle"]
        BY <2>3 DEF schedulePoll
      <3>3. EntryInv([Notify(r, "MANUAL_REVIEW", "giveUp") EXCEPT !.phase = "idle"])
        BY <2>3, <3>1, NotifyEndsChain DEF FinalStates
      <3> QED BY <2>1, <3>2, <3>3, Zenon
    <2>4. CASE ~r.resolved /\ ~BudgetSpent(r)
      <3> DEFINE n == r.attempt + 1
                 d == r.elapsed + POLL_INTERVAL
                 q == [r EXCEPT !.attempt = n, !.due = d, !.phase = "timer"]
      <3>1. schedulePoll(r) = q
        BY <2>4 DEF schedulePoll
      <3>2. n * POLL_INTERVAL <= d
        BY RetryAssumption DEF EntryInv, AttemptsTakeTime, RetryEntry, Horizon
      <3> HIDE DEF n, d
      <3>3. q.phase = "timer" /\ q.resolved = r.resolved /\ q.told = r.told
            /\ q.paymentId = r.paymentId /\ q.attempt = n /\ q.due = d
        BY DEF RetryEntry
      <3> HIDE DEF q
      <3>4. EntryInv(q)
        BY <2>4, <3>2, <3>3 DEF EntryInv, NotificationOrder, AttemptsTakeTime, GaveUpInTime
      <3> QED BY <2>1, <3>1, <3>4
    <2> QED BY <2>2, <2>3, <2>4
  <1> QED BY <1>1, <1>2

(***************************************************************************)
(* A settled check keeps the payment of the entry, and if it tells nobody  *)
(* about an unresolved entry then it has armed the next timer.             *)
(***************************************************************************)
LEMMA afterCheckKeepsPolling ==
    ASSUME NEW r \in RetryEntry, NEW answer \in BankAnswers
    PROVE  LET q == afterCheck(r, answer)
           IN  /\ q.paymentId = r.paymentId
               /\ ~r.resolved /\ ~(Len(q.told) > Len(r.told)) =>
                     ~q.resolved /\ q.told = r.told /\ q.phase = "timer"
  <1> DEFINE q == afterCheck(r, answer)
  <1>1. ASSUME NEW state \in FinalStates, NEW by \in {"poll", "giveUp"},
               q = [Notify(r, state, by) EXCEPT !.phase = "idle"]
        PROVE  q.paymentId = r.paymentId /\ Len(q.told) > Len(r.told)
    <2> DEFINE n == [state |-> state, by |-> by, at |-> r.elapsed]
    <2>1. r.told \in Seq(Notifications) /\ n \in Notifications
      BY DEF RetryEntry, Notifications
    <2>2. q.paymentId = r.paymentId /\ q.told = Append(r.told, n)
      BY <1>1, NotifyFields
    <2> HIDE DEF n, q
    <2>3. Len(q.told) = Len(r.told) + 1 /\ Len(r.told) \in Nat
      BY <2>1, <2>2, AppendTold
    <2> QED BY <2>2, <2>3
  <1>2. CASE answer \in {"succeeded", "failed"}
    <2>1. \E state \in FinalStates, by \in {"poll", "giveUp"} :
             q = [Notify(r, state, by) EXCEPT !.phase = "idle"]
      BY <1>2 DEF afterCheck, FinalStates
    <2> QED BY <1>1, <2>1
  <1>3. CASE answer \notin {"succeeded", "failed"}
    <2>1. q = schedulePoll(r)
      BY <1>3 DEF afterCheck
    <2>2. CASE r.resolved
      BY <2>1, <2>2 DEF schedulePoll, RetryEntry
    <2>3. CASE ~r.resolved /\ BudgetSpent(r)
      <3>1. q = [Notify(r, "MANUAL_REVIEW", "giveUp") EXCEPT !.phase = "idle"]
        BY <2>1, <2>3 DEF schedulePoll
      <3>2. q.paymentId = r.paymentId /\ Len(q.told) > Len(r.told)
        BY <1>1, <3>1 DEF FinalStates
      <3> QED BY <3>2
    <2>4. CASE ~r.resolved /\ ~BudgetSpent(r)
      <3>1. q = [r EXCEPT !.attempt = r.attempt + 1,
                          !.due = r.elapsed + POLL_INTERVAL,
                          !.phase = "timer"]
        BY <2>1, <2>4 DEF schedulePoll
      <3> HIDE DEF q
      <3>2. q.paymentId = r.paymentId /\ q.resolved = r.resolved
            /\ q.told = r.told /\ q.phase = "timer"
        BY <3>1 DEF RetryEntry
      <3> QED BY <2>4, <3>2 DEF q
    <2> QED BY <2>2, <2>3, <2>4
  <1> QED BY <1>2, <1>3

\* An operator settles an entry of the map: onResolved is called for the first time.
LEMMA ForceInv ==
    ASSUME NEW r \in RetryEntry, EntryInv(r), ~r.resolved, r.told = <<>>,
           r.phase \in {"timer", "checking"}, NEW state \in FinalStates
    PROVE  LET q == Notify(clearTimer(r), state, "force")
           IN  /\ q \in RetryEntry
               /\ EntryInv(q)
               /\ q.paymentId = r.paymentId
               /\ Len(q.told) > Len(r.told)
  <1> DEFINE c == clearTimer(r)
             q == Notify(c, state, "force")
             n == [state |-> state, by |-> "force", at |-> r.elapsed]
  <1>1. c \in RetryEntry /\ c.paymentId = r.paymentId /\ c.told = r.told
        /\ c.elapsed = r.elapsed /\ c.phase \in {"idle", "checking"}
        /\ c.attempt = r.attempt /\ (c.phase = "checking" => r.phase = "checking")
    BY DEF clearTimer, RetryEntry, Phases
  <1> HIDE DEF c
  <1>2. q \in RetryEntry
    BY <1>1, NotifyType DEF Phases
  <1>3. q.paymentId = r.paymentId /\ q.phase = c.phase /\ q.resolved
        /\ q.told = Append(<<>>, n) /\ q.elapsed = r.elapsed /\ q.attempt = r.attempt
    BY <1>1 DEF Notify, RetryEntry
  <1>4. n \in Notifications /\ n.by = "force"
    BY DEF RetryEntry, Notifications, FinalStates
  <1> HIDE DEF q, n
  <1>5. q.told # <<>> /\ Len(q.told) = 1 /\ q.told[1] = n
    BY <1>3, <1>4
  <1>6. NotificationOrder(q)
    BY <1>3, <1>4, <1>5 DEF NotificationOrder
  <1>7. GaveUpInTime(q)
    BY <1>4, <1>5 DEF GaveUpInTime
  <1>8. AttemptsTakeTime(q)
    BY <1>1, <1>3 DEF AttemptsTakeTime, EntryInv
  <1>9. EntryInv(q)
    BY <1>1, <1>3, <1>6, <1>7, <1>8 DEF EntryInv
  <1>10. Len(q.told) > Len(r.told)
    BY <1>5
  <1> QED BY <1>2, <1>3, <1>9, <1>10 DEF q, c

-----------------------------------------------------------------------------
(* The invariant *)

\* No entry is in the map and none has been told anything.
LEMMA InitInv == Init => RetryInv
  <1> SUFFICES ASSUME Init PROVE RetryInv
    OBVIOUS
  <1> DEFINE u == FreshEntry(NoEntry, "unused")
  <1>2. 0 \in 0..Horizon
    BY RetryAssumption DEF Horizon
  <1>3. u \in RetryEntry
    BY <1>2 DEF FreshEntry, RetryEntry, Phases
  <1>4. EntryInv(u)
    BY DEF FreshEntry, EntryInv, NotificationOrder, AttemptsTakeTime, GaveUpInTime
  <1> HIDE DEF u
  <1>5. entry = [e \in Entries |-> u]
    BY DEF Init, u
  <1>6. TypeOK
    BY <1>3, <1>5 DEF Init, TypeOK
  <1>7. EntriesInv
    BY <1>4, <1>5 DEF EntriesInv
  <1>8. ActiveEntryIsPolled
    BY DEF Init, ActiveEntryIsPolled
  <1> QED BY <1>6, <1>7, <1>8 DEF RetryInv

(***************************************************************************)
(* Store of an entry that keeps its own invariant.  If the entry is filed  *)
(* under a payment and stays there, it must still be polled.               *)
(***************************************************************************)
LEMMA StoreInv ==
    ASSUME RetryInv, NEW e \in Entries, NEW q \in RetryEntry, EntryInv(q), Store(e, q),
           q.paymentId = entry[e].paymentId, q.paymentId \in Payments,
           ASSUME activeRetries[q.paymentId] = e, ~(Len(q.told) > Len(entry[e].told))
           PROVE  ~q.resolved /\ q.told = <<>> /\ q.phase \in {"timer", "checking"}
    PROVE  RetryInv'
  <1>1. entry' = [entry EXCEPT ![e] = q] /\ cancelled' = cancelled
    BY DEF Store
  <1>2. entry \in [Entries -> RetryEntry]
        /\ activeRetries \in [Payments -> Entries \cup {NoEntry}] /\ cancelled \subseteq Entries
    BY DEF RetryInv, TypeOK
  <1>3. entry'[e] = q /\ \A f \in Entries \ {e} : entry'[f] = entry[f]
    BY <1>1, <1>2
  <1>4. \A p \in Payments : activeRetries'[p] = activeRetries[p] \/ activeRetries'[p] = NoEntry
    BY <1>2 DEF Store
  <1>5. TypeOK'
    <2>1. entry' \in [Entries -> RetryEntry]
      BY <1>1, <1>2
    <2>2. activeRetries' \in [Payments -> Entries \cup {NoEntry}]
      BY <1>2 DEF Store
    <2> QED BY <1>1, <1>2, <2>1, <2>2 DEF TypeOK
  <1>6. EntriesInv'
    BY <1>3 DEF EntriesInv, RetryInv
  <1>7. ActiveEntryIsPolled'
    <2> SUFFICES ASSUME NEW p \in Payments, activeRetries'[p] # NoEntry
                 PROVE  LET r == entry'[activeRetries'[p]]
                        IN  /\ r.paymentId = p
                            /\ ~r.resolved
                            /\ r.told = <<>>
                            /\ r.phase \in {"timer", "checking"}
      BY DEF ActiveEntryIsPolled
    <2>1. activeRetries'[p] = activeRetries[p] /\ activeRetries[p] \in Entries
      BY <1>2, <1>4
    <2>2. CASE activeRetries[p] = e
      <3>1. q.paymentId = p
        BY <2>1, <2>2, RetryAssumption DEF RetryInv, ActiveEntryIsPolled
      <3>2. ~(Len(q.told) > Len(entry[e].told))
        <4> SUFFICES ASSUME Len(q.told) > Len(entry[e].told) PROVE FALSE
          OBVIOUS
        <4>1. activeRetries' = [activeRetries EXCEPT ![p] = NoEntry]
          BY <3>1 DEF Store
        <4> QED BY <4>1, <1>2
      <3> QED BY <1>3, <2>1, <2>2, <3>1, <3>2
    <2>3. CASE activeRetries[p] # e
      BY <1>3, <2>1, <2>3, RetryAssumption DEF RetryInv, ActiveEntryIsPolled
    <2> QED BY <2>2, <2>3
  <1> QED BY <1>5, <1>6, <1>7 DEF RetryInv

\* startBankRetry: a fresh entry has its whole budget, so its first timer is armed.
LEMMA StartInv ==
    ASSUME RetryInv, NEW p \in Payments, NEW e \in Entries, startBankRetry(p, e)
    PROVE  RetryInv'
  <1> DEFINE f == FreshEntry(p, "idle")
             q == schedulePoll(f)
  <1>1. entry \in [Entries -> RetryEntry]
        /\ activeRetries \in [Payments -> Entries \cup {NoEntry}] /\ cancelled \subseteq Entries
    BY DEF RetryInv, TypeOK
  <1>2. f \in RetryEntry
    <2>1. 0 \in 0..Horizon
      BY RetryAssumption DEF Horizon
    <2> QED BY <2>1 DEF FreshEntry, RetryEntry, Phases
  <1>3. q \in RetryEntry
    BY <1>2, schedulePollType
  <1>4. q.paymentId = p /\ ~q.resolved /\ q.told = <<>> /\ q.phase = "timer"
        /\ q.attempt = 1 /\ q.due = POLL_INTERVAL
    <2>1. ~f.resolved /\ f.attempt = 0 /\ f.elapsed = 0 /\ f.told = <<>> /\ f.paymentId = p
      BY DEF FreshEntry
    <2>2. MAX_POLL_ATTEMPTS >= 1
      BY AttemptsCoverDuration, RetryAssumption
    <2>3. ~BudgetSpent(f)
      BY <2>1, <2>2, AttemptsCoverDuration, RetryAssumption DEF BudgetSpent
    <2>4. q = [f EXCEPT !.attempt = f.attempt + 1,
                        !.due = f.elapsed + POLL_INTERVAL,
                        !.phase = "timer"]
      BY <2>1, <2>3 DEF schedulePoll
    <2> HIDE DEF f, q
    <2>5. q.paymentId = f.paymentId /\ q.resolved = f.resolved /\ q.told = f.told
          /\ q.phase = "timer" /\ q.attempt = f.attempt + 1 /\ q.due = f.elapsed + POLL_INTERVAL
      BY <1>2, <2>4 DEF RetryEntry
    <2> QED BY <2>1, <2>5, RetryAssumption
  <1> HIDE DEF q
  <1>5. EntryInv(q)
    BY <1>4, RetryAssumption
       DEF EntryInv, NotificationOrder, AttemptsTakeTime, GaveUpInTime
  <1>6. /\ activeRetries' = [activeRetries EXCEPT ![p] = e]
        /\ entry' = [entry EXCEPT ![e] = q]
        /\ cancelled' = cancelled
        /\ entry[e].phase = "unused"
    BY DEF startBankRetry, q
  <1>7. entry'[e] = q /\ \A g \in Entries \ {e} : entry'[g] = entry[g]
    BY <1>1, <1>6
  <1>8. TypeOK'
    BY <1>1, <1>3, <1>6 DEF TypeOK
  <1>9. EntriesInv'
    BY <1>5, <1>7 DEF EntriesInv, RetryInv
  <1>10. ActiveEntryIsPolled'
    <2> SUFFICES ASSUME NEW o \in Payments, activeRetries'[o] # NoEntry
                 PROVE  LET r == entry'[activeRetries'[o]]
                        IN  /\ r.paymentId = o
                            /\ ~r.resolved
                            /\ r.told = <<>>
                            /\ r.phase \in {"timer", "checking"}
      BY DEF ActiveEntryIsPolled
    <2>1. CASE o = p
      BY <1>1, <1>4, <1>6, <1>7, <2>1
    <2>2. CASE o # p
      <3>1. activeRetries'[o] = activeRetries[o] /\ activeRetries[o] \in Entries
        BY <1>1, <1>6, <2>2
      <3>2. activeRetries[o] # e
        BY <1>6, <3>1, RetryAssumption DEF RetryInv, ActiveEntryIsPolled
      <3> QED BY <1>7, <3>1, <3>2, RetryAssumption DEF RetryInv, ActiveEntryIsPolled
    <2> QED BY <2>1, <2>2
  <1> QED BY <1>8, <1>9, <1>10 DEF RetryInv

\* A due timer fires: the entry of the map is now being checked.
LEMMA TimerInv ==
    ASSUME RetryInv, NEW e \in Entries, TimerFires(e)
    PROVE  RetryInv'
  <1> DEFINE r == entry[e]
             q == [r EXCEPT !.phase = IF r.resolved THEN "idle" ELSE "checking"]
  <1>1. r \in RetryEntry /\ EntryInv(r)
    BY DEF RetryInv, TypeOK, EntriesInv
  <1>2. r.phase = "timer" /\ r.elapsed >= r.due /\ Store(e, q)
    BY DEF TimerFires
  <1> HIDE DEF r
  <1>3. ~r.resolved /\ r.paymentId \in Payments /\ r.told = <<>>
    BY <1>1, <1>2 DEF EntryInv, NotificationOrder
  <1>4. q \in RetryEntry /\ q.phase = "checking" /\ q.paymentId = r.paymentId
        /\ q.resolved = r.resolved /\ q.told = r.told
        /\ q.attempt = r.attempt /\ q.elapsed = r.elapsed
    BY <1>1, <1>3 DEF RetryEntry, Phases
  <1> HIDE DEF q
  <1>5. AttemptsTakeTime(q)
    <2>1. r.attempt * POLL_INTERVAL <= r.due
      BY <1>1, <1>2 DEF EntryInv, AttemptsTakeTime
    <2>2. r.attempt \in Nat /\ r.due \in Nat /\ r.elapsed \in Nat
      BY <1>1 DEF RetryEntry
    <2>3. r.attempt * POLL_INTERVAL <= r.elapsed
      BY <1>2, <2>1, <2>2, RetryAssumption
    <2> QED BY <1>4, <2>3 DEF AttemptsTakeTime
  <1>6. EntryInv(q)
    BY <1>3, <1>4, <1>5 DEF EntryInv, NotificationOrder, GaveUpInTime
  <1> QED BY <1>2, <1>3, <1>4, <1>6, StoreInv DEF r

\* checkStatus settles: a verdict, another round, or giving up.
LEMMA CheckInv ==
    ASSUME RetryInv, NEW e \in Entries, NEW answer \in BankAnswers, CheckSettles(e, answer)
    PROVE  RetryInv'
  <1> DEFINE r == entry[e]
             q == afterCheck(r, answer)
  <1>1. r \in RetryEntry /\ EntryInv(r)
    BY DEF RetryInv, TypeOK, EntriesInv
  <1>2. r.phase = "checking" /\ Store(e, q)
    BY DEF CheckSettles
  <1>3. q \in RetryEntry /\ EntryInv(q)
    BY <1>1, <1>2, afterCheckType, afterCheckInv
  <1>4. q.paymentId = r.paymentId /\ r.paymentId \in Payments
    BY <1>1, <1>2, afterCheckKeepsPolling DEF EntryInv
  <1>5. ASSUME activeRetries[q.paymentId] = e, ~(Len(q.told) > Len(r.told))
        PROVE  ~q.resolved /\ q.told = <<>> /\ q.phase \in {"timer", "checking"}
    <2>1. ~r.resolved /\ r.told = <<>>
      BY <1>4, <1>5, RetryAssumption DEF RetryInv, ActiveEntryIsPolled
    <2> QED BY <1>1, <1>5, <2>1, afterCheckKeepsPolling
  <1> HIDE DEF q
  <1> QED BY <1>2, <1>3, <1>4, <1>5, StoreInv

\* forceResolve takes an entry that has told nobody out of the map.
LEMMA OperatorForceInv ==
    ASSUME RetryInv, NEW p \in Payments, NEW state \in FinalStates, forceResolve(p, state)
    PROVE  RetryInv'
  <1> DEFINE e == activeRetries[p]
             r == entry[e]
             q == Notify(clearTimer(r), state, "force")
  <1>1. e \in Entries /\ e # NoEntry
    BY DEF forceResolve, RetryInv, TypeOK
  <1>2. r \in RetryEntry /\ EntryInv(r)
    BY <1>1 DEF RetryInv, TypeOK, EntriesInv
  <1>3. r.paymentId = p /\ ~r.resolved /\ r.told = <<>> /\ r.phase \in {"timer", "checking"}
    BY <1>1 DEF RetryInv, ActiveEntryIsPolled
  <1>4. Store(e, q)
    BY DEF forceResolve
  <1> HIDE DEF e
  <1>5. q \in RetryEntry /\ EntryInv(q) /\ q.paymentId = r.paymentId /\ Len(q.told) > Len(r.told)
    BY <1>2, <1>3, ForceInv
  <1> HIDE DEF q
  <1> QED BY <1>1, <1>3, <1>4, <1>5, StoreInv

\* cancelAllRetries empties the map and only clears timers.
LEMMA CancelInv ==
    ASSUME RetryInv, cancelAllRetries
    PROVE  RetryInv'
  <1>1. entry \in [Entries -> RetryEntry]
        /\ activeRetries \in [Payments -> Entries \cup {NoEntry}] /\ cancelled \subseteq Entries
    BY DEF RetryInv, TypeOK
  <1>2. ASSUME NEW r \in RetryEntry, EntryInv(r)
        PROVE  clearTimer(r) \in RetryEntry /\ EntryInv(clearTimer(r))
    <2> DEFINE q == clearTimer(r)
    <2>1. q \in RetryEntry /\ q.paymentId = r.paymentId /\ q.resolved = r.resolved
          /\ q.told = r.told /\ q.attempt = r.attempt /\ q.elapsed = r.elapsed
          /\ (r.phase = "timer" => q.phase = "idle") /\ (r.phase # "timer" => q.phase = r.phase)
      BY DEF clearTimer, RetryEntry, Phases
    <2> HIDE DEF q
    <2>2. EntryInv(q)
      BY <1>2, <2>1 DEF EntryInv, NotificationOrder, AttemptsTakeTime, GaveUpInTime
    <2> QED BY <2>1, <2>2 DEF q
  <1>3. Active \subseteq Entries
    BY <1>1 DEF Active
  <1>4. \A e \in Entries : entry'[e] = entry[e] \/ entry'[e] = clearTimer(entry[e])
    BY DEF cancelAllRetries
  <1>5. \A e \in Entries : entry'[e] \in RetryEntry /\ EntryInv(entry'[e])
    BY <1>1, <1>2, <1>4 DEF RetryInv, EntriesInv
  <1>6. entry' = [e \in Entries |-> IF e \in Active THEN clearTimer(entry[e]) ELSE entry[e]]
        /\ activeRetries' = [p \in Payments |-> NoEntry]
        /\ cancelled' = cancelled \cup Active
    BY DEF cancelAllRetries
  <1>7. entry' \in [Entries -> RetryEntry]
    BY <1>5, <1>6
  <1>8. TypeOK'
    BY <1>1, <1>3, <1>6, <1>7 DEF TypeOK
  <1>9. ActiveEntryIsPolled'
    BY <1>6 DEF ActiveEntryIsPolled
  <1> QED BY <1>5, <1>8, <1>9 DEF RetryInv, EntriesInv

\* Time passes: elapsed grows, and nothing the entries record gets younger.
LEMMA TickInv ==
    ASSUME RetryInv, Tick
    PROVE  RetryInv'
  <1> DEFINE Older(r) == [r EXCEPT !.elapsed = @ + 1]
  <1>1. entry \in [Entries -> RetryEntry]
    BY DEF RetryInv, TypeOK
  <1>2. ASSUME NEW r \in RetryEntry, r.elapsed < Horizon
        PROVE  /\ Older(r) \in RetryEntry
               /\ Older(r).elapsed = r.elapsed + 1
               /\ Older(r).paymentId = r.paymentId
               /\ Older(r).attempt = r.attempt
               /\ Older(r).due = r.due
               /\ Older(r).phase = r.phase
               /\ Older(r).resolved = r.resolved
               /\ Older(r).told = r.told
    <2> DEFINE t == r.elapsed + 1
    <2>1. t \in 0..Horizon
      BY <1>2, RetryAssumption DEF RetryEntry, Horizon
    <2> HIDE DEF t
    <2>2. LET q == [r EXCEPT !.elapsed = t]
          IN  /\ q \in RetryEntry
              /\ q.elapsed = t
              /\ q.paymentId = r.paymentId
              /\ q.attempt = r.attempt
              /\ q.due = r.due
              /\ q.phase = r.phase
              /\ q.resolved = r.resolved
              /\ q.told = r.told
      BY <2>1 DEF RetryEntry
    <2> QED BY <2>2 DEF t
  <1> HIDE DEF Older
  <1>3. ASSUME NEW r \in RetryEntry, EntryInv(r), r.elapsed < Horizon
        PROVE  EntryInv(Older(r))
    <2> DEFINE q == Older(r)
    <2>1. /\ q.elapsed = r.elapsed + 1
          /\ q.paymentId = r.paymentId
          /\ q.attempt = r.attempt
          /\ q.due = r.due
          /\ q.phase = r.phase
          /\ q.resolved = r.resolved
          /\ q.told = r.told
      BY <1>2, <1>3
    <2> HIDE DEF q
    <2>2. AttemptsTakeTime(q)
      <3>1. r.attempt \in Nat /\ r.elapsed \in Nat
        BY DEF RetryEntry
      <3>2. ASSUME r.phase = "checking"
            PROVE  r.attempt * POLL_INTERVAL <= r.elapsed + 1
        BY <1>3, <3>1, <3>2, RetryAssumption DEF EntryInv, AttemptsTakeTime
      <3> QED BY <1>3, <2>1, <3>2 DEF EntryInv, AttemptsTakeTime
    <2>3. EntryInv(q)
      BY <1>3, <2>1, <2>2 DEF EntryInv, NotificationOrder, GaveUpInTime
    <2> QED BY <2>3 DEF q
  <1>4. entry' = [e \in Entries |->
                    IF entry[e].phase # "unused" /\ entry[e].elapsed < Horizon
                    THEN Older(entry[e]) ELSE entry[e]]
        /\ activeRetries' = activeRetries /\ cancelled' = cancelled
    BY DEF Tick, Older
  <1>5. ASSUME NEW e \in Entries
        PROVE  /\ entry'[e] \in RetryEntry
               /\ EntryInv(entry'[e])
               /\ entry'[e].paymentId = entry[e].paymentId
               /\ entry'[e].phase = entry[e].phase
               /\ entry'[e].resolved = entry[e].resolved
               /\ entry'[e].told = entry[e].told
    <2>1. entry[e] \in RetryEntry /\ EntryInv(entry[e])
      BY <1>1 DEF RetryInv, EntriesInv
    <2>2. CASE entry[e].phase # "unused" /\ entry[e].elapsed < Horizon
      <3>1. entry'[e] = Older(entry[e])
        BY <1>4, <2>2
      <3> QED BY <1>2, <1>3, <2>1, <2>2, <3>1
    <2>3. CASE ~(entry[e].phase # "unused" /\ entry[e].elapsed < Horizon)
      <3>1. entry'[e] = entry[e]
        BY <1>4, <2>3
      <3> QED BY <2>1, <3>1
    <2> QED BY <2>2, <2>3
  <1>6. entry' \in [Entries -> RetryEntry]
    BY <1>4, <1>5
  <1>7. TypeOK'
    BY <1>4, <1>6 DEF RetryInv, TypeOK
  <1>8. EntriesInv'
    BY <1>5 DEF EntriesInv
  <1>9. ActiveEntryIsPolled'
    <2> SUFFICES ASSUME NEW p \in Payments, activeRetries[p] # NoEntry
                 PROVE  LET r == entry'[activeRetries[p]]
                        IN  /\ r.paymentId = p
                            /\ ~r.resolved
                            /\ r.told = <<>>
                            /\ r.phase \in {"timer", "checking"}
      BY <1>4 DEF ActiveEntryIsPolled
    <2>1. activeRetries[p] \in Entries
      BY DEF RetryInv, TypeOK
    <2> QED BY <1>5, <2>1 DEF RetryInv, ActiveEntryIsPolled
  <1> QED BY <1>7, <1>8, <1>9 DEF RetryInv

\* Every step of the state machine preserves the invariant.
LEMMA NextInv == RetryInv /\ [Next]_vars => RetryInv'
  <1> SUFFICES ASSUME RetryInv, [Next]_vars PROVE RetryInv'
    OBVIOUS
  <1>1. CASE \E p \in Payments, e \in Entries : startBankRetry(p, e)
    BY <1>1, StartInv
  <1>2. CASE \E e \in Entries : TimerFires(e)
    BY <1>2, TimerInv
  <1>3. CASE \E e \in Entries, answer \in BankAnswers : CheckSettles(e, answer)
    BY <1>3, CheckInv
  <1>4. CASE \E p \in Payments, state \in FinalStates : forceResolve(p, state)
    BY <1>4, OperatorForceInv
  <1>5. CASE cancelAllRetries
    BY <1>5, CancelInv
  <1>6. CASE Tick
    BY <1>6, TickInv
  <1>7. CASE UNCHANGED vars
    BY <1>7 DEF vars, RetryInv, TypeOK, EntriesInv, ActiveEntryIsPolled
  <1> QED BY <1>1, <1>2, <1>3, <1>4, <1>5, <1>6, <1>7 DEF Next

\* The invariant holds in every reachable state of the bank retry state machine.
THEOREM RetryInvariant == Spec => []RetryInv
  BY InitInv, NextInv, PTL DEF Spec

-----------------------------------------------------------------------------
(* The properties *)

(***************************************************************************)
(* Every reachable state of bank-retry.ts is well typed, due times and     *)
(* elapsed times within the horizon included.                              *)
(***************************************************************************)
THEOREM TypeCorrect == Spec => []TypeOK
  <1>1. RetryInv => TypeOK
    BY DEF RetryInv
  <1> QED BY <1>1, RetryInvariant, PTL

(***************************************************************************)
(* An entry of activeRetries is unresolved and has a timer armed or a      *)
(* check in flight, whatever forceResolve, cancelAllRetries and restarts   *)
(* have done before.                                                       *)
(***************************************************************************)
THEOREM ActivePolled == Spec => []ActiveEntryIsPolled
  <1>1. RetryInv => ActiveEntryIsPolled
    BY DEF RetryInv
  <1> QED BY <1>1, RetryInvariant, PTL

(***************************************************************************)
(* schedulePoll never gives up before MAX_POLL_DURATION, for every         *)
(* interval and duration, divisible or not.                                *)
(***************************************************************************)
THEOREM NeverGivesUpEarly == Spec => []GivesUpOnlyAfterMaxDuration
  <1>1. RetryInv => GivesUpOnlyAfterMaxDuration
    BY DEF RetryInv, EntriesInv, EntryInv, GaveUpInTime, GivesUpOnlyAfterMaxDuration
  <1> QED BY <1>1, RetryInvariant, PTL

(***************************************************************************)
(* onResolved runs a second time only for a verdict that arrives after     *)
(* forceResolve, and never a third time.                                   *)
(***************************************************************************)
THEOREM AtMostTwoNotifications == Spec => []NotifiedTwiceOnlyAfterForce
  <1>1. RetryInv => NotifiedTwiceOnlyAfterForce
    BY DEF RetryInv, EntriesInv, EntryInv, NotificationOrder, NotifiedTwiceOnlyAfterForce
  <1> QED BY <1>1, RetryInvariant, PTL

\* Store of an entry that is unresolved, or that it leaves resolved and not polled.
LEMMA StoreKeepsResolved ==
    ASSUME TypeOK, NEW e \in Entries, NEW f \in Entries, NEW q, Store(f, q),
           entry[e].resolved,
           f = e => /\ q.resolved
                    /\ q.attempt = entry[e].attempt
                    /\ q.phase \in {entry[e].phase, "idle"}
    PROVE  StaysResolved(e)
  BY DEF Store, StaysResolved, TypeOK

\* A settled check of an entry that was resolved meanwhile ends its callback chain.
LEMMA LateCheckEndsChain ==
    ASSUME NEW r \in RetryEntry, r.resolved, NEW answer \in BankAnswers
    PROVE  LET q == afterCheck(r, answer)
           IN  q.resolved /\ q.attempt = r.attempt /\ q.phase = "idle"
  <1>1. ASSUME NEW state, NEW by
        PROVE  LET q == [Notify(r, state, by) EXCEPT !.phase = "idle"]
               IN  q.resolved /\ q.attempt = r.attempt /\ q.phase = "idle"
    BY DEF Notify, RetryEntry
  <1>2. LET q == schedulePoll(r)
        IN  q.resolved /\ q.attempt = r.attempt /\ q.phase = "idle"
    BY DEF schedulePoll, RetryEntry
  <1> QED BY <1>1, <1>2 DEF afterCheck

(***************************************************************************)
(* Once an entry is resolved, by a verdict, by giving up or by force, no   *)
(* step arms a timer for it or starts another check, also if a check was   *)
(* in flight at that moment.                                               *)
(***************************************************************************)
THEOREM NeverPolledAgain == Spec => ResolvedNeverPolledAgain
  <1>1. ASSUME RetryInv, [Next]_vars, NEW e \in Entries, entry[e].resolved
        PROVE  StaysResolved(e)
    <2>1. TypeOK /\ entry[e] \in RetryEntry /\ EntryInv(entry[e])
      BY <1>1 DEF RetryInv, TypeOK, EntriesInv
    <2>2. entry[e].phase \notin {"unused", "timer"}
      BY <1>1, <2>1 DEF EntryInv
    <2>3. CASE \E p \in Payments, f \in Entries : startBankRetry(p, f)
      <3>1. PICK p \in Payments, f \in Entries : startBankRetry(p, f)
        BY <2>3
      <3>2. entry'[e] = entry[e]
        BY <2>1, <2>2, <3>1 DEF startBankRetry, TypeOK
      <3> QED BY <1>1, <3>2 DEF StaysResolved
    <2>4. CASE \E f \in Entries : TimerFires(f)
      <3>1. PICK f \in Entries : TimerFires(f)
        BY <2>4
      <3>2. f # e
        BY <2>2, <3>1 DEF TimerFires
      <3> QED BY <1>1, <2>1, <3>1, <3>2, StoreKeepsResolved DEF TimerFires
    <2>5. CASE \E f \in Entries, answer \in BankAnswers : CheckSettles(f, answer)
      <3>1. PICK f \in Entries, answer \in BankAnswers : CheckSettles(f, answer)
        BY <2>5
      <3>2. f = e => LET q == afterCheck(entry[f], answer)
                     IN  q.resolved /\ q.attempt = entry[e].attempt /\ q.phase = "idle"
        BY <1>1, <2>1, LateCheckEndsChain
      <3> QED BY <1>1, <2>1, <3>1, <3>2, StoreKeepsResolved DEF CheckSettles
    <2>6. CASE \E p \in Payments, state \in FinalStates : forceResolve(p, state)
      <3>1. PICK p \in Payments, state \in FinalStates : forceResolve(p, state)
        BY <2>6
      <3>2. activeRetries[p] \in Entries /\ ~entry[activeRetries[p]].resolved
        BY <1>1, <3>1 DEF forceResolve, RetryInv, TypeOK, ActiveEntryIsPolled
      <3> QED BY <1>1, <2>1, <3>1, <3>2, StoreKeepsResolved DEF forceResolve
    <2>7. CASE cancelAllRetries
      <3>1. entry'[e] = clearTimer(entry[e]) \/ entry'[e] = entry[e]
        BY <2>7 DEF cancelAllRetries
      <3>2. LET q == clearTimer(entry[e])
            IN  q.resolved /\ q.attempt = entry[e].attempt /\ q.phase \in {entry[e].phase, "idle"}
        BY <1>1, <2>1 DEF clearTimer, RetryEntry
      <3> QED BY <1>1, <3>1, <3>2 DEF StaysResolved
    <2>8. CASE Tick
      <3>1. entry'[e] = [entry[e] EXCEPT !.elapsed = @ + 1] \/ entry'[e] = entry[e]
        BY <2>8 DEF Tick
      <3>2. LET q == [entry[e] EXCEPT !.elapsed = @ + 1]
            IN  q.resolved /\ q.attempt = entry[e].attempt /\ q.phase = entry[e].phase
        BY <1>1, <2>1 DEF RetryEntry
      <3> QED BY <1>1, <3>1, <3>2 DEF StaysResolved
    <2>9. CASE UNCHANGED vars
      BY <1>1, <2>9 DEF StaysResolved, vars
    <2> QED BY <1>1, <2>3, <2>4, <2>5, <2>6, <2>7, <2>8, <2>9 DEF Next
  <1>2. RetryInv /\ [Next]_vars =>
          [\A e \in Entries : entry[e].resolved => StaysResolved(e)]_vars
    BY <1>1
  <1> QED BY <1>2, RetryInvariant, PTL DEF Spec, ResolvedNeverPolledAgain

-----------------------------------------------------------------------------
(* The entries that are polled and not in the map *)

Polling(r) == ~r.resolved /\ r.phase \in {"timer", "checking"}

\* Entry f, of the same payment, came to its verdict too late and deleted e from the map.
LateVerdict(f, e) ==
    /\ entry[f].paymentId = entry[e].paymentId
    /\ entry[f].told # <<>>
    /\ Len(entry[f].told) = 2 \/ f \in cancelled

Excused(e) == e \in cancelled \/ \E f \in Entries \ {e} : LateVerdict(f, e)

(***************************************************************************)
(* One entry changes, from r to q.  What it told it has told, and if it    *)
(* tells more then it is no longer polled, and either it tells the second  *)
(* time or it was polled until then.                                       *)
(***************************************************************************)
Advances(r, q) ==
    /\ q.paymentId = r.paymentId
    /\ Polling(q) => Polling(r)
    /\ r.told # <<>> => q.told # <<>>
    /\ Len(r.told) = 2 => Len(q.told) = 2
    /\ Len(q.told) > Len(r.told) =>
          /\ q.told # <<>>
          /\ ~Polling(q)
          /\ Len(q.told) = 2 \/ Polling(r)

\* An entry that is polled has told nobody, so it cannot be the one with the verdict.
LEMMA PollingToldNobody ==
    ASSUME RetryInv, NEW e \in Entries, Polling(entry[e])
    PROVE  entry[e].told = <<>>
  BY DEF RetryInv, EntriesInv, EntryInv, NotificationOrder, Polling

\* The step of one entry: if it deletes another from the map then it is, or it knows,
\* the late verdict that excuses the other.
LEMMA StoreExcuses ==
    ASSUME RetryInv, OrphanOnlyAfterLateVerdict, NEW e \in Entries, NEW q, Store(e, q),
           Advances(entry[e], q)
    PROVE  OrphanOnlyAfterLateVerdict'
  <1>1. /\ entry \in [Entries -> RetryEntry] /\ cancelled' = cancelled
        /\ activeRetries \in [Payments -> Entries \cup {NoEntry}]
        /\ entry'[e] = q /\ \A f \in Entries \ {e} : entry'[f] = entry[f]
    BY DEF RetryInv, TypeOK, Store
  <1>2. ASSUME NEW g \in Entries, Polling(entry[g])
        PROVE  activeRetries[entry[g].paymentId] = g \/ Excused(g)
    BY <1>2 DEF OrphanOnlyAfterLateVerdict, Polling, Excused, LateVerdict
  <1>3. ASSUME NEW f \in Entries, NEW g \in Entries, LateVerdict(f, g)
        PROVE  LateVerdict(f, g)'
    <2>1. entry'[g].paymentId = entry[g].paymentId BY <1>1 DEF Advances
    <2>2. entry'[f].paymentId = entry[f].paymentId BY <1>1 DEF Advances
    <2>3. /\ entry'[f].told # <<>>
          /\ Len(entry[f].told) = 2 => Len(entry'[f].told) = 2
      BY <1>1, <1>3 DEF LateVerdict, Advances
    <2> QED BY <1>1, <1>3, <2>1, <2>2, <2>3 DEF LateVerdict
  <1>4. ASSUME NEW g \in Entries, Polling(entry'[g])
        PROVE  activeRetries'[entry'[g].paymentId] = g \/ Excused(g)'
    <2>1. Polling(entry[g]) /\ entry'[g].paymentId = entry[g].paymentId
      BY <1>1, <1>4 DEF Advances
    <2>2. CASE Excused(g)
      BY <1>1, <1>3, <2>2 DEF Excused
    <2>3. CASE activeRetries[entry[g].paymentId] = g /\ activeRetries'[entry[g].paymentId] # g
      <3>1. /\ Len(q.told) > Len(entry[e].told)
            /\ activeRetries' = [activeRetries EXCEPT ![q.paymentId] = NoEntry]
        BY <2>3 DEF Store
      <3>2. q.paymentId = entry[g].paymentId
        BY <1>1, <2>3, <3>1
      <3>3. entry[e].paymentId = entry[g].paymentId /\ g # e
        BY <1>1, <1>4, <3>1, <3>2 DEF Advances
      <3>4. q.told # <<>> /\ (Len(q.told) = 2 \/ Polling(entry[e]))
        BY <3>1 DEF Advances
      <3>5. CASE Len(q.told) = 2 \/ e \in cancelled
        <4>1. LateVerdict(e, g)'
          BY <1>1, <2>1, <3>2, <3>4, <3>5 DEF LateVerdict
        <4> QED BY <3>3, <4>1 DEF Excused
      <3>6. CASE Polling(entry[e]) /\ e \notin cancelled
        <4>1. activeRetries[entry[e].paymentId] # e
          BY <2>3, <3>3
        <4>2. PICK f \in Entries \ {e} : LateVerdict(f, e)
          BY <1>2, <3>6, <4>1 DEF Excused
        <4>3. f # g
          BY <2>1, <4>2, PollingToldNobody DEF LateVerdict
        <4>4. LateVerdict(f, g)
          BY <3>3, <4>2 DEF LateVerdict
        <4> QED BY <1>3, <4>3, <4>4 DEF Excused
      <3> QED BY <3>4, <3>5, <3>6
    <2> QED BY <1>2, <2>1, <2>2, <2>3
  <1> QED BY <1>4 DEF OrphanOnlyAfterLateVerdict, Polling, Excused, LateVerdict

\* A settled check: an entry that was forced meanwhile tells for the second time.
LEMMA CheckAdvances ==
    ASSUME NEW r \in RetryEntry, EntryInv(r), r.phase = "checking", NEW answer \in BankAnswers
    PROVE  Advances(r, afterCheck(r, answer))
  <1> DEFINE q == afterCheck(r, answer)
             k == Len(r.told)
             m == Len(q.told)
  <1>1. q \in RetryEntry /\ EntryInv(q) /\ q.paymentId = r.paymentId
    BY afterCheckType, afterCheckInv, afterCheckKeepsPolling
  <1>2. r.told \in Seq(Notifications) /\ q.told \in Seq(Notifications)
    BY <1>1 DEF RetryEntry
  <1>3. /\ r.resolved <=> r.told # <<>>
        /\ q.resolved <=> q.told # <<>>
    BY <1>1 DEF EntryInv, NotificationOrder
  <1>4. /\ r.told # <<>> <=> k # 0
        /\ q.told # <<>> <=> m # 0
        /\ k \in Nat /\ m \in Nat
    BY <1>2
  <1>5. k \in {0, 1}
    <2>1. k <= 2 /\ k # 2
      BY DEF EntryInv, NotificationOrder
    <2> HIDE DEF k
    <2> QED BY <1>4, <2>1
  <1> SUFFICES Advances(r, q)
    OBVIOUS
  <1>6. CASE ~r.resolved /\ ~(m > k)
    <2>1. ~q.resolved /\ q.told = r.told /\ q.phase = "timer"
      BY <1>6, afterCheckKeepsPolling
    <2> HIDE DEF q
    <2>2. Polling(r)
      BY <1>6 DEF Polling
    <2> QED BY <1>1, <1>6, <2>1, <2>2 DEF Advances
  <1>7. CASE r.resolved
    <2>1. q.resolved
      BY <1>7, LateCheckEndsChain
    <2>2. q.told = r.told \/ \E n \in Notifications : q.told = Append(r.told, n)
      <3>1. ASSUME NEW state \in FinalStates
            PROVE  LET v == [Notify(r, state, "poll") EXCEPT !.phase = "idle"]
                   IN  \E n \in Notifications : v.told = Append(r.told, n)
        <4>1. [state |-> state, by |-> "poll", at |-> r.elapsed] \in Notifications
          BY DEF RetryEntry, Notifications
        <4> QED BY <4>1, NotifyFields
      <3>2. schedulePoll(r).told = r.told
        BY <1>7 DEF schedulePoll, RetryEntry
      <3> QED BY <3>1, <3>2 DEF afterCheck, FinalStates
    <2>3. k = 1
      BY <1>3, <1>4, <1>5, <1>7
    <2> HIDE DEF q, k, m
    <2>4. ~Polling(q)
      BY <2>1 DEF Polling
    <2>5. m = k \/ m = 2
      <3>1. CASE q.told = r.told
        BY <3>1 DEF k, m
      <3>2. CASE \E n \in Notifications : q.told = Append(r.told, n)
        <4>1. m = Len(r.told) + 1
          BY <1>2, <3>2, AppendTold DEF m
        <4> QED BY <2>3, <4>1 DEF k
      <3> QED BY <2>2, <3>1, <3>2
    <2>6. q.told # <<>>
      BY <1>3, <2>1
    <2> QED BY <1>1, <2>3, <2>4, <2>5, <2>6 DEF Advances, k, m
  <1>8. CASE ~r.resolved /\ m > k
    <2> HIDE DEF q, k, m
    <2>1. m # 0
      BY <1>4, <1>8
    <2>2. q.resolved /\ q.told # <<>> /\ r.told = <<>>
      BY <1>3, <1>4, <1>8, <2>1
    <2>3. Polling(r) /\ ~Polling(q)
      BY <1>8, <2>2 DEF Polling
    <2>4. k # 2
      BY <1>5
    <2> QED BY <1>1, <2>2, <2>3, <2>4 DEF Advances, k
  <1> QED BY <1>6, <1>7, <1>8

\* A new entry is filed under its payment, which had none in the map.
LEMMA StartExcuses ==
    ASSUME RetryInv, RetryInv', OrphanOnlyAfterLateVerdict,
           NEW p \in Payments, NEW e \in Entries, startBankRetry(p, e)
    PROVE  OrphanOnlyAfterLateVerdict'
  <1> DEFINE q == schedulePoll(FreshEntry(p, "idle"))
  <1>1. /\ entry \in [Entries -> RetryEntry] /\ cancelled' = cancelled
        /\ activeRetries \in [Payments -> Entries \cup {NoEntry}]
        /\ activeRetries' = [activeRetries EXCEPT ![p] = e]
        /\ entry'[e] = q /\ \A f \in Entries \ {e} : entry'[f] = entry[f]
        /\ entry[e].phase = "unused"
    BY DEF RetryInv, TypeOK, startBankRetry
  <1>2. q.paymentId = p
    <2> DEFINE f == FreshEntry(p, "idle")
    <2>1. 0 \in 0..Horizon
      BY RetryAssumption DEF Horizon
    <2>2. f \in RetryEntry /\ f.paymentId = p /\ ~f.resolved
      BY <2>1 DEF FreshEntry, RetryEntry, Phases
    <2> HIDE DEF f
    <2>3. schedulePoll(f).paymentId = f.paymentId
      <3>1. [Notify(f, "MANUAL_REVIEW", "giveUp") EXCEPT !.phase = "idle"].paymentId = f.paymentId
        BY <2>2 DEF Notify, RetryEntry
      <3>2. [f EXCEPT !.attempt = f.attempt + 1, !.due = f.elapsed + POLL_INTERVAL,
                      !.phase = "timer"].paymentId = f.paymentId
        BY <2>2 DEF RetryEntry
      <3> QED BY <2>2, <3>1, <3>2 DEF schedulePoll
    <2> QED BY <2>2, <2>3 DEF f
  <1> HIDE DEF q
  <1>3. entry[e].told = <<>>
    BY <1>1 DEF RetryInv, EntriesInv, EntryInv, NotificationOrder
  <1>4. ASSUME NEW g \in Entries, Polling(entry'[g])
        PROVE  activeRetries'[entry'[g].paymentId] = g \/ Excused(g)'
    <2>1. CASE g = e
      BY <1>1, <1>2, <2>1
    <2>2. CASE g # e
      <3>1. entry'[g] = entry[g] /\ Polling(entry[g])
        BY <1>1, <1>4, <2>2
      <3>2. activeRetries[entry[g].paymentId] = g \/ Excused(g)
        BY <3>1 DEF OrphanOnlyAfterLateVerdict, Polling, Excused, LateVerdict
      <3>3. CASE Excused(g)
        <4>1. ASSUME NEW f \in Entries, LateVerdict(f, g)
              PROVE  LateVerdict(f, g)'
          <5>1. f # e
            BY <1>3, <4>1 DEF LateVerdict
          <5> QED BY <1>1, <3>1, <4>1, <5>1 DEF LateVerdict
        <4> QED BY <1>1, <3>3, <4>1 DEF Excused
      <3>4. CASE activeRetries[entry[g].paymentId] = g
        <4>1. activeRetries[p] = NoEntry
          BY DEF startBankRetry
        <4>2. entry[g].paymentId # p
          BY <3>4, <4>1, RetryAssumption
        <4> QED BY <1>1, <3>1, <3>4, <4>2
      <3> QED BY <3>2, <3>3, <3>4
    <2> QED BY <2>1, <2>2
  <1> QED BY <1>4 DEF OrphanOnlyAfterLateVerdict, Polling, Excused, LateVerdict

\* No step makes an orphan without an excuse.
LEMMA OrphanStep ==
    ASSUME RetryInv, RetryInv', OrphanOnlyAfterLateVerdict, [Next]_vars
    PROVE  OrphanOnlyAfterLateVerdict'
  <1>1. /\ entry \in [Entries -> RetryEntry] /\ \A e \in Entries : EntryInv(entry[e])
        /\ activeRetries \in [Payments -> Entries \cup {NoEntry}]
    BY DEF RetryInv, TypeOK, EntriesInv
  <1>2. CASE \E p \in Payments, e \in Entries : startBankRetry(p, e)
    BY <1>2, StartExcuses
  <1>3. CASE \E e \in Entries : TimerFires(e)
    <2>1. PICK e \in Entries : TimerFires(e)
      BY <1>3
    <2> DEFINE r == entry[e]
               q == [r EXCEPT !.phase = IF r.resolved THEN "idle" ELSE "checking"]
    <2>2. r \in RetryEntry /\ EntryInv(r) /\ r.phase = "timer" /\ Store(e, q)
      BY <1>1, <2>1 DEF TimerFires
    <2> HIDE DEF r
    <2>3. q.told = r.told /\ q.paymentId = r.paymentId /\ q.resolved = r.resolved
      BY <2>2 DEF RetryEntry
    <2>4. Len(r.told) \in Nat
      BY <2>2 DEF RetryEntry
    <2> HIDE DEF q
    <2>5. Advances(r, q)
      BY <2>2, <2>3, <2>4 DEF Advances, Polling
    <2> QED BY <2>2, <2>5, StoreExcuses DEF r
  <1>4. CASE \E e \in Entries, answer \in BankAnswers : CheckSettles(e, answer)
    <2>1. PICK e \in Entries, answer \in BankAnswers : CheckSettles(e, answer)
      BY <1>4
    <2>2. Advances(entry[e], afterCheck(entry[e], answer))
      BY <1>1, <2>1, CheckAdvances DEF CheckSettles
    <2> QED BY <2>1, <2>2, StoreExcuses DEF CheckSettles
  <1>5. CASE \E p \in Payments, state \in FinalStates : forceResolve(p, state)
    <2>1. PICK p \in Payments, state \in FinalStates : forceResolve(p, state)
      BY <1>5
    <2> DEFINE e == activeRetries[p]
               r == entry[e]
               q == Notify(clearTimer(r), state, "force")
    <2>2. e \in Entries /\ Store(e, q)
      BY <1>1, <2>1 DEF forceResolve
    <2>3. r \in RetryEntry /\ EntryInv(r) /\ ~r.resolved /\ r.told = <<>>
          /\ r.phase \in {"timer", "checking"}
      BY <1>1, <2>1, <2>2 DEF RetryInv, ActiveEntryIsPolled, forceResolve
    <2>4. q \in RetryEntry /\ EntryInv(q) /\ q.paymentId = r.paymentId /\ Len(q.told) > Len(r.told)
      BY <2>3, ForceInv
    <2>5. q.resolved
      BY <2>3 DEF Notify, clearTimer, RetryEntry
    <2> HIDE DEF q
    <2>6. q.told # <<>>
      BY <2>4, <2>5 DEF EntryInv, NotificationOrder
    <2>7. Len(r.told) # 2
      BY <2>3
    <2>8. Advances(r, q)
      BY <2>3, <2>4, <2>5, <2>6, <2>7 DEF Advances, Polling
    <2> HIDE DEF e
    <2> QED BY <2>2, <2>8, StoreExcuses
  <1>6. CASE cancelAllRetries
    <2>1. ASSUME NEW e \in Entries
          PROVE  /\ entry'[e].told = entry[e].told
                 /\ entry'[e].paymentId = entry[e].paymentId
                 /\ Polling(entry'[e]) => Polling(entry[e])
      <3>1. entry'[e] = clearTimer(entry[e]) \/ entry'[e] = entry[e]
        BY <1>6 DEF cancelAllRetries
      <3>2. CASE entry'[e] = clearTimer(entry[e])
        BY <1>1, <3>2 DEF clearTimer, RetryEntry, Polling
      <3> QED BY <3>1, <3>2
    <2>2. cancelled' = cancelled \cup Active
      BY <1>6 DEF cancelAllRetries
    <2>3. ASSUME NEW g \in Entries, Polling(entry'[g])
          PROVE  Excused(g)'
      <3>1. activeRetries[entry[g].paymentId] = g \/ Excused(g)
        BY <2>1, <2>3 DEF OrphanOnlyAfterLateVerdict, Polling, Excused, LateVerdict
      <3>2. CASE activeRetries[entry[g].paymentId] = g
        <4>1. entry[g].paymentId \in Payments
          BY <1>1, <2>1, <2>3 DEF EntryInv, Polling
        <4>2. g \in Active
          BY <3>2, <4>1, RetryAssumption DEF Active
        <4> QED BY <2>2, <4>2 DEF Excused
      <3>3. CASE Excused(g)
        BY <2>1, <2>2, <3>3 DEF Excused, LateVerdict
      <3> QED BY <3>1, <3>2, <3>3
    <2> QED BY <2>3 DEF OrphanOnlyAfterLateVerdict, Polling, Excused, LateVerdict
  <1>7. CASE Tick \/ UNCHANGED vars
    <2>1. ASSUME NEW e \in Entries
          PROVE  /\ entry'[e].told = entry[e].told /\ entry'[e].phase = entry[e].phase
                 /\ entry'[e].paymentId = entry[e].paymentId
                 /\ entry'[e].resolved = entry[e].resolved
      <3>1. entry'[e] = [entry[e] EXCEPT !.elapsed = @ + 1] \/ entry'[e] = entry[e]
        BY <1>7 DEF Tick, vars
      <3>2. CASE entry'[e] = [entry[e] EXCEPT !.elapsed = @ + 1]
        BY <1>1, <3>2 DEF RetryEntry
      <3> QED BY <3>1, <3>2
    <2>2. activeRetries' = activeRetries /\ cancelled' = cancelled
      BY <1>7 DEF Tick, vars
    <2> QED BY <2>1, <2>2 DEF OrphanOnlyAfterLateVerdict
  <1> QED BY <1>2, <1>3, <1>4, <1>5, <1>6, <1>7 DEF Next

(***************************************************************************)
(* isRetrying denies an entry that is still polled only if it was          *)
(* cancelled, or if an earlier entry of the same payment was forced or     *)
(* cancelled during a check and its verdict, arriving late, deleted the    *)
(* new entry from the map.                                                 *)
(***************************************************************************)
THEOREM OrphansAreExplained == Spec => []OrphanOnlyAfterLateVerdict
  <1>1. Init => OrphanOnlyAfterLateVerdict
    BY DEF Init, FreshEntry, OrphanOnlyAfterLateVerdict
  <1>2. RetryInv /\ RetryInv' /\ OrphanOnlyAfterLateVerdict /\ [Next]_vars
          => OrphanOnlyAfterLateVerdict'
    BY OrphanStep
  <1> QED BY <1>1, <1>2, RetryInvariant, PTL DEF Spec

=============================================================================
