------------------------------ MODULE BankRetry ------------------------------
(***************************************************************************)
(* The bank retry state machine of packages/commerce                       *)
(* (src/state-machine/bank-retry.ts).  A payment whose bank timed out is   *)
(* polled every POLL_INTERVAL until the bank gives a verdict, the polling  *)
(* budget is spent, or an operator forces a state.                         *)
(*                                                                         *)
(* The code runs on one event loop: a callback is atomic between awaits.   *)
(* The only await that matters is the one on checkStatus, so the life of   *)
(* a RetryEntry is a cycle timer -> checking -> timer, and every other     *)
(* operation may run while a check is in flight.                           *)
(***************************************************************************)
EXTENDS Integers, Sequences

CONSTANTS
    Payments,           \* payment ids
    Entries,            \* the RetryEntry objects startBankRetry may allocate
    NoEntry,            \* "no value" of the activeRetries map, and of paymentId
    POLL_INTERVAL,      \* in clock ticks
    MAX_POLL_DURATION   \* in clock ticks

ASSUME RetryAssumption ==
    /\ POLL_INTERVAL \in Nat \ {0}
    /\ MAX_POLL_DURATION \in Nat \ {0}
    /\ NoEntry \notin Entries
    /\ NoEntry \notin Payments

\* A plausible bug: Math.floor for Math.ceil.
MAX_POLL_ATTEMPTS_Floor == MAX_POLL_DURATION \div POLL_INTERVAL

\* Math.ceil(MAX_POLL_DURATION_MS / POLL_INTERVAL_MS)
MAX_POLL_ATTEMPTS == (MAX_POLL_DURATION + POLL_INTERVAL - 1) \div POLL_INTERVAL

(***************************************************************************)
(* No timer is armed once MAX_POLL_DURATION has elapsed, so nothing the    *)
(* code compares distinguishes two elapsed times beyond this horizon: the  *)
(* clock of an entry stops there.                                          *)
(***************************************************************************)
Horizon == MAX_POLL_DURATION + POLL_INTERVAL

\* BankStatus.status, and "error" for a rejected checkStatus or a throwing onPoll
BankAnswers == {"succeeded", "failed", "pending", "unknown", "error"}

FinalStates == {"COMMITTED", "ROLLED_BACK", "MANUAL_REVIEW"}

(***************************************************************************)
(* A call of the onResolved callback: the state it reports, which part of  *)
(* the code made it, and the time elapsed since startTime.                 *)
(***************************************************************************)
Notifications ==
    [state : FinalStates, by : {"poll", "giveUp", "force"}, at : 0..Horizon]

Phases == {"unused", "timer", "checking", "idle"}

(***************************************************************************)
(* A RetryEntry.  elapsed stands for Date.now() - startTime, due for the   *)
(* elapsed time at which the armed timer may fire, phase for the callback  *)
(* chain of the entry (timer armed, checkStatus awaited, or ended), told   *)
(* for the calls made so far of config.onResolved (a history).             *)
(***************************************************************************)
RetryEntry ==
    [ paymentId : Payments \cup {NoEntry},
      elapsed   : 0..Horizon,
      attempt   : Nat,
      due       : 0..Horizon,
      phase     : Phases,
      resolved  : BOOLEAN,
      told      : Seq(Notifications) ]

VARIABLES
    activeRetries,  \* the module-level Map paymentId -> RetryEntry
    entry,          \* the RetryEntry objects, reachable from the map or not
    cancelled       \* history: entries that were in the map at cancelAllRetries

vars == <<activeRetries, entry, cancelled>>

TypeOK ==
    /\ activeRetries \in [Payments -> Entries \cup {NoEntry}]
    /\ entry \in [Entries -> RetryEntry]
    /\ cancelled \subseteq Entries

FreshEntry(p, phase) ==
    [ paymentId |-> p, elapsed |-> 0, attempt |-> 0, due |-> 0,
      phase |-> phase, resolved |-> FALSE, told |-> <<>> ]

Init ==
    /\ activeRetries = [p \in Payments |-> NoEntry]
    /\ entry = [e \in Entries |-> FreshEntry(NoEntry, "unused")]
    /\ cancelled = {}

-----------------------------------------------------------------------------
(* The statements shared by the operations, as functions of the entry. *)

\* A plausible bug: resolved is not set before onResolved is called.
Notify_NotResolved(r, state, by) ==
    [r EXCEPT !.told = Append(@, [state |-> state, by |-> by, at |-> r.elapsed])]

\* entry.resolved = true; ...; onResolved(paymentId, state)
Notify(r, state, by) ==
    [r EXCEPT !.resolved = TRUE,
              !.told = Append(@, [state |-> state, by |-> by, at |-> r.elapsed])]

\* A plausible bug: the budget counts attempts and forgets the elapsed time.
BudgetSpent_AttemptsOnly(r) == r.attempt >= MAX_POLL_ATTEMPTS

BudgetSpent(r) ==
    \/ r.elapsed >= MAX_POLL_DURATION
    \/ r.attempt >= MAX_POLL_ATTEMPTS

\* A plausible bug: schedulePoll does not look at resolved.
schedulePoll_Unconditional(r) ==
    IF BudgetSpent(r)
    THEN [Notify(r, "MANUAL_REVIEW", "giveUp") EXCEPT !.phase = "idle"]
    ELSE [r EXCEPT !.attempt = @ + 1,
                   !.due = r.elapsed + POLL_INTERVAL,
                   !.phase = "timer"]

\* schedulePoll(entry), called when the entry has no timer and no check of its own
schedulePoll(r) ==
    IF r.resolved THEN [r EXCEPT !.phase = "idle"]
    ELSE IF BudgetSpent(r)
         THEN [Notify(r, "MANUAL_REVIEW", "giveUp") EXCEPT !.phase = "idle"]
         ELSE [r EXCEPT !.attempt = @ + 1,
                        !.due = r.elapsed + POLL_INTERVAL,
                        !.phase = "timer"]

\* clearTimeout(entry.timer): no effect on a timer that has already fired
clearTimer(r) ==
    [r EXCEPT !.phase = IF @ = "timer" THEN "idle" ELSE @]

\* A plausible bug: the catch block does not schedule the next poll.
afterCheck_ErrorEndsPolling(r, answer) ==
    CASE answer = "succeeded" ->
            [Notify(r, "COMMITTED", "poll") EXCEPT !.phase = "idle"]
      [] answer = "failed" ->
            [Notify(r, "ROLLED_BACK", "poll") EXCEPT !.phase = "idle"]
      [] answer = "error" -> [r EXCEPT !.phase = "idle"]
      [] OTHER -> schedulePoll(r)

(***************************************************************************)
(* The rest of the timer callback once checkStatus has settled.  resolved  *)
(* is not read again before the bank's verdict is applied.  A rejection of *)
(* the awaited onResolved ends in schedulePoll, which then returns at      *)
(* once because resolved is set.                                           *)
(***************************************************************************)
afterCheck(r, answer) ==
    CASE answer = "succeeded" ->
            [Notify(r, "COMMITTED", "poll") EXCEPT !.phase = "idle"]
      [] answer = "failed" ->
            [Notify(r, "ROLLED_BACK", "poll") EXCEPT !.phase = "idle"]
      [] OTHER -> schedulePoll(r)

\* A plausible bug: the entry is not deleted from the map.
Store_NoDelete(e, r) ==
    /\ entry' = [entry EXCEPT ![e] = r]
    /\ UNCHANGED <<activeRetries, cancelled>>

\* Every call of onResolved is preceded by activeRetries.delete(entry.paymentId)
Store(e, r) ==
    /\ entry' = [entry EXCEPT ![e] = r]
    /\ activeRetries' =
          IF Len(r.told) > Len(entry[e].told)
          THEN [activeRetries EXCEPT ![r.paymentId] = NoEntry]
          ELSE activeRetries
    /\ UNCHANGED cancelled

-----------------------------------------------------------------------------
(* Operations *)

\* A plausible bug: the "already retrying" check is missing.
startBankRetry_NoCheck(p, e) ==
    /\ entry[e].phase = "unused"
    /\ activeRetries' = [activeRetries EXCEPT ![p] = e]
    /\ entry' = [entry EXCEPT ![e] = schedulePoll(FreshEntry(p, "idle"))]
    /\ UNCHANGED cancelled

\* A call for a payment that is already in the map returns at once.
startBankRetry(p, e) ==
    /\ activeRetries[p] = NoEntry
    /\ entry[e].phase = "unused"
    /\ activeRetries' = [activeRetries EXCEPT ![p] = e]
    /\ entry' = [entry EXCEPT ![e] = schedulePoll(FreshEntry(p, "idle"))]
    /\ UNCHANGED cancelled

TimerFires(e) ==
    /\ entry[e].phase = "timer"
    /\ entry[e].elapsed >= entry[e].due
    /\ Store(e, [entry[e] EXCEPT !.phase = IF entry[e].resolved THEN "idle" ELSE "checking"])

CheckSettles(e, answer) ==
    /\ entry[e].phase = "checking"
    /\ Store(e, afterCheck(entry[e], answer))

forceResolve(p, state) ==
    /\ activeRetries[p] # NoEntry
    /\ LET e == activeRetries[p]
       IN  Store(e, Notify(clearTimer(entry[e]), state, "force"))

Active == {activeRetries[p] : p \in Payments} \ {NoEntry}

cancelAllRetries ==
    /\ Active # {}
    /\ entry' = [e \in Entries |-> IF e \in Active THEN clearTimer(entry[e]) ELSE entry[e]]
    /\ activeRetries' = [p \in Payments |-> NoEntry]
    /\ cancelled' = cancelled \cup Active

\* Time passes for every entry that has a startTime.
Tick ==
    /\ entry' = [e \in Entries |->
                   IF entry[e].phase # "unused" /\ entry[e].elapsed < Horizon
                   THEN [entry[e] EXCEPT !.elapsed = @ + 1]
                   ELSE entry[e]]
    /\ UNCHANGED <<activeRetries, cancelled>>

Next ==
    \/ \E p \in Payments, e \in Entries : startBankRetry(p, e)
    \/ \E e \in Entries : TimerFires(e)
    \/ \E e \in Entries, answer \in BankAnswers : CheckSettles(e, answer)
    \/ \E p \in Payments, state \in FinalStates : forceResolve(p, state)
    \/ cancelAllRetries
    \/ Tick

Spec == Init /\ [][Next]_vars

(***************************************************************************)
(* Fairness.  Time passes and the event loop runs a due timer.  That the   *)
(* bank's API call settles is an assumption on checkStatus, which the code *)
(* awaits with no timeout of its own.                                      *)
(***************************************************************************)
Fairness ==
    /\ WF_vars(Tick)
    /\ \A e \in Entries :
          /\ WF_vars(TimerFires(e))
          /\ WF_vars(\E answer \in BankAnswers : CheckSettles(e, answer))

FairSpec == Spec /\ Fairness

-----------------------------------------------------------------------------
(* Properties of every use of the module, operators included *)

(***************************************************************************)
(* What isRetrying reports is true: an entry in activeRetries belongs to   *)
(* the payment it is filed under, is unresolved, has told nobody, and has  *)
(* a timer armed or a check in flight.  Nothing in the map is stuck.       *)
(***************************************************************************)
ActiveEntryIsPolled ==
    \A p \in Payments : activeRetries[p] # NoEntry =>
        LET r == entry[activeRetries[p]]
        IN  /\ r.paymentId = p
            /\ ~r.resolved
            /\ r.told = <<>>
            /\ r.phase \in {"timer", "checking"}

(***************************************************************************)
(* schedulePoll gives up (MANUAL_REVIEW) no earlier than MAX_POLL_DURATION *)
(* after startTime: the attempt limit, a count, never ends the polling     *)
(* before the 24 hours the limit was computed from.                        *)
(***************************************************************************)
GivesUpOnlyAfterMaxDuration ==
    \A e \in Entries : \A i \in 1..Len(entry[e].told) :
        entry[e].told[i].by = "giveUp" => entry[e].told[i].at >= MAX_POLL_DURATION

(***************************************************************************)
(* onResolved runs at most twice for an entry, and twice only if           *)
(* forceResolve ran first and the verdict of a check that was in flight at *)
(* that moment came second.                                                *)
(***************************************************************************)
NotifiedTwiceOnlyAfterForce ==
    \A e \in Entries :
        LET told == entry[e].told
        IN  /\ Len(told) <= 2
            /\ Len(told) = 2 => told[1].by = "force" /\ told[2].by = "poll"

StaysResolved(e) ==
    /\ entry'[e].resolved
    /\ entry'[e].attempt = entry[e].attempt
    /\ entry'[e].phase \in {entry[e].phase, "idle"}

(***************************************************************************)
(* A resolved entry is never polled again: no step arms a timer for it or  *)
(* starts another check, whatever was in flight when it was resolved.      *)
(***************************************************************************)
ResolvedNeverPolledAgain ==
    [][\A e \in Entries : entry[e].resolved => StaysResolved(e)]_vars

(***************************************************************************)
(* What isRetrying denies is true too, but for one case: an unresolved     *)
(* entry whose callback chain runs is the one filed under its payment,     *)
(* unless it was cancelled, or the late verdict of an earlier entry of the *)
(* same payment, forced or cancelled while its check was in flight, has    *)
(* deleted it from the map.                                                *)
(***************************************************************************)
OrphanOnlyAfterLateVerdict ==
    \A e \in Entries :
        (~entry[e].resolved /\ entry[e].phase \in {"timer", "checking"}) =>
            \/ activeRetries[entry[e].paymentId] = e
            \/ e \in cancelled
            \/ \E f \in Entries \ {e} :
                  /\ entry[f].paymentId = entry[e].paymentId
                  /\ entry[f].told # <<>>
                  /\ Len(entry[f].told) = 2 \/ f \in cancelled

(***************************************************************************)
(* Every retry that is started ends with a call of onResolved unless it is *)
(* cancelled, however the bank answers, failing checks included, and also  *)
(* if it has been lost from the map.                                       *)
(***************************************************************************)
EveryRetryResolves ==
    \A e \in Entries :
        entry[e].phase # "unused" ~> entry[e].told # <<>> \/ e \in cancelled

=============================================================================
