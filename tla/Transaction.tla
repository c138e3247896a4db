----------------------------- MODULE Transaction -----------------------------
(***************************************************************************)
(* commerce.transaction (packages/commerce/src/transaction/index.ts): a    *)
(* user function runs steps through a handle, each step pushes a           *)
(* compensating action, and a throw runs them in reverse order.            *)
(*                                                                         *)
(* The function is arbitrary user code: it may start a charge without      *)
(* awaiting it (Promise.all), return or throw while it is in flight, and   *)
(* catch a rejected charge.  The payment provider is a module-level        *)
(* variable, read when a charge starts and again when it is refunded.      *)
(***************************************************************************)
EXTENDS Integers, Sequences, SequencesExt

CONSTANTS
    Charges,     \* calls of tx.payments.charge the function may make
    Licenses,    \* calls of tx.licenses.issue (or grant) it may make
    Providers,   \* payment adapters
    CanRefund,   \* those that implement the optional refund
    NoOp,        \* NoOpPaymentProvider: charge throws, no refund
    None

ASSUME TransactionAssumption ==
    /\ CanRefund \subseteq Providers
    /\ NoOp \notin Providers
    /\ Charges \cap Licenses = {}
    /\ None \notin Charges \cup Licenses

Steps == Charges \cup Licenses

\* ChargeResult.status
ChargeResults == {"SUCCEEDED", "FAILED", "PENDING_BANK_RECONCILIATION"}

TransactionStates ==
    {"PENDING", "COMMITTED", "ROLLED_BACK", "MANUAL_REVIEW", "PENDING_BANK_RECONCILIATION"}

VARIABLES
    _provider,    \* the configured adapter
    txState,      \* txState.value
    phase,        \* the function runs, compensations run, or the call has settled
    threw,        \* the function threw
    charge,       \* each charge: its status and the provider it was made with
    issued,       \* licenses issued
    stack,        \* CompensationStack.stack
    todo,         \* the part of runAll's reversed copy still to be run
    refunding,    \* the charge whose refund is awaited, or None
    registered,   \* history: Len(stack) when the function threw
    log           \* history: compensating actions run, in order

vars == <<_provider, txState, phase, threw, charge, issued, stack, todo, refunding,
          registered, log>>

Charge == [status : {"unused", "inFlight", "rejected"} \cup ChargeResults,
           by : Providers \cup {NoOp}]

\* "no-op" is a compensation that found nothing to undo or no refund method.
LogEntry == [step : Steps, by : Providers \cup {NoOp},
             result : {"no-op", "called", "refunded", "failed"}]

TypeOK ==
    /\ _provider \in Providers \cup {NoOp}
    /\ txState \in TransactionStates
    /\ phase \in {"running", "rollingBack", "settled"}
    /\ threw \in BOOLEAN
    /\ charge \in [Charges -> Charge]
    /\ issued \subseteq Licenses
    /\ stack \in Seq(Steps)
    /\ todo \in Seq(Steps)
    /\ refunding \in Charges \cup {None}
    /\ registered \in Nat
    /\ log \in Seq(LogEntry)

Init ==
    /\ _provider = NoOp
    /\ txState = "PENDING"
    /\ phase = "running"
    /\ threw = FALSE
    /\ charge = [c \in Charges |-> [status |-> "unused", by |-> NoOp]]
    /\ issued = {}
    /\ stack = <<>>
    /\ todo = <<>>
    /\ refunding = None
    /\ registered = 0
    /\ log = <<>>

-----------------------------------------------------------------------------
(* The provider, and the steps of the function *)

setPaymentProvider(p) ==
    /\ _provider' = p
    /\ UNCHANGED <<txState, phase, threw, charge, issued, stack, todo, refunding, registered, log>>

(***************************************************************************)
(* tx.payments.charge up to the await; the no-op provider rejects at once. *)
(* Nothing closes the handle: a branch of Promise.all that goes on after   *)
(* another has thrown may still start steps.                               *)
(***************************************************************************)
startCharge(c) ==
    /\ charge[c].status = "unused"
    /\ charge' = [charge EXCEPT ![c] =
                    [status |-> IF _provider = NoOp THEN "rejected" ELSE "inFlight",
                     by |-> _provider]]
    /\ UNCHANGED <<_provider, txState, phase, threw, issued, stack, todo, refunding,
                   registered, log>>

\* The provider answers, in whatever phase the transaction is by then.
chargeSettles(c, result) ==
    /\ charge[c].status = "inFlight"
    /\ charge' = [charge EXCEPT ![c].status = result]
    /\ txState' = IF result = "PENDING_BANK_RECONCILIATION" THEN result ELSE txState
    /\ stack' = Append(stack, c)
    /\ UNCHANGED <<_provider, phase, threw, issued, todo, refunding, registered, log>>

chargeRejects(c) ==
    /\ charge[c].status = "inFlight"
    /\ charge' = [charge EXCEPT ![c].status = "rejected"]
    /\ UNCHANGED <<_provider, txState, phase, threw, issued, stack, todo, refunding,
                   registered, log>>

\* tx.licenses.issue and its alias grant: no await before the push.
issue(l) ==
    /\ l \notin issued
    /\ issued' = issued \cup {l}
    /\ stack' = Append(stack, l)
    /\ UNCHANGED <<_provider, txState, phase, threw, charge, todo, refunding, registered, log>>

-----------------------------------------------------------------------------
(* The end of the function, and the rollback *)

fnReturns ==
    /\ phase = "running"
    /\ phase' = "settled"
    /\ txState' = IF txState = "PENDING_BANK_RECONCILIATION" THEN txState ELSE "COMMITTED"
    /\ UNCHANGED <<_provider, threw, charge, issued, stack, todo, refunding, registered, log>>

\* A plausible bug: the compensating actions run in the order they were pushed.
fnThrows_FirstToLast ==
    /\ phase = "running"
    /\ phase' = "rollingBack"
    /\ threw' = TRUE
    /\ todo' = stack
    /\ registered' = Len(stack)
    /\ UNCHANGED <<_provider, txState, charge, issued, stack, refunding, log>>

\* The catch block calls runAll, which copies and reverses the stack.
fnThrows ==
    /\ phase = "running"
    /\ phase' = "rollingBack"
    /\ threw' = TRUE
    /\ todo' = Reverse(stack)
    /\ registered' = Len(stack)
    /\ UNCHANGED <<_provider, txState, charge, issued, stack, refunding, log>>

\* A plausible bug: the compensation does not look at the status of the charge.
MustRefund_Always(s) == s \in Charges /\ _provider \in CanRefund

\* result.status === 'SUCCEEDED' && typeof _provider.refund === 'function'
MustRefund(s) ==
    /\ s \in Charges
    /\ charge[s].status = "SUCCEEDED"
    /\ _provider \in CanRefund

\* runAll takes the next action: it calls refund and awaits it, or has nothing to do.
compensate ==
    /\ phase = "rollingBack" /\ refunding = None /\ todo # <<>>
    /\ LET s == Head(todo)
       IN  /\ refunding' = IF MustRefund(s) THEN s ELSE None
           /\ log' = Append(log, [step |-> s, by |-> _provider,
                                  result |-> IF MustRefund(s) THEN "called" ELSE "no-op"])
    /\ todo' = Tail(todo)
    /\ UNCHANGED <<_provider, txState, phase, threw, charge, issued, stack, registered>>

refundResolves ==
    /\ refunding # None
    /\ refunding' = None
    /\ log' = [log EXCEPT ![Len(log)].result = "refunded"]
    /\ UNCHANGED <<_provider, txState, phase, threw, charge, issued, stack, todo, registered>>

\* A plausible bug: a failed refund is swallowed and the rollback goes on.
refundRejects_Swallowed ==
    /\ refunding # None
    /\ refunding' = None
    /\ log' = [log EXCEPT ![Len(log)].result = "failed"]
    /\ UNCHANGED <<_provider, txState, phase, threw, charge, issued, stack, todo, registered>>

\* The rejection leaves the loop of runAll: the remaining actions are not run.
refundRejects ==
    /\ refunding # None
    /\ refunding' = None
    /\ log' = [log EXCEPT ![Len(log)].result = "failed"]
    /\ txState' = "MANUAL_REVIEW"
    /\ phase' = "settled"
    /\ UNCHANGED <<_provider, threw, charge, issued, stack, todo, registered>>

\* A plausible bug: the loop is left only after an action has run.
rolledBack_NeedsWork ==
    /\ phase = "rollingBack" /\ refunding = None /\ todo = <<>> /\ log # <<>>
    /\ txState' = "ROLLED_BACK"
    /\ phase' = "settled"
    /\ UNCHANGED <<_provider, threw, charge, issued, stack, todo, refunding, registered, log>>

rolledBack ==
    /\ phase = "rollingBack" /\ refunding = None /\ todo = <<>>
    /\ txState' = "ROLLED_BACK"
    /\ phase' = "settled"
    /\ UNCHANGED <<_provider, threw, charge, issued, stack, todo, refunding, registered, log>>

Next ==
    \/ \E p \in Providers : setPaymentProvider(p)
    \/ \E c \in Charges : startCharge(c) \/ chargeRejects(c)
    \/ \E c \in Charges, result \in ChargeResults : chargeSettles(c, result)
    \/ \E l \in Licenses : issue(l)
    \/ fnReturns \/ fnThrows
    \/ compensate \/ refundResolves \/ refundRejects \/ rolledBack

Spec == Init /\ [][Next]_vars

(***************************************************************************)
(* Fairness: the event loop runs what is ready, and every promise of a     *)
(* provider settles.  The function itself owes nothing before it throws.   *)
(***************************************************************************)
Fairness ==
    /\ WF_vars(compensate)
    /\ WF_vars(refundResolves \/ refundRejects)
    /\ WF_vars(rolledBack)

FairSpec == Spec /\ Fairness

-----------------------------------------------------------------------------
(* Properties of every use *)

(***************************************************************************)
(* runAll: the compensating actions run are, in order, a prefix of the     *)
(* reversed stack as it was when the function threw; all of it unless a    *)
(* refund failed, and then nothing after the failure.  Charges that settle *)
(* during the rollback push on the stack and do not disturb this.          *)
(***************************************************************************)
CompensationsInReverse ==
    LET expected == Reverse(SubSeq(stack, 1, registered))
        failures == {i \in 1..Len(log) : log[i].result = "failed"}
    IN  /\ Len(log) <= Len(expected)
        /\ \A i \in 1..Len(log) : log[i].step = expected[i]
        /\ failures \subseteq {Len(log)}
        /\ threw /\ phase = "settled" /\ failures = {} => Len(log) = Len(expected)

(***************************************************************************)
(* The compensation refunds a charge at most once, only when the function  *)
(* threw, and never one that the provider did not report as SUCCEEDED.     *)
(***************************************************************************)
RefundsOnlySucceeded ==
    \A i \in 1..Len(log) : log[i].result # "no-op" =>
        /\ threw
        /\ charge[log[i].step].status = "SUCCEEDED"
        /\ \A j \in 1..Len(log) : log[j].step = log[i].step => i = j

RefundFailed == \E i \in 1..Len(log) : log[i].result = "failed"
InDoubt == \E c \in Charges : charge[c].status = "PENDING_BANK_RECONCILIATION"

(***************************************************************************)
(* What txState says once the call has settled, exactly.  Short of a       *)
(* charge in doubt at the bank it tells how the call ended: whether the    *)
(* function threw, and whether a refund then failed.  It is COMMITTED if   *)
(* and only if the function returned and no charge is in doubt, one that   *)
(* settles after the return included; and a charge in doubt shows, unless  *)
(* the end of a rollback has overwritten it.  It says nothing of charges   *)
(* that FAILED, were rejected or are in flight, although the documentation *)
(* explains COMMITTED as "all steps succeeded".                            *)
(***************************************************************************)
StateTellsHowItEnded ==
    phase = "settled" =>
        /\ ~InDoubt => txState = IF RefundFailed THEN "MANUAL_REVIEW"
                                 ELSE IF threw THEN "ROLLED_BACK" ELSE "COMMITTED"
        /\ InDoubt => txState \in IF threw THEN {"PENDING_BANK_RECONCILIATION",
                                                 IF RefundFailed THEN "MANUAL_REVIEW"
                                                 ELSE "ROLLED_BACK"}
                                  ELSE {"PENDING_BANK_RECONCILIATION"}
        /\ ~threw => log = <<>>

\* Once the function has thrown, the call settles.
ThrowSettles == threw ~> phase = "settled"

-----------------------------------------------------------------------------
(* What the states promise *)

Refunded(c, providers) ==
    \E i \in 1..Len(log) :
        log[i].step = c /\ log[i].result = "refunded" /\ log[i].by \in providers

(***************************************************************************)
(* ROLLED_BACK, the part that holds of every function: each charge that    *)
(* was on the stack when the function threw and had SUCCEEDED has been     *)
(* refunded, if the adapter configured at that moment can refund at all.   *)
(***************************************************************************)
RolledBackRefundsRegistered ==
    txState = "ROLLED_BACK" =>
        \A i \in 1..registered :
            stack[i] \in Charges /\ charge[stack[i]].status = "SUCCEEDED" =>
                \/ Refunded(stack[i], CanRefund)
                \/ \E k \in 1..Len(log) : log[k].step = stack[i] /\ log[k].by \notin CanRefund

(***************************************************************************)
(* The rollback refunds exactly what it should: every charge that was      *)
(* registered, and nothing else.                                           *)
(***************************************************************************)
RefundsAreExact == RefundsOnlySucceeded /\ RolledBackRefundsRegistered

(***************************************************************************)
(* txState is one of the code's states and tells how the call ended.  It   *)
(* is a local of the function, which neither returns nor logs it: what is  *)
(* stated is the value that a reader of the variable would find.           *)
(***************************************************************************)
FinalStateIsTrue == TypeOK /\ StateTellsHowItEnded

(***************************************************************************)
(* ROLLED_BACK: "failure, compensating actions completed".  Every charge   *)
(* that went through was refunded by the provider that took the money.     *)
(***************************************************************************)
RolledBackMeansRefunded ==
    txState = "ROLLED_BACK" =>
        \A c \in Charges : charge[c].status = "SUCCEEDED" => Refunded(c, {charge[c].by})

=============================================================================
