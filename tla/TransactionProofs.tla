--------------------------- MODULE TransactionProofs ---------------------------
(***************************************************************************)
(* Proofs about Transaction, for any number of charges, licenses and       *)
(* adapters, any order in which charges settle, and a provider that is     *)
(* exchanged at any moment.                                                *)
(***************************************************************************)
EXTENDS Transaction, TLAPS

-----------------------------------------------------------------------------
(***************************************************************************)
(* The inductive invariant.                                                *)
(*                                                                         *)
(* Phases: nothing is compensated before the function has thrown, and what *)
(* each phase says of the loop of runAll.                                  *)
(*                                                                         *)
(* Stacked: a step is on the stack once, and a charge only after its       *)
(* provider has answered, so that its status is final.                     *)
(*                                                                         *)
(* Unwinding: the log and what is still to do are the stack as it was when *)
(* the function threw, read backwards.                                     *)
(*                                                                         *)
(* Logged: what the log says of an action is true of the charge.           *)
(*                                                                         *)
(* StateMatches: txState and what happened to the charges.                 *)
(***************************************************************************)
Phases ==
    /\ phase = "running" => ~threw
    /\ phase = "rollingBack" => threw
    /\ ~threw => log = <<>> /\ todo = <<>> /\ registered = 0
    /\ refunding # None => phase = "rollingBack"

Stacked ==
    /\ \A i, j \in 1..Len(stack) : stack[i] = stack[j] => i = j
    /\ \A i \in 1..Len(stack) :
          /\ stack[i] \in Charges => charge[stack[i]].status \in ChargeResults
          /\ stack[i] \in Licenses => stack[i] \in issued

Unwinding ==
    /\ registered <= Len(stack)
    /\ Len(log) + Len(todo) = registered
    /\ \A i \in 1..Len(log) : log[i].step = stack[registered - i + 1]
    /\ \A i \in 1..Len(todo) : todo[i] = stack[registered - Len(log) - i + 1]

Logged ==
    /\ refunding # None =>
          log # <<>> /\ log[Len(log)].step = refunding /\ log[Len(log)].result = "called"
    /\ \A i \in 1..Len(log) :
          /\ log[i].result = "called" => i = Len(log) /\ refunding # None
          /\ log[i].result = "failed" => i = Len(log) /\ phase = "settled"
          /\ log[i].result # "no-op" =>
                /\ log[i].step \in Charges
                /\ charge[log[i].step].status = "SUCCEEDED"
                /\ log[i].by \in CanRefund
          /\ log[i].result = "no-op" /\ log[i].step \in Charges
             /\ charge[log[i].step].status = "SUCCEEDED" => log[i].by \notin CanRefund

StateMatches ==
    /\ phase # "settled" => txState \in {"PENDING", "PENDING_BANK_RECONCILIATION"}
    /\ phase = "settled" => txState # "PENDING"
    /\ phase = "settled" /\ threw /\ ~RefundFailed => todo = <<>>
    /\ InDoubt /\ phase # "settled" => txState = "PENDING_BANK_RECONCILIATION"
    /\ txState = "PENDING_BANK_RECONCILIATION" => InDoubt
    /\ txState = "MANUAL_REVIEW" => RefundFailed
    /\ RefundFailed => txState \in {"MANUAL_REVIEW", "PENDING_BANK_RECONCILIATION"}
    /\ txState = "COMMITTED" => ~threw /\ ~InDoubt
    /\ txState = "ROLLED_BACK" => threw

TxInv == TypeOK /\ Phases /\ Stacked /\ Unwinding /\ Logged /\ StateMatches

\* The entries of a sequence after Append, Tail, Reverse and SubSeq.
LEMMA Appended ==
    ASSUME NEW S, NEW s \in Seq(S), NEW e \in S
    PROVE  /\ Append(s, e) \in Seq(S)
           /\ Len(Append(s, e)) = Len(s) + 1
           /\ Append(s, e)[Len(s) + 1] = e
           /\ \A i \in 1..Len(s) : Append(s, e)[i] = s[i]
           /\ Append(s, e) # <<>>
           /\ Len(s) \in Nat
  OBVIOUS

LEMMA Tailed ==
    ASSUME NEW S, NEW s \in Seq(S), s # <<>>
    PROVE  /\ Head(s) = s[1] /\ Head(s) \in S
           /\ Tail(s) \in Seq(S)
           /\ Len(Tail(s)) = Len(s) - 1
           /\ \A i \in 1..Len(Tail(s)) : Tail(s)[i] = s[i + 1]
           /\ Len(s) \in Nat /\ Len(s) >= 1
  OBVIOUS

LEMMA Reversed ==
    ASSUME NEW S, NEW s \in Seq(S)
    PROVE  /\ Reverse(s) \in Seq(S)
           /\ Len(Reverse(s)) = Len(s)
           /\ \A i \in 1..Len(s) : Reverse(s)[i] = s[Len(s) - i + 1]
           /\ Len(s) \in Nat
  BY DEF Reverse

LEMMA Empty ==
    ASSUME NEW S, NEW s \in Seq(S)
    PROVE  s = <<>> <=> Len(s) = 0
  OBVIOUS

\* The facts about lengths that every step below uses.
LEMMA Lengths ==
    ASSUME TypeOK
    PROVE  /\ Len(stack) \in Nat /\ Len(log) \in Nat /\ Len(todo) \in Nat
           /\ registered \in Nat
           /\ stack = <<>> <=> Len(stack) = 0
           /\ log = <<>> <=> Len(log) = 0
           /\ todo = <<>> <=> Len(todo) = 0
  BY DEF TypeOK

-----------------------------------------------------------------------------
(* One lemma per action *)

LEMMA ProviderInv ==
    ASSUME TxInv, NEW p \in Providers, setPaymentProvider(p)
    PROVE  TxInv'
  <1> USE DEF TxInv, setPaymentProvider
  <1>1. TypeOK' BY DEF TypeOK
  <1>2. Phases' BY DEF Phases
  <1>3. Stacked' BY DEF Stacked
  <1>4. Unwinding' BY DEF Unwinding
  <1>5. Logged' BY DEF Logged
  <1>6. StateMatches' BY DEF StateMatches, RefundFailed, InDoubt
  <1>7. QED BY <1>1, <1>2, <1>3, <1>4, <1>5, <1>6

\* A charge on the stack or in the log has its final status: another that starts or is
\* rejected changes nothing of what is recorded.
LEMMA UnsettledInv ==
    ASSUME TxInv, NEW c \in Charges,
           charge[c].status \in {"unused", "inFlight"},
           charge' \in [Charges -> Charge],
           charge'[c].status \in {"inFlight", "rejected"},
           \A d \in Charges \ {c} : charge'[d] = charge[d],
           UNCHANGED <<_provider, txState, phase, threw, issued, stack, todo, refunding,
                       registered, log>>
    PROVE  TxInv'
  <1> USE DEF TxInv
  <1>1. TypeOK' BY DEF TypeOK
  <1>2. Phases' BY DEF Phases
  <1>3. Stacked' BY DEF Stacked, ChargeResults
  <1>4. Unwinding' BY DEF Unwinding
  <1>5. \A i \in 1..Len(log) :
           log[i].step \in Charges => log[i].step # c
    <2> SUFFICES ASSUME NEW i \in 1..Len(log), log[i].step = c PROVE FALSE
      OBVIOUS
    <2>1. /\ registered - i + 1 \in 1..Len(stack)
          /\ stack[registered - i + 1] = c
      <3>1. /\ registered \in Nat /\ Len(stack) \in Nat /\ Len(log) \in Nat /\ Len(todo) \in Nat
            /\ registered <= Len(stack) /\ Len(log) + Len(todo) = registered
        BY Lengths DEF Unwinding
      <3>2. stack[registered - i + 1] = c BY DEF Unwinding
      <3>3. registered - i + 1 \in 1..Len(stack) BY <3>1
      <3>4. QED BY <3>2, <3>3
    <2>2. QED BY <2>1 DEF Stacked, ChargeResults
  <1>6. Logged' BY <1>5 DEF Logged
  <1>7. InDoubt' <=> InDoubt BY DEF InDoubt
  <1>8. RefundFailed' <=> RefundFailed BY DEF RefundFailed
  <1>9. StateMatches' BY <1>7, <1>8 DEF StateMatches
  <1>10. QED BY <1>1, <1>2, <1>3, <1>4, <1>6, <1>9

LEMMA StartInv ==
    ASSUME TxInv, NEW c \in Charges, startCharge(c)
    PROVE  TxInv'
  <1>1. /\ charge' \in [Charges -> Charge]
        /\ charge'[c].status \in {"inFlight", "rejected"}
        /\ \A d \in Charges \ {c} : charge'[d] = charge[d]
    BY DEF TxInv, TypeOK, Charge, startCharge
  <1>2. QED BY <1>1, UnsettledInv DEF startCharge

LEMMA RejectsInv ==
    ASSUME TxInv, NEW c \in Charges, chargeRejects(c)
    PROVE  TxInv'
  <1>1. /\ charge' \in [Charges -> Charge]
        /\ charge'[c].status \in {"inFlight", "rejected"}
        /\ \A d \in Charges \ {c} : charge'[d] = charge[d]
    BY DEF TxInv, TypeOK, Charge, chargeRejects
  <1>2. QED BY <1>1, UnsettledInv DEF chargeRejects

\* A push during the rollback leaves the part of the stack that is unwound as it is.
LEMMA PushKeepsUnwinding ==
    ASSUME TypeOK, Unwinding, NEW e \in Steps, stack' = Append(stack, e),
           UNCHANGED <<log, todo, registered>>
    PROVE  Unwinding'
  <1>1. /\ Len(stack') = Len(stack) + 1
        /\ \A i \in 1..Len(stack) : stack'[i] = stack[i]
    BY Appended DEF TypeOK
  <1>2. ASSUME NEW i \in 1..Len(log) PROVE log[i].step = stack'[registered - i + 1]
    <2>1. registered - i + 1 \in 1..Len(stack) BY Lengths DEF Unwinding
    <2>2. QED BY <1>1, <2>1 DEF Unwinding
  <1>3. ASSUME NEW i \in 1..Len(todo) PROVE todo[i] = stack'[registered - Len(log) - i + 1]
    <2>1. registered - Len(log) - i + 1 \in 1..Len(stack) BY Lengths DEF Unwinding
    <2>2. QED BY <1>1, <2>1 DEF Unwinding
  <1>4. registered <= Len(stack') BY <1>1, Lengths DEF Unwinding
  <1>5. QED BY <1>2, <1>3, <1>4 DEF Unwinding

LEMMA PushKeepsStacked ==
    ASSUME TypeOK, Stacked, NEW e \in Steps, stack' = Append(stack, e),
           \A i \in 1..Len(stack) : stack[i] # e,
           \A i \in 1..Len(stack) : stack[i] \in Charges => charge'[stack[i]] = charge[stack[i]],
           issued \subseteq issued',
           e \in Charges => charge'[e].status \in ChargeResults,
           e \in Licenses => e \in issued'
    PROVE  Stacked'
  <1>1. /\ 1..Len(stack') = 1..Len(stack) \cup {Len(stack) + 1}
        /\ stack'[Len(stack) + 1] = e
        /\ \A i \in 1..Len(stack) : stack'[i] = stack[i]
    <2>1. Len(stack') = Len(stack) + 1 /\ Len(stack) \in Nat
      BY Appended DEF TypeOK
    <2>2. QED BY <2>1, Appended DEF TypeOK
  <1>2. ASSUME NEW i \in 1..Len(stack'), NEW j \in 1..Len(stack'), stack'[i] = stack'[j]
        PROVE  i = j
    <2>1. CASE i \in 1..Len(stack) /\ j \in 1..Len(stack) BY <1>1, <1>2, <2>1 DEF Stacked
    <2>2. CASE i = Len(stack) + 1 \/ j = Len(stack) + 1 BY <1>1, <1>2, <2>2
    <2>3. QED BY <1>1, <2>1, <2>2
  <1>3. ASSUME NEW i \in 1..Len(stack')
        PROVE  /\ stack'[i] \in Charges => charge'[stack'[i]].status \in ChargeResults
               /\ stack'[i] \in Licenses => stack'[i] \in issued'
    <2>1. CASE i \in 1..Len(stack) BY <1>1, <2>1 DEF Stacked
    <2>2. CASE i = Len(stack) + 1 BY <1>1, <2>2
    <2>3. QED BY <1>1, <2>1, <2>2
  <1>4. QED BY <1>2, <1>3 DEF Stacked

\* Whatever is logged is on the stack.
LEMMA LoggedIsStacked ==
    ASSUME TypeOK, Unwinding, NEW i \in 1..Len(log)
    PROVE  \E j \in 1..Len(stack) : log[i].step = stack[j]
  <1>1. registered - i + 1 \in 1..Len(stack) BY Lengths DEF Unwinding
  <1>2. QED BY <1>1 DEF Unwinding

LEMMA SettlesInv ==
    ASSUME TxInv, NEW c \in Charges, NEW result \in ChargeResults, chargeSettles(c, result)
    PROVE  TxInv'
  <1> USE DEF TxInv
  <1>1. /\ charge[c].status = "inFlight"
        /\ charge'[c].status = result
        /\ \A d \in Charges \ {c} : charge'[d] = charge[d]
        /\ stack' = Append(stack, c)
        /\ c \in Steps
        /\ UNCHANGED <<_provider, phase, threw, issued, todo, refunding, registered, log>>
        /\ txState' = IF result = "PENDING_BANK_RECONCILIATION" THEN result ELSE txState
    BY DEF TypeOK, Charge, chargeSettles, Steps
  <1>2. TypeOK'
    <2>1. stack' \in Seq(Steps) BY <1>1, Appended DEF TypeOK
    <2>2. charge' \in [Charges -> Charge] BY DEF TypeOK, Charge, chargeSettles
    <2>3. txState' \in TransactionStates BY <1>1 DEF TypeOK, TransactionStates
    <2>4. QED BY <1>1, <2>1, <2>2, <2>3 DEF TypeOK
  <1>3. Phases' BY <1>1 DEF Phases
  <1>4. \A i \in 1..Len(stack) : stack[i] # c
    BY <1>1 DEF Stacked, ChargeResults
  <1>5. Stacked'
    <2>1. c \notin Licenses BY TransactionAssumption
    <2>2. \A i \in 1..Len(stack) : stack[i] \in Charges => charge'[stack[i]] = charge[stack[i]]
      BY <1>1, <1>4
    <2>3. QED BY <1>1, <1>4, <2>1, <2>2, PushKeepsStacked
  <1>6. Unwinding' BY <1>1, PushKeepsUnwinding
  <1>7. \A i \in 1..Len(log) : log[i].step # c
    BY <1>4, LoggedIsStacked
  <1>8. Logged' BY <1>1, <1>7 DEF Logged
  <1>9. /\ RefundFailed' <=> RefundFailed
        /\ InDoubt' <=> (InDoubt \/ result = "PENDING_BANK_RECONCILIATION")
    BY <1>1 DEF RefundFailed, InDoubt
  <1>10. StateMatches' BY <1>1, <1>9 DEF StateMatches
  <1>11. QED BY <1>2, <1>3, <1>5, <1>6, <1>8, <1>10

LEMMA IssueInv ==
    ASSUME TxInv, NEW l \in Licenses, issue(l)
    PROVE  TxInv'
  <1> USE DEF TxInv
  <1>1. /\ l \notin issued /\ l \in Steps
        /\ issued' = issued \cup {l}
        /\ stack' = Append(stack, l)
        /\ UNCHANGED <<_provider, txState, phase, threw, charge, todo, refunding, registered, log>>
    BY DEF issue, Steps
  <1>2. TypeOK'
    <2>1. stack' \in Seq(Steps) BY <1>1, Appended DEF TypeOK
    <2>2. QED BY <1>1, <2>1 DEF TypeOK
  <1>3. Phases' BY <1>1 DEF Phases
  <1>4. Stacked'
    <2>1. l \notin Charges BY TransactionAssumption
    <2>2. \A i \in 1..Len(stack) : stack[i] # l BY <1>1 DEF Stacked
    <2>3. QED BY <1>1, <2>1, <2>2, PushKeepsStacked
  <1>5. Unwinding' BY <1>1, PushKeepsUnwinding
  <1>6. Logged' BY <1>1 DEF Logged
  <1>7. StateMatches' BY <1>1 DEF StateMatches, RefundFailed, InDoubt
  <1>8. QED BY <1>2, <1>3, <1>4, <1>5, <1>6, <1>7

LEMMA ReturnsInv ==
    ASSUME TxInv, fnReturns
    PROVE  TxInv'
  <1> USE DEF TxInv, fnReturns
  <1>1. TypeOK' BY DEF TypeOK, TransactionStates
  <1>2. Phases' BY DEF Phases
  <1>3. Stacked' BY DEF Stacked
  <1>4. Unwinding' BY DEF Unwinding
  <1>5. log = <<>> /\ ~threw BY DEF Phases
  <1>6. Logged' BY <1>5 DEF Logged, Phases
  <1>7. ~RefundFailed /\ ~RefundFailed' BY <1>5 DEF RefundFailed
  <1>8. InDoubt' <=> InDoubt BY DEF InDoubt
  <1>9. StateMatches' BY <1>5, <1>7, <1>8 DEF StateMatches
  <1>10. QED BY <1>1, <1>2, <1>3, <1>4, <1>6, <1>9

LEMMA ThrowsInv ==
    ASSUME TxInv, fnThrows
    PROVE  TxInv'
  <1> USE DEF TxInv
  <1>1. /\ phase = "running" /\ phase' = "rollingBack" /\ threw'
        /\ todo' = Reverse(stack)
        /\ registered' = Len(stack)
        /\ UNCHANGED <<_provider, txState, charge, issued, stack, refunding, log>>
        /\ log = <<>> /\ refunding = None
    BY DEF fnThrows, Phases
  <1>2. /\ todo' \in Seq(Steps)
        /\ Len(todo') = Len(stack)
        /\ \A i \in 1..Len(stack) : todo'[i] = stack[Len(stack) - i + 1]
    BY <1>1, Reversed DEF TypeOK
  <1>3. TypeOK' BY <1>1, <1>2, Lengths DEF TypeOK, fnThrows
  <1>4. Phases' BY <1>1 DEF Phases
  <1>5. Stacked' BY <1>1 DEF Stacked
  <1>6. Unwinding' BY <1>1, <1>2, Lengths DEF Unwinding
  <1>7. Logged' BY <1>1 DEF Logged
  <1>8. StateMatches' BY <1>1 DEF StateMatches, RefundFailed, InDoubt
  <1>9. QED BY <1>3, <1>4, <1>5, <1>6, <1>7, <1>8

\* One turn of the loop of runAll: the next action moves from todo to the log.
LEMMA CompensateInv ==
    ASSUME TxInv, compensate
    PROVE  TxInv'
  <1> USE DEF TxInv
  <1> DEFINE s == Head(todo)
             n == Len(log)
             e == [step |-> s, by |-> _provider,
                   result |-> IF MustRefund(s) THEN "called" ELSE "no-op"]
  <1>1. /\ phase = "rollingBack" /\ refunding = None /\ todo # <<>> /\ threw
        /\ refunding' = IF MustRefund(s) THEN s ELSE None
        /\ log' = Append(log, e)
        /\ todo' = Tail(todo)
        /\ UNCHANGED <<_provider, txState, phase, threw, charge, issued, stack, registered>>
    BY DEF compensate, Phases
  <1>2. /\ s = todo[1] /\ s \in Steps
        /\ todo' \in Seq(Steps)
        /\ Len(todo') = Len(todo) - 1
        /\ \A i \in 1..Len(todo') : todo'[i] = todo[i + 1]
        /\ Len(todo) \in Nat /\ Len(todo) >= 1
    BY <1>1, Tailed DEF TypeOK
  <1>3. e \in LogEntry BY <1>2 DEF TypeOK, LogEntry
  <1>4. /\ e.step = s /\ e.by = _provider
        /\ e.result = IF MustRefund(s) THEN "called" ELSE "no-op"
    OBVIOUS
  <1>5. MustRefund(s) => s \in Charges /\ charge[s].status = "SUCCEEDED" /\ _provider \in CanRefund
    BY DEF MustRefund
  <1>6. ~MustRefund(s) /\ s \in Charges /\ charge[s].status = "SUCCEEDED" => _provider \notin CanRefund
    BY DEF MustRefund
  <1> HIDE DEF e, s
  <1>7. /\ log' \in Seq(LogEntry)
        /\ Len(log') = n + 1
        /\ log'[n + 1] = e
        /\ \A i \in 1..n : log'[i] = log[i]
        /\ log' # <<>>
        /\ n \in Nat
    BY <1>1, <1>3, Appended DEF TypeOK
  <1>8. 1..Len(log') = 1..n \cup {n + 1} BY <1>7
  <1>9. TypeOK' BY <1>1, <1>2, <1>5, <1>7 DEF TypeOK
  <1>10. Phases' BY <1>1 DEF Phases
  <1>11. Stacked' BY <1>1 DEF Stacked
  <1>12. Unwinding'
    <2>1. Len(log') + Len(todo') = registered /\ registered <= Len(stack)
      BY <1>2, <1>7, Lengths DEF Unwinding
    <2>2. s = stack[registered - (n + 1) + 1]
      <3>1. todo[1] = stack[registered - Len(log) - 1 + 1] BY <1>2 DEF Unwinding
      <3>2. registered - Len(log) - 1 + 1 = registered - (n + 1) + 1 BY Lengths
      <3>3. QED BY <1>2, <3>1, <3>2
    <2>3. \A i \in 1..Len(log') : log'[i].step = stack[registered - i + 1]
      BY <1>4, <1>7, <1>8, <2>2 DEF Unwinding
    <2>4. ASSUME NEW i \in 1..Len(todo')
          PROVE  todo'[i] = stack[registered - Len(log') - i + 1]
      <3>1. i + 1 \in 1..Len(todo) /\ todo'[i] = todo[i + 1] BY <1>2
      <3>2. registered - Len(log) - (i + 1) + 1 = registered - Len(log') - i + 1
        BY <1>2, <1>7, Lengths
      <3>3. QED BY <3>1, <3>2 DEF Unwinding
    <2>5. QED BY <1>1, <2>1, <2>3, <2>4 DEF Unwinding
  <1>13. \A i \in 1..n : log[i].result # "called" /\ log[i].result # "failed"
    BY <1>1 DEF Logged
  <1>14. e.result # "failed" BY <1>4
  <1>15. s # None BY <1>2, TransactionAssumption DEF Steps
  <1>16. Logged'
    <2>1. ASSUME NEW i \in 1..Len(log')
          PROVE  /\ log'[i].result = "called" => i = Len(log') /\ refunding' # None
                 /\ log'[i].result # "failed"
                 /\ log'[i].result # "no-op" =>
                       /\ log'[i].step \in Charges
                       /\ charge[log'[i].step].status = "SUCCEEDED"
                       /\ log'[i].by \in CanRefund
                 /\ log'[i].result = "no-op" /\ log'[i].step \in Charges
                    /\ charge[log'[i].step].status = "SUCCEEDED" => log'[i].by \notin CanRefund
      <3>1. CASE i \in 1..n
        <4>1. log'[i] = log[i] BY <1>7, <3>1
        <4>2. QED BY <1>13, <3>1, <4>1 DEF Logged
      <3>2. CASE i = n + 1
        <4>1. log'[i] = e /\ i = Len(log') BY <1>7, <3>2
        <4>2. QED BY <1>1, <1>4, <1>5, <1>6, <1>15, <4>1
      <3>3. QED BY <1>8, <3>1, <3>2
    <2>2. refunding' # None =>
            log' # <<>> /\ log'[Len(log')].step = refunding' /\ log'[Len(log')].result = "called"
      BY <1>1, <1>4, <1>7
    <2>3. QED BY <1>1, <2>1, <2>2 DEF Logged
  <1>17. ~RefundFailed /\ ~RefundFailed'
    BY <1>7, <1>8, <1>13, <1>14 DEF RefundFailed
  <1>18. InDoubt' <=> InDoubt BY <1>1 DEF InDoubt
  <1>19. StateMatches' BY <1>1, <1>17, <1>18 DEF StateMatches
  <1>20. QED BY <1>9, <1>10, <1>11, <1>12, <1>16, <1>19

\* The awaited refund has an answer: the last entry of the log gets its result.
LEMMA AnsweredLog ==
    ASSUME TxInv, refunding # None, NEW r \in {"refunded", "failed"},
           log' = [log EXCEPT ![Len(log)].result = r]
    PROVE  /\ log' \in Seq(LogEntry)
           /\ Len(log') = Len(log)
           /\ Len(log) \in 1..Len(log)
           /\ log'[Len(log)].result = r
           /\ log'[Len(log)].step = log[Len(log)].step
           /\ log'[Len(log)].by = log[Len(log)].by
           /\ \A i \in 1..Len(log) : i # Len(log) => log'[i] = log[i]
           /\ log[Len(log)].result = "called"
           /\ log' # <<>>
  <1>1. /\ log \in Seq(LogEntry) /\ log # <<>> /\ log[Len(log)].result = "called"
        /\ Len(log) \in Nat /\ Len(log) # 0
    BY Lengths DEF TxInv, TypeOK, Logged
  <1> DEFINE n == Len(log)
             last == [log[n] EXCEPT !.result = r]
  <1>2. n \in 1..n /\ log[n] \in LogEntry BY <1>1
  <1>3. /\ last \in LogEntry /\ last.result = r
        /\ last.step = log[n].step /\ last.by = log[n].by
    BY <1>2 DEF LogEntry
  <1>4. log' = [log EXCEPT ![n] = last] OBVIOUS
  <1> HIDE DEF last
  <1>5. /\ log' \in Seq(LogEntry) /\ Len(log') = n
        /\ log'[n] = last
        /\ \A i \in 1..n : i # n => log'[i] = log[i]
    BY <1>1, <1>2, <1>3, <1>4
  <1>6. log' # <<>> BY <1>1, <1>5
  <1>7. QED BY <1>1, <1>2, <1>3, <1>5, <1>6

LEMMA ResolvesInv ==
    ASSUME TxInv, refundResolves
    PROVE  TxInv'
  <1> USE DEF TxInv
  <1> DEFINE n == Len(log)
  <1>1. /\ refunding # None /\ refunding' = None /\ phase = "rollingBack"
        /\ UNCHANGED <<_provider, txState, phase, threw, charge, issued, stack, todo, registered>>
        /\ log' = [log EXCEPT ![n].result = "refunded"]
    BY DEF refundResolves, Phases
  <1>2. /\ log' \in Seq(LogEntry)
        /\ Len(log') = n
        /\ n \in 1..n
        /\ log'[n].result = "refunded"
        /\ log'[n].step = log[n].step
        /\ log'[n].by = log[n].by
        /\ \A i \in 1..n : i # n => log'[i] = log[i]
        /\ log[n].result = "called"
        /\ log' # <<>>
    BY <1>1, AnsweredLog
  <1>3. \A i \in 1..n : log'[i].step = log[i].step /\ log'[i].by = log[i].by
    BY <1>2
  <1>4. \A i \in 1..n : i # n => log[i].result # "called" /\ log[i].result # "failed"
    BY DEF Logged
  <1>5. TypeOK' BY <1>1, <1>2 DEF TypeOK
  <1>6. Phases' BY <1>1 DEF Phases
  <1>7. Stacked' BY <1>1 DEF Stacked
  <1>8. Unwinding' BY <1>1, <1>2, <1>3 DEF Unwinding
  <1>9. Logged' BY <1>1, <1>2, <1>3, <1>4 DEF Logged
  <1>10. ~RefundFailed /\ ~RefundFailed' BY <1>2, <1>4 DEF RefundFailed
  <1>11. InDoubt' <=> InDoubt BY <1>1 DEF InDoubt
  <1>12. StateMatches' BY <1>1, <1>10, <1>11 DEF StateMatches
  <1>13. QED BY <1>5, <1>6, <1>7, <1>8, <1>9, <1>12

LEMMA RefundRejectsInv ==
    ASSUME TxInv, refundRejects
    PROVE  TxInv'
  <1> USE DEF TxInv
  <1> DEFINE n == Len(log)
  <1>1. /\ refunding # None /\ refunding' = None /\ phase = "rollingBack" /\ threw
        /\ txState' = "MANUAL_REVIEW" /\ phase' = "settled"
        /\ UNCHANGED <<_provider, threw, charge, issued, stack, todo, registered>>
        /\ log' = [log EXCEPT ![n].result = "failed"]
    BY DEF refundRejects, Phases
  <1>2. /\ log' \in Seq(LogEntry)
        /\ Len(log') = n
        /\ n \in 1..n
        /\ log'[n].result = "failed"
        /\ log'[n].step = log[n].step
        /\ log'[n].by = log[n].by
        /\ \A i \in 1..n : i # n => log'[i] = log[i]
        /\ log[n].result = "called"
        /\ log' # <<>>
    BY <1>1, AnsweredLog
  <1>3. \A i \in 1..n : log'[i].step = log[i].step /\ log'[i].by = log[i].by
    BY <1>2
  <1>4. \A i \in 1..n : i # n => log[i].result # "called" /\ log[i].result # "failed"
    BY DEF Logged
  <1>5. TypeOK' BY <1>1, <1>2 DEF TypeOK, TransactionStates
  <1>6. Phases' BY <1>1 DEF Phases
  <1>7. Stacked' BY <1>1 DEF Stacked
  <1>8. Unwinding' BY <1>1, <1>2, <1>3 DEF Unwinding
  <1>9. Logged' BY <1>1, <1>2, <1>3, <1>4 DEF Logged
  <1>10. RefundFailed' BY <1>2 DEF RefundFailed
  <1>11. StateMatches' BY <1>1, <1>10 DEF StateMatches
  <1>12. QED BY <1>5, <1>6, <1>7, <1>8, <1>9, <1>11

LEMMA RolledBackInv ==
    ASSUME TxInv, rolledBack
    PROVE  TxInv'
  <1> USE DEF TxInv
  <1>1. /\ phase = "rollingBack" /\ refunding = None /\ todo = <<>> /\ threw
        /\ txState' = "ROLLED_BACK" /\ phase' = "settled"
        /\ UNCHANGED <<_provider, threw, charge, issued, stack, todo, refunding, registered, log>>
    BY DEF rolledBack, Phases
  <1>2. TypeOK' BY <1>1 DEF TypeOK, TransactionStates
  <1>3. Phases' BY <1>1 DEF Phases
  <1>4. Stacked' BY <1>1 DEF Stacked
  <1>5. Unwinding' BY <1>1 DEF Unwinding
  <1>6. Logged' BY <1>1 DEF Logged
  <1>7. ~RefundFailed /\ ~RefundFailed' BY <1>1 DEF RefundFailed, Logged
  <1>8. StateMatches' BY <1>1, <1>7 DEF StateMatches
  <1>9. QED BY <1>2, <1>3, <1>4, <1>5, <1>6, <1>8

-----------------------------------------------------------------------------
(* The theorems *)

(***************************************************************************)
(* TxInv is an invariant of commerce.transaction.                          *)
(***************************************************************************)
THEOREM TransactionInvariant == Spec => []TxInv
  <1>1. Init => TxInv
    <2> SUFFICES ASSUME Init PROVE TxInv
      OBVIOUS
    <2>1. TypeOK
      <3>1. /\ <<>> \in Seq(Steps) /\ <<>> \in Seq(LogEntry)
            /\ charge \in [Charges -> Charge]
        BY DEF Init, Charge
      <3>2. QED BY <3>1 DEF Init, TypeOK, TransactionStates
    <2>2. Phases /\ Stacked /\ Unwinding /\ Logged
      BY DEF Init, Phases, Stacked, Unwinding, Logged
    <2>3. ~RefundFailed /\ ~InDoubt BY DEF Init, RefundFailed, InDoubt
    <2>4. StateMatches BY <2>3 DEF Init, StateMatches
    <2>5. QED BY <2>1, <2>2, <2>4 DEF TxInv
  <1>2. TxInv /\ [Next]_vars => TxInv'
    <2> SUFFICES ASSUME TxInv, [Next]_vars PROVE TxInv'
      OBVIOUS
    <2>1. CASE UNCHANGED vars
      BY <2>1 DEF vars, TxInv, TypeOK, Phases, Stacked, Unwinding, Logged, StateMatches, RefundFailed, InDoubt
    <2>2. QED
      BY <2>1, ProviderInv, StartInv, RejectsInv, SettlesInv, IssueInv, ReturnsInv, ThrowsInv,
         CompensateInv, ResolvesInv, RefundRejectsInv, RolledBackInv DEF Next
  <1>3. QED BY <1>1, <1>2, PTL DEF Spec

(***************************************************************************)
(* The compensating actions run in reverse order of the stack as it was    *)
(* when the function threw, all of them unless a refund fails, and none    *)
(* after that, whatever charges settle during the rollback.                *)
(***************************************************************************)
THEOREM RollbackInReverse == Spec => []CompensationsInReverse
  <1>1. ASSUME TxInv PROVE CompensationsInReverse
    <2> USE <1>1 DEF TxInv
    <2> DEFINE prefix == SubSeq(stack, 1, registered)
               expected == Reverse(prefix)
               failures == {i \in 1..Len(log) : log[i].result = "failed"}
    <2>1. /\ prefix \in Seq(Steps)
          /\ Len(prefix) = registered
          /\ \A i \in 1..registered : prefix[i] = stack[i]
      BY Lengths DEF TypeOK, Unwinding
    <2>2. /\ Len(expected) = registered
          /\ \A i \in 1..registered : expected[i] = stack[registered - i + 1]
      <3> HIDE DEF prefix
      <3>1. /\ Len(Reverse(prefix)) = Len(prefix)
            /\ \A i \in 1..Len(prefix) : Reverse(prefix)[i] = prefix[Len(prefix) - i + 1]
        BY <2>1, Reversed
      <3>2. \A i \in 1..registered : registered - i + 1 \in 1..registered BY Lengths
      <3>3. QED BY <2>1, <3>1, <3>2
    <2> HIDE DEF expected
    <2>3. Len(log) <= Len(expected) BY <2>2, Lengths DEF Unwinding
    <2>4. ASSUME NEW i \in 1..Len(log) PROVE log[i].step = expected[i]
      <3>1. i \in 1..registered BY Lengths DEF Unwinding
      <3>2. QED BY <2>2, <3>1 DEF Unwinding
    <2>5. failures \subseteq {Len(log)} BY DEF Logged
    <2>6. ASSUME threw, phase = "settled", failures = {} PROVE Len(log) = Len(expected)
      <3>1. ~RefundFailed BY <2>6 DEF RefundFailed
      <3>2. todo = <<>> BY <2>6, <3>1 DEF StateMatches
      <3>3. QED BY <2>2, <3>2, Lengths DEF Unwinding
    <2>7. QED BY <2>3, <2>4, <2>5, <2>6 DEF CompensationsInReverse, expected
  <1>2. QED BY <1>1, TransactionInvariant, PTL

(***************************************************************************)
(* The rollback refunds what it should and nothing else: only charges that *)
(* SUCCEEDED, each at most once and only after a throw; and ROLLED_BACK    *)
(* means that every such charge on the stack was refunded, unless the      *)
(* adapter of that moment cannot refund.                                   *)
(***************************************************************************)
THEOREM RollbackIsExact == Spec => []RefundsAreExact
  <1>1. ASSUME TxInv PROVE RefundsOnlySucceeded
    <2> USE <1>1 DEF TxInv
    <2>1. ASSUME NEW i \in 1..Len(log), NEW j \in 1..Len(log), log[j].step = log[i].step
          PROVE  i = j
      <3>1. /\ registered - i + 1 \in 1..Len(stack)
            /\ registered - j + 1 \in 1..Len(stack)
        <4>1. /\ registered \in Nat /\ Len(stack) \in Nat /\ Len(log) \in Nat /\ Len(todo) \in Nat
              /\ registered <= Len(stack) /\ Len(log) + Len(todo) = registered
          BY Lengths DEF Unwinding
        <4>2. QED BY <4>1
      <3>2. stack[registered - i + 1] = stack[registered - j + 1]
        BY <2>1 DEF Unwinding
      <3>3. registered - i + 1 = registered - j + 1 BY <3>1, <3>2 DEF Stacked
      <3>4. QED BY <3>3, Lengths
    <2>2. ASSUME NEW i \in 1..Len(log) PROVE threw
      BY Lengths DEF Phases
    <2>3. QED BY <2>1, <2>2 DEF RefundsOnlySucceeded, Logged
  <1>2. ASSUME TxInv PROVE RolledBackRefundsRegistered
    <2> USE <1>2 DEF TxInv
    <2> SUFFICES ASSUME txState = "ROLLED_BACK", NEW i \in 1..registered,
                        stack[i] \in Charges, charge[stack[i]].status = "SUCCEEDED"
                 PROVE  \/ Refunded(stack[i], CanRefund)
                        \/ \E k \in 1..Len(log) : log[k].step = stack[i] /\ log[k].by \notin CanRefund
      BY DEF RolledBackRefundsRegistered
    <2>1. threw /\ ~RefundFailed /\ phase = "settled" /\ todo = <<>> /\ refunding = None
      BY DEF StateMatches, Phases
    <2> DEFINE k == registered - i + 1
    <2>2. k \in 1..Len(log) /\ registered - k + 1 = i
      BY <2>1, Lengths DEF Unwinding
    <2> HIDE DEF k
    <2>3. log[k].step = stack[i] BY <2>2 DEF Unwinding
    <2>4. log[k].result \in {"no-op", "called", "refunded", "failed"}
      <3>1. log[k] \in LogEntry BY <2>2 DEF TypeOK
      <3>2. QED BY <3>1 DEF LogEntry
    <2>5. log[k].result # "called" BY <2>1, <2>2 DEF Logged
    <2>6. log[k].result # "failed" BY <2>1, <2>2 DEF RefundFailed
    <2>7. CASE log[k].result = "refunded"
      BY <2>2, <2>3, <2>7 DEF Logged, Refunded
    <2>8. CASE log[k].result = "no-op"
      BY <2>2, <2>3, <2>8 DEF Logged
    <2>9. QED BY <2>4, <2>5, <2>6, <2>7, <2>8
  <1>3. TxInv => RefundsAreExact BY <1>1, <1>2 DEF RefundsAreExact
  <1>4. QED BY <1>3, TransactionInvariant, PTL

(***************************************************************************)
(* Once the call has settled, txState tells how it ended: COMMITTED if and *)
(* only if the function returned and no charge is in doubt at the bank;    *)
(* after a throw MANUAL_REVIEW or ROLLED_BACK, as a refund failed or not;  *)
(* a charge in doubt shows, short of the rollback's end overwriting it.    *)
(***************************************************************************)
THEOREM FinalStateHolds == Spec => []FinalStateIsTrue
  <1>1. ASSUME TxInv PROVE FinalStateIsTrue
    <2> USE <1>1 DEF TxInv
    <2>1. ASSUME phase = "settled"
          PROVE  /\ ~InDoubt => txState = IF RefundFailed THEN "MANUAL_REVIEW"
                                          ELSE IF threw THEN "ROLLED_BACK" ELSE "COMMITTED"
                 /\ InDoubt => txState \in IF threw THEN {"PENDING_BANK_RECONCILIATION",
                                                          IF RefundFailed THEN "MANUAL_REVIEW"
                                                          ELSE "ROLLED_BACK"}
                                           ELSE {"PENDING_BANK_RECONCILIATION"}
                 /\ ~threw => log = <<>>
      <3>1. /\ ~threw => log = <<>>
            /\ txState \in TransactionStates \ {"PENDING"}
        BY <2>1 DEF Phases, TypeOK, StateMatches
      <3>2. RefundFailed => threw BY <3>1 DEF RefundFailed
      <3>3. QED BY <2>1, <3>1, <3>2 DEF StateMatches, TransactionStates
    <2>2. QED BY <2>1 DEF FinalStateIsTrue, StateTellsHowItEnded
  <1>2. QED BY <1>1, TransactionInvariant, PTL

=============================================================================
