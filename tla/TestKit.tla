------------------------------- MODULE TestKit -------------------------------
(***************************************************************************)
(* The test kit (packages/testing): the virtual clock, the mock gateway    *)
(* whose charges wait for a handler, the switches of mockPayments, the     *)
(* test ledger with its assertions, and the contexts of the test helpers.  *)
(*                                                                         *)
(* A test uses the clock and one of the other parts, which is chosen in    *)
(* KitInit.  Steps of a test run at any point between the start of a       *)
(* charge and the end of its handler.                                      *)
(***************************************************************************)
EXTENDS Identity, SequencesExt

CONSTANTS
    Charges,        \* calls of charge()
    Units,          \* unit -> its length, in ticks of the clock
    MaxTime,        \* bound on the clocks
    MaxRefunds,     \* bound on calls of refund()
    MaxResets,      \* bound on resets of the gateway
    MaxSetups,      \* bound on calls that set the gateway up
    MaxFailures,    \* bound on calls of failOn()
    MaxEntries      \* bound on the test ledger

\* A gateway's test reads two times of the clock; what is missing is no time, no entry and
\* no role.
ASSUME TestKitAssumption ==
    /\ MaxTime \in Nat \ {0} /\ MaxResets \in Nat
    /\ Units # <<>> /\ \A u \in DOMAIN Units : Units[u] \in Nat
    /\ NoValue \notin Int
    /\ NoValue \notin [tenantId : {"acme", "beta"}, timestamp : Int]
    /\ NoValue \notin {"owner", "admin", "viewer", "system", "anonymous"}

VARIABLES
    part,       \* what the test uses: "gateway", "payments" or "ledger"
    clock,      \* [real, offset, frozenAt, installed]
    gateway,    \* the fields of a MockGateway
    call,       \* the calls of charge(): [verdict, id, epoch, nth]
    waiting,    \* the calls that wait for the custom handler, oldest first
    setups,     \* calls that set the gateway up so far
    epoch,      \* resets of the gateway so far (history)
    payments,   \* the switches of mockPayments
    given,      \* the step failures handed out (history)
    ledger,     \* the test ledger
    rewound     \* the clock was set since the ledger was emptied (history)

clockVars == <<clock, rewound>>
gatewayVars == <<gateway, call, waiting, setups, epoch>>
paymentVars == <<payments, given>>
kitVars == <<part, clock, gateway, call, waiting, setups, epoch, payments, given, ledger, rewound>>

-----------------------------------------------------------------------------
(* The virtual clock: time-travel.ts *)

virtualNow == IF clock.frozenAt # NoValue THEN clock.frozenAt ELSE clock.real + clock.offset

DateNow == IF clock.installed THEN virtualNow ELSE clock.real

\* A duration is a pair <<amount, unit>>.
parseDuration(d) == IF d[2] \in DOMAIN Units THEN d[1] * Units[d[2]] ELSE Failure

Durations == {0, 1, 2} \X (DOMAIN Units \cup {"fortnight"})

SetClock(new, set) ==
    /\ clock' = new
    /\ rewound' = (rewound \/ set)
    /\ UNCHANGED <<part, gatewayVars, paymentVars, ledger>>

Tick == clock.real < MaxTime /\ SetClock([clock EXCEPT !.real = @ + 1], FALSE)

installVirtualClock == ~clock.installed /\ SetClock([clock EXCEPT !.installed = TRUE], TRUE)

restoreRealClock == SetClock([clock EXCEPT !.installed = FALSE, !.offset = 0, !.frozenAt = NoValue], TRUE)

\* A plausible bug: the offset is set instead of advanced.
advance_Sets(d) ==
    /\ parseDuration(d) # Failure
    /\ parseDuration(d) <= MaxTime
    /\ SetClock([clock EXCEPT !.offset = parseDuration(d)], FALSE)

\* An invalid duration throws.
advance(d) ==
    /\ parseDuration(d) # Failure
    /\ clock.offset + parseDuration(d) <= MaxTime
    /\ SetClock([clock EXCEPT !.offset = @ + parseDuration(d)], FALSE)

freeze(t) == SetClock([clock EXCEPT !.frozenAt = t, !.offset = t - clock.real], TRUE)

advanceFromFrozen(d) ==
    /\ clock.frozenAt # NoValue
    /\ parseDuration(d) # Failure
    /\ clock.frozenAt + parseDuration(d) <= MaxTime
    /\ SetClock([clock EXCEPT !.frozenAt = @ + parseDuration(d)], FALSE)

\* A gateway only reads the clock: a test of one sets it to any of two readings.
ClockStep ==
    \/ part = "gateway" /\ clock.installed /\ \E t \in 0..1 : freeze(t)
    \/ part = "gateway" /\ installVirtualClock
    \/ /\ part # "gateway"
       /\ \/ Tick \/ installVirtualClock \/ restoreRealClock
          \/ \E d \in Durations : advance(d) \/ advanceFromFrozen(d)
          \/ \E t \in 0..MaxTime : freeze(t)

-----------------------------------------------------------------------------
(* The mock gateway: mock-gateway.ts *)

\* The custom handler is that of failNextN, with the charges that it will fail still, or
\* one of the test's own.
NewGateway ==
    [ history |-> <<>>, nextResult |-> FALSE, nextError |-> FALSE, handler |-> "none",
      remaining |-> 0, failing |-> 0, begun |-> 0, charges |-> 0, refunds |-> 0, spied |-> FALSE, spyCalls |-> 0 ]

SetUp(new) ==
    /\ setups < MaxSetups
    /\ setups' = setups + 1
    /\ gateway' = new
    /\ UNCHANGED <<call, waiting, epoch>>

succeedNext == SetUp([gateway EXCEPT !.nextResult = TRUE])
failNext == SetUp([gateway EXCEPT !.nextError = TRUE])

\* begun counts the charges since, as history.
failNextN(n) == SetUp([gateway EXCEPT !.handler = "failNextN", !.remaining = n, !.failing = n, !.begun = 0])

overrideCharge == SetUp([gateway EXCEPT !.handler = "override"])

spyRefund == SetUp([gateway EXCEPT !.spied = TRUE, !.spyCalls = 0])

defaultChargeResult(g) == <<DateNow, g.charges>>

Entry(method, c) == [method |-> method, call |-> c, result |-> NoValue, error |-> FALSE]

Pushed(c) ==
    [gateway EXCEPT !.history = Append(@, Entry("charge", c)), !.charges = @ + 1, 
                    !.begun = IF gateway.handler = "failNextN" THEN @ + 1 ELSE 0]

Record(verdict, id, g) == [verdict |-> verdict, id |-> id, epoch |-> epoch, nth |-> g.begun]

StillFails(g) == g.remaining > 0

\* charge(params) up to its await, or to its end if there is no custom handler.  The
\* handler of failNextN has no await of its own: it runs here.
charge(c) ==
    LET g == Pushed(c)
        last == Len(g.history)
    IN  /\ call[c].verdict = "idle"
        /\ UNCHANGED <<setups, epoch>>
        /\ \/ /\ g.handler = "override"
              /\ gateway' = g
              /\ \E verdict \in {"resolves", "rejects"} :
                   call' = [call EXCEPT ![c] = Record(verdict, NoValue, g)]
              /\ waiting' = Append(waiting, c)
           \/ /\ g.handler = "failNextN"
              /\ IF StillFails(g)
                 THEN /\ gateway' = [g EXCEPT !.remaining = @ - 1]
                      /\ call' = [call EXCEPT ![c] = Record("failing", NoValue, g)]
                 ELSE /\ gateway' = g
                      /\ call' = [call EXCEPT ![c] = Record("succeeding", defaultChargeResult(g), g)]
              /\ waiting' = Append(waiting, c)
           \/ /\ g.handler = "none" /\ g.nextError
              /\ gateway' = [g EXCEPT !.nextError = FALSE, !.history[last].error = TRUE]
              /\ call' = [call EXCEPT ![c] = Record("error", NoValue, g)]
              /\ UNCHANGED waiting
           \/ /\ g.handler = "none" /\ ~g.nextError
              /\ gateway' = [g EXCEPT !.nextResult = FALSE, !.history[last].result = c]
              /\ call' = [call EXCEPT ![c] = Record("ok",
                            IF g.nextResult THEN NoValue ELSE defaultChargeResult(g), g)]
              /\ UNCHANGED waiting

\* The continuations of failNextN's handler run in the order of the calls.
InTurn(i) ==
    call[waiting[i]].verdict \in {"failing", "succeeding"} =>
        \A k \in 1..(i - 1) : call[waiting[k]].verdict \notin {"failing", "succeeding"}

\* A plausible bug: the result is filed under the first call.
ResultEntry_First(g) == 1

ResultEntry(g) == Len(g.history)

\* The handler of the i-th waiting call is done: its result is written to the last entry
\* of the history, whatever that is; without entries this throws.
Resume(i) ==
    LET c == waiting[i]
    IN  /\ InTurn(i)
        /\ waiting' = RemoveAt(waiting, i)
        /\ UNCHANGED <<setups, epoch>>
        /\ \/ /\ call[c].verdict \in {"rejects", "failing"}
              /\ call' = [call EXCEPT ![c].verdict = "error"]
              /\ UNCHANGED gateway
           \/ /\ call[c].verdict \in {"resolves", "succeeding"}
              /\ gateway.history = <<>>
              /\ call' = [call EXCEPT ![c].verdict = "lost"]
              /\ UNCHANGED gateway
           \/ /\ call[c].verdict \in {"resolves", "succeeding"}
              /\ gateway.history # <<>>
              /\ call' = [call EXCEPT ![c].verdict = "ok"]
              /\ gateway' = [gateway EXCEPT !.history[ResultEntry(gateway)].result = c]

refund ==
    /\ gateway.refunds < MaxRefunds
    /\ gateway' = [gateway EXCEPT !.history = Append(@, Entry("refund", NoValue)), !.refunds = @ + 1,
                                  !.spyCalls = IF gateway.spied THEN @ + 1 ELSE @]
    /\ UNCHANGED <<call, waiting, setups, epoch>>

\* reset(): the spy object keeps its calls, but is no longer called.
resetGateway ==
    /\ epoch < MaxResets
    /\ gateway' = NewGateway
    /\ epoch' = epoch + 1
    /\ UNCHANGED <<call, waiting, setups>>

GatewayStep ==
    /\ part = "gateway"
    /\ \/ succeedNext \/ failNext \/ overrideCharge \/ spyRefund \/ refund \/ resetGateway
       \/ \E n \in 0..2 : failNextN(n)
       \/ \E c \in Charges : charge(c)
       \/ \E i \in DOMAIN waiting : Resume(i)
    /\ UNCHANGED <<part, clockVars, paymentVars, ledger>>

-----------------------------------------------------------------------------
(* mockPayments: index.ts.  The consuming operations are for providers that tests       *)
(* write; none of the repository's packages calls them.                                 *)

NoSwitches == [nextFailure |-> FALSE, nextSuccess |-> FALSE, stepFailures |-> <<>>]

mockFailNext == payments' = [payments EXCEPT !.nextFailure = TRUE] /\ UNCHANGED given
mockSucceedNext == payments' = [payments EXCEPT !.nextSuccess = TRUE] /\ UNCHANGED given

\* The failures of a step are numbered in the order of failOn.
failOn(step) ==
    LET number == Len(given) + Len(payments.stepFailures)
    IN  /\ number < MaxFailures
        /\ payments' = [payments EXCEPT !.stepFailures = Append(@, [step |-> step, number |-> number])]
        /\ UNCHANGED given

consumeFailure == payments' = [payments EXCEPT !.nextFailure = FALSE] /\ UNCHANGED given
consumeSuccess == payments' = [payments EXCEPT !.nextSuccess = FALSE] /\ UNCHANGED given

FailureIndex(step) ==
    LET of == {i \in DOMAIN payments.stepFailures : payments.stepFailures[i].step = step}
    IN  IF of = {} THEN 0 ELSE Min(of)

getStepFailure(step) ==
    /\ FailureIndex(step) # 0
    /\ payments' = [payments EXCEPT !.stepFailures = RemoveAt(@, FailureIndex(step))]
    /\ given' = Append(given, payments.stepFailures[FailureIndex(step)])

PaymentStep ==
    /\ part = "payments"
    /\ \/ mockFailNext \/ mockSucceedNext \/ consumeFailure \/ consumeSuccess
       \/ \E step \in {"charge", "license"} : failOn(step) \/ getStepFailure(step)
    /\ UNCHANGED <<part, clockVars, gatewayVars, ledger>>

-----------------------------------------------------------------------------
(* The test ledger: index.ts, ledger-assert.ts *)

\* A plausible bug: one matching field is enough.
Matches_Any(entry, filter) == \E k \in DOMAIN filter : entry[k] = filter[k]

\* A filter is a record of some of the entry's fields.
Matches(entry, filter) == \A k \in DOMAIN filter : entry[k] = filter[k]

\* The entries at these places, in their order.
EntriesAt(entries, places) ==
    LET kept[n \in 0..Len(entries)] ==
          IF n = 0 THEN <<>>
          ELSE IF n \in places THEN Append(kept[n - 1], entries[n]) ELSE kept[n - 1]
    IN  kept[Len(entries)]

filterEntries(entries, filter) ==
    EntriesAt(entries, {i \in DOMAIN entries : Matches(entries[i], filter)})

\* Without a filter the filter is empty.
getLedgerEntries(filter) == filterEntries(ledger, filter)

getLastEntry(entries, filter) ==
    LET found == filterEntries(entries, filter)
    IN  IF found = <<>> THEN NoValue ELSE Last(found)

getEntriesInWindow(entries, start, end) ==
    EntriesAt(entries, {i \in DOMAIN entries :
                           entries[i].timestamp >= start /\ entries[i].timestamp <= end})

\* Each assertion is TRUE where the code returns and FALSE where it throws.
assertLedgerContains(entries, filter) == filterEntries(entries, filter) # <<>>
assertLedgerNotContains(entries, filter) == ~(Len(filterEntries(entries, filter)) > 0)
assertLedgerCount(entries, filter, n) == Len(filterEntries(entries, filter)) = n

assertLedgerChronological(entries) ==
    \A i \in 2..Len(entries) : entries[i].timestamp >= entries[i - 1].timestamp

assertSingleTenant(entries) ==
    \A i \in 2..Len(entries) : entries[i].tenantId = entries[1].tenantId

assertMultiTenant(entries, tenants) == tenants \subseteq {entries[i].tenantId : i \in DOMAIN entries}

Timestamps(entries) == {entries[i].timestamp : i \in DOMAIN entries}

assertEntriesSpanTime(entries, span) ==
    Len(entries) >= 2 /\ Max(Timestamps(entries)) - Min(Timestamps(entries)) >= span

assertTransactionPattern(entries, trace, outcome) ==
    LET actions == {entries[i].action : i \in {k \in DOMAIN entries : entries[k].traceId = trace}}
    IN  "TRANSACTION_PENDING" \in actions /\ outcome \in actions

\* The test records an entry at the time that Date.now() gives.
recordTestLedgerEntry(tenant) ==
    /\ Len(ledger) < MaxEntries
    /\ ledger' = Append(ledger, [tenantId |-> tenant, timestamp |-> DateNow])

LedgerStep ==
    /\ part = "ledger"
    /\ \E tenant \in {"acme", "beta"} : recordTestLedgerEntry(tenant)
    /\ UNCHANGED <<part, clockVars, gatewayVars, paymentVars>>

-----------------------------------------------------------------------------
(* Contexts: index.ts, tenant-context.ts *)

\* An option that is not given is NoValue.
createTenantStore(tenant, user, role, origin) ==
    [ tenantId |-> tenant, userId |-> user,
      role   |-> IF role = NoValue THEN "member" ELSE role,
      origin |-> IF origin = NoValue THEN "http" ELSE origin ]

withTenantContext(tenant, user, role) == createTenantStore(tenant, user, role, NoValue)
withContext(tenant, user, role) ==
    [ tenantId |-> tenant, userId |-> user,
      role |-> IF role = NoValue THEN "member" ELSE role, origin |-> "http" ]
withTenant(tenant) == withContext(tenant, NoValue, NoValue)

asOwner(tenant, user) == withTenantContext(tenant, user, "owner")
asAdmin(tenant, user) == withTenantContext(tenant, user, "admin")
asViewer(tenant, user) == withTenantContext(tenant, user, "viewer")
asSystemIdentity(tenant) == withTenantContext(tenant, NoValue, "system")
asAnonymous(tenant) == withTenantContext(tenant, NoValue, "anonymous")

-----------------------------------------------------------------------------
(* The specification *)

NewClock == [real |-> 0, offset |-> 0, frozenAt |-> NoValue, installed |-> FALSE]

KitInit ==
    /\ part \in {"gateway", "payments", "ledger"}
    /\ clock = NewClock
    /\ gateway = NewGateway
    /\ call = [c \in Charges |-> [verdict |-> "idle", id |-> NoValue, epoch |-> 0, nth |-> 0]]
    /\ waiting = <<>>
    /\ setups = 0
    /\ epoch = 0
    /\ payments = NoSwitches
    /\ given = <<>>
    /\ ledger = <<>>
    /\ rewound = FALSE

\* The test ledger, the clock and the switches; gateways that the test made and an
\* installed Date.now stay.  What it clears in other packages is modelled there.
resetTestState ==
    /\ ledger' = <<>>
    /\ rewound' = FALSE
    /\ clock' = [clock EXCEPT !.offset = 0, !.frozenAt = NoValue]
    /\ payments' = NoSwitches
    /\ given' = <<>>
    /\ UNCHANGED <<part, gatewayVars>>

KitNext == ClockStep \/ GatewayStep \/ PaymentStep \/ LedgerStep \/ resetTestState

KitSpec == KitInit /\ [][KitNext]_kitVars

Verdicts == {"idle", "resolves", "rejects", "failing", "succeeding", "ok", "error", "lost"}

KitTypeOK ==
    /\ clock.real \in 0..MaxTime /\ clock.installed \in BOOLEAN
    /\ clock.frozenAt \in 0..MaxTime \cup {NoValue}
    /\ gateway.remaining \in 0..gateway.failing
    /\ call \in [Charges -> [ verdict : Verdicts, id : (Int \X Nat) \cup {NoValue},
                              epoch : 0..MaxResets, nth : Nat ]]
    /\ \A i \in DOMAIN waiting :
         call[waiting[i]].verdict \in {"resolves", "rejects", "failing", "succeeding"}

-----------------------------------------------------------------------------
(* Properties *)

Count(method) == Cardinality({i \in DOMAIN gateway.history : gateway.history[i].method = method})

(***************************************************************************)
(* What the gateway reports of itself agrees: the counters are the entries *)
(* of the history, and a spy has not seen more refunds than there were,    *)
(* whichever calls and resets come between.                                *)
(***************************************************************************)
CountersMatchHistory ==
    /\ gateway.charges = Count("charge")
    /\ gateway.refunds = Count("refund")
    /\ gateway.spied => gateway.spyCalls <= gateway.refunds

(***************************************************************************)
(* A result stands at another call's entry only if that call came while    *)
(* the handler of the first was running, or the gateway was reset          *)
(* meanwhile; and a charge whose handler succeeded rejects all the same    *)
(* only after such a reset.  A test that awaits each charge reads the      *)
(* right history.                                                          *)
(***************************************************************************)
ResultsMisfiledOnlyByOverlap ==
    /\ \A i \in DOMAIN gateway.history :
         LET e == gateway.history[i]
         IN  e.result \notin {NoValue, e.call} =>
                 \/ call[e.result].epoch < epoch
                 \/ \E k \in 1..(i - 1) : gateway.history[k].call = e.result
    /\ \A c \in Charges : call[c].verdict = "lost" => call[c].epoch < epoch

(***************************************************************************)
(* Two payments of a gateway share their id only across a reset, which     *)
(* starts the numbers over, within one reading of the clock; a frozen      *)
(* clock alone does not make them collide.                                 *)
(***************************************************************************)
PaymentIdsAreDistinct ==
    \A c, d \in Charges :
        (c # d /\ call[c].id # NoValue /\ call[c].id = call[d].id) => call[c].epoch # call[d].epoch

(***************************************************************************)
(* After failNextN(n) exactly the first n charges fail, however they       *)
(* overlap, until the handler is replaced; one of no charges fails none.   *)
(***************************************************************************)
FirstNFail ==
    \A c \in Charges :
        (call[c].verdict = "idle" /\ call'[c].verdict \in {"failing", "succeeding"})
          => (call'[c].verdict = "failing" <=> call'[c].nth <= gateway.failing)

(***************************************************************************)
(* The clock that a test sees runs back only when it is set: by freeze, by *)
(* a reset, or by exchanging Date.now.  advance and advanceFromFrozen only *)
(* move it forward, in whatever order they are called.                     *)
(***************************************************************************)
ClockRunsBackOnlyWhenSet ==
    DateNow' < DateNow => \/ \E t \in 0..MaxTime : freeze(t)
                          \/ resetTestState \/ installVirtualClock \/ restoreRealClock

(***************************************************************************)
(* The test ledger is in order of time unless the clock was set since it   *)
(* was emptied, so that assertLedgerChronological tells a real disorder.   *)
(***************************************************************************)
ChronologicalUnlessRewound == ~rewound => assertLedgerChronological(ledger)

(***************************************************************************)
(* After resetTestState a test starts at the real time: the advances of    *)
(* the tests before it are gone, with Date.now exchanged or not.           *)
(***************************************************************************)
TestsStartAtRealTime ==
    (ledger # <<>> /\ ledger' = <<>>) => virtualNow' = clock'.real

(***************************************************************************)
(* failNext forces one charge, the first that neither failNextN's handler  *)
(* nor one of the test's own answers; it is forgotten only in a reset.     *)
(***************************************************************************)
ForcedFailureIsUsedOnce ==
    /\ \A c \in Charges :
         (call[c].verdict = "idle" /\ call'[c].verdict # "idle") =>
           (call'[c].verdict = "error" <=> gateway.nextError /\ gateway.handler = "none")
    /\ (gateway.nextError /\ ~gateway'.nextError) =>
         \/ epoch' = epoch + 1
         \/ \E c \in Charges : call[c].verdict = "idle" /\ call'[c].verdict = "error"

(***************************************************************************)
(* advance moves the virtual time by its duration, and advanceFromFrozen a *)
(* frozen one.  On a frozen clock advance has no effect, then or later:    *)
(* what unfreezes the clock drops the offset.                              *)
(***************************************************************************)
ClockMovesAsSet ==
    /\ \A d \in Durations :
         /\ advance(d) => virtualNow' = IF clock.frozenAt = NoValue
                                        THEN virtualNow + parseDuration(d) ELSE virtualNow
         /\ advanceFromFrozen(d) => virtualNow' = virtualNow + parseDuration(d)
    /\ (clock.frozenAt # NoValue /\ clock'.frozenAt = NoValue) => virtualNow' = clock'.real

(***************************************************************************)
(* What a test sets takes effect, with the charges and the times between:  *)
(* failNextN, failNext and the moves of the clock, with two exceptions     *)
(* that the parts name.  failNext waits as long as another handler answers *)
(* the charges, although its comment says that it forces the next charge;  *)
(* and advance does nothing to a frozen clock, although its comment says   *)
(* that later calls of virtualNow reflect it.                              *)
(***************************************************************************)
SettingsTakeEffect ==
    [][/\ FirstNFail /\ ForcedFailureIsUsedOnce
       /\ ClockMovesAsSet /\ ClockRunsBackOnlyWhenSet /\ TestsStartAtRealTime]_kitVars

(***************************************************************************)
(* The failures that a test sets on a step reach that step in the order in *)
(* which they were set, each once, also when two steps alternate.          *)
(***************************************************************************)
StepFailuresInOrder ==
    \A i, k \in DOMAIN given :
        (i < k /\ given[i].step = given[k].step) => given[i].number < given[k].number

Filters == [tenantId : {"acme", "beta"}] \cup [timestamp : 0..1]
             \cup [tenantId : {"acme", "beta"}, timestamp : 0..1]

(***************************************************************************)
(* The assertions agree with each other on the ledger: contains and        *)
(* notContains exclude each other, a count is the count of both fields     *)
(* filtered one after the other, all entries of one tenant leave none for  *)
(* another, and entries in order span from the first to the last.          *)
(***************************************************************************)
AssertionsAgree ==
    /\ \A f \in Filters :
         /\ assertLedgerContains(ledger, f) # assertLedgerNotContains(ledger, f)
         /\ assertLedgerCount(ledger, f, 0) = assertLedgerNotContains(ledger, f)
         /\ getLastEntry(ledger, f) # NoValue <=> assertLedgerContains(ledger, f)
    /\ \A t \in {"acme", "beta"}, s \in 0..1 :
         getLedgerEntries([tenantId |-> t, timestamp |-> s]) =
           filterEntries(getEntriesInWindow(ledger, s, s), [tenantId |-> t])
    /\ ledger # <<>> => (assertSingleTenant(ledger) <=> ~assertMultiTenant(ledger, {"acme", "beta"}))
    /\ (assertLedgerChronological(ledger) /\ Len(ledger) >= 2) =>
         (assertEntriesSpanTime(ledger, 1) <=> ledger[1].timestamp < Last(ledger).timestamp)

\* The two properties that follow are about operators that no step changes: TLC
\* evaluates them before the kit is used.
Unused == clock = NewClock /\ gateway = NewGateway /\ payments = NoSwitches /\ ledger = <<>>

Outcomes == {"TRANSACTION_COMMITTED", "TRANSACTION_ROLLED_BACK"}
Tx(trace, action) == [traceId |-> trace, action |-> action]

\* What two transactions write, one after the other or interleaved, the second maybe
\* still running.
TransactionLedgers(x, y) ==
    LET p == Tx("t", "TRANSACTION_PENDING")
        q == Tx("u", "TRANSACTION_PENDING")
    IN  { <<p, Tx("t", x), q, Tx("u", y)>>, <<p, q, Tx("t", x), Tx("u", y)>>,
          <<p, q, Tx("u", y), Tx("t", x)>>, <<p, q, Tx("t", x)>>, <<p, Tx("t", x), q>> }

\* Ledgers that no transaction writes: an outcome before the start, and both outcomes.
WrongLedgers ==
    LET p == Tx("t", "TRANSACTION_PENDING")
    IN  {<<Tx("t", x), p>> : x \in Outcomes}
          \cup {<<p, Tx("t", x), Tx("t", y)>> : x \in Outcomes, y \in Outcomes}

(***************************************************************************)
(* assertTransactionPattern accepts for each transaction the outcome that  *)
(* it had and no other, with two transactions interleaved in the ledger,   *)
(* and none for one that is still running.  Of a ledger that no            *)
(* transaction writes it tells nothing: it accepts an outcome before       *)
(* PENDING, and each of two outcomes, although its comment gives the       *)
(* pattern as PENDING and then one of them.                                *)
(***************************************************************************)
PatternsTellOutcomes ==
    Unused => \A x, y, o \in Outcomes : \A entries \in TransactionLedgers(x, y) :
        /\ assertTransactionPattern(entries, "t", o) <=> o = x
        /\ assertTransactionPattern(entries, "u", o) <=> Len(entries) = 4 /\ o = y
        /\ \A wrong \in WrongLedgers :
             assertTransactionPattern(wrong, "t", o) <=> Tx("t", o) \in ToSet(wrong)

(***************************************************************************)
(* The roles of the test contexts have the permissions their names say: an *)
(* owner all, an administrator neither sudo nor impersonate, a viewer only *)
(* to read.  The system identity may do nothing: its role has no mask, and *)
(* the Rust registry refuses it and the anonymous one as unknown.          *)
(***************************************************************************)
HelpersHaveTheirRoles ==
    Unused =>
    LET May(store) == {p \in DOMAIN PERMISSIONS : can(store.role, p)}
    IN  /\ May(asOwner("acme", "u")) = DOMAIN PERMISSIONS
        /\ May(asAdmin("acme", "u")) = DOMAIN PERMISSIONS \ {"sudo", "impersonate"}
        /\ May(asViewer("acme", "u")) = {"read"}
        /\ May(withTenant("acme")) = {"read", "write"}
        /\ withTenantContext("acme", NoValue, NoValue) = withTenant("acme")
        /\ \A s \in {asSystemIdentity("acme"), asAnonymous("acme")} :
             May(s) = {} /\ \A p \in DOMAIN PERMISSIONS : check_by_name(s.role, p) = Failure

(***************************************************************************)
(* A test can rely on what the gateway and the switches tell it, with      *)
(* charges that overlap and a reset between them.                          *)
(***************************************************************************)
GatewayTellsTheTruth ==
    /\ KitTypeOK /\ CountersMatchHistory /\ ResultsMisfiledOnlyByOverlap
    /\ PaymentIdsAreDistinct /\ StepFailuresInOrder

(***************************************************************************)
(* A test can rely on the assertions as far as the parts say: the ledger   *)
(* is in order unless the clock was set, the assertions agree about it and *)
(* tell the outcomes of transactions apart; and on the roles of contexts.  *)
(***************************************************************************)
AssertionsAreSound ==
    /\ ChronologicalUnlessRewound /\ AssertionsAgree
    /\ PatternsTellOutcomes /\ HelpersHaveTheirRoles

=============================================================================
