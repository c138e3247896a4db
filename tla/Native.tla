------------------------------- MODULE Native --------------------------------
(***************************************************************************)
(* The native bridge of packages/core (src/native/bridge.ts) and what it   *)
(* leads to: the singletons of crates/bindings (the scheduler, the ledger, *)
(* the planner, the permission registry), crates/crypto and                *)
(* crates/serializer, or the TypeScript fallback of all of them.           *)
(*                                                                         *)
(* getNative decides once which of the two a process works with.  What a   *)
(* process hands out (keys, hashes, signatures, compressed blobs) outlives *)
(* it and may meet the other engine after a restart: that part is made of  *)
(* pure operators.  What the engine keeps (scheduled jobs, buffered        *)
(* entries) lives in memory: that part is the state machine.               *)
(***************************************************************************)
EXTENDS Money, FiniteSets

CONSTANTS
    Calls,      \* calls of schedule and schedulerEnqueue
    Capacity,   \* of the scheduler's heap
    MaxTime,    \* bound: the clock stops here
    MaxLog,     \* bound: no job is scheduled once the log is this long
    Data,       \* what is signed, hashed, licensed or compressed
    Empty,      \* the empty byte string, a member of Data
    NoValue,
    Thousandths,    \* amounts of money, in thousandths of a unit
    RatioLists,     \* sequences of integers
    Prices          \* prices in hundredths of a unit

ASSUME NativeAssumption ==
    /\ Capacity \in Nat \ {0}
    /\ MaxTime \in Nat /\ MaxLog \in Nat
    /\ Empty \in Data
    /\ Thousandths \subseteq Int /\ Prices \subseteq Int
    /\ RatioLists \subseteq Seq(Int)

SQL == INSTANCE SqlTemplate
ID == INSTANCE Identity WITH BadToken <- Failure

Engines == {"addon", "fallback"}

VARIABLES
    built,      \* intellibiz.node is where getNative looks for it
    native,     \* _native: "none", or the engine that getNative found
    now,        \* Utc::now()
    heap,       \* the jobs in the scheduler's BinaryHeap, with the call they came by
    status,     \* what became of each call
    log,        \* history: what the scheduler did since the process began
    entry       \* a ledger entry: where it is

vars == <<built, native, now, heap, status, log, entry>>

JobPriority == 0..3
Normal == 1
Jobs == [call : Calls, run_at : 0..MaxTime, priority : JobPriority]

TypeOK ==
    /\ built \in BOOLEAN
    /\ native \in Engines \cup {"none"}
    /\ now \in 0..MaxTime
    /\ heap \subseteq Jobs
    /\ status \in [Calls -> {"idle", "queued", "refused", "dropped", "delivered", "lost"}]
    /\ log \in Seq([event : {"queued", "refused", "delivered"}, job : Jobs])
    /\ entry \in {"none", "buffered", "flushed", "lost", "gone"}

Init ==
    /\ built \in BOOLEAN
    /\ native = "none"
    /\ now = 0
    /\ heap = {}
    /\ status = [c \in Calls |-> "idle"]
    /\ log = <<>>
    /\ entry = "none"

-----------------------------------------------------------------------------
(* The loader *)

\* What getNative() returns; every operation of the bridge begins with it.
getNative == IF native # "none" THEN native ELSE IF built THEN "addon" ELSE "fallback"

resetNative ==
    /\ native # "none"
    /\ native' = "none"
    /\ UNCHANGED <<built, now, heap, status, log, entry>>

setNative ==
    /\ native # "fallback"
    /\ native' = "fallback"
    /\ UNCHANGED <<built, now, heap, status, log, entry>>

\* The addon is built, or deployed, while the process runs.
Build ==
    /\ ~built
    /\ built' = TRUE
    /\ UNCHANGED <<native, now, heap, status, log, entry>>

\* The process ends and another begins: the singletons start empty, and the addon
\* may be missing where the next process runs.
Restart ==
    /\ built' \in BOOLEAN
    /\ native' = "none"
    /\ heap' = {}
    /\ status' = [c \in Calls |-> IF status[c] = "queued" THEN "lost" ELSE status[c]]
    /\ log' = <<>>
    /\ entry' = IF entry = "buffered" THEN "lost" ELSE entry
    /\ UNCHANGED now

-----------------------------------------------------------------------------
(* The scheduler *)

\* The order in which the heap gives its jobs: a comes out before b.
\* A plausible bug: the order of the priorities is reversed.
Before_LowFirst(a, b) ==
    \/ a.run_at < b.run_at
    \/ a.run_at = b.run_at /\ a.priority < b.priority

Before(a, b) ==
    \/ a.run_at < b.run_at
    \/ a.run_at = b.run_at /\ a.priority > b.priority

Job(c, t, p) == [call |-> c, run_at |-> t, priority |-> p]

Full == Cardinality(heap) >= Capacity

\* Scheduler::schedule(job)
schedule(j) ==
    /\ Len(log) < MaxLog
    /\ \/ Full  /\ status' = [status EXCEPT ![j.call] = "refused"] /\ UNCHANGED heap
       \/ ~Full /\ status' = [status EXCEPT ![j.call] = "queued"]  /\ heap' = heap \cup {j}
    /\ log' = Append(log, [event |-> status'[j.call], job |-> j])

\* A caller inside the native process, with a priority of its choice.
ScheduleNatively(c) ==
    /\ native = "addon"
    /\ status[c] = "idle"
    /\ \E t \in 0..MaxTime : schedule(Job(c, t, 2))
    /\ UNCHANGED <<built, native, now, entry>>

\* Through the bridge every job has Normal priority.  The fallback accepts the job and
\* forgets it.
schedulerEnqueue(c) ==
    /\ status[c] = "idle"
    /\ native' = getNative
    /\ \/ getNative = "addon" /\ \E t \in 0..MaxTime : schedule(Job(c, t, Normal))
       \/ /\ getNative = "fallback"
          /\ status' = [status EXCEPT ![c] = "dropped"]
          /\ UNCHANGED <<heap, log>>
    /\ UNCHANGED <<built, now, entry>>

\* A worker puts a job that it was given and that failed back into the queue.
Retry(c) ==
    /\ native = "addon"
    /\ status[c] = "delivered"
    /\ \E t \in now..MaxTime : schedule(Job(c, t, Normal))
    /\ UNCHANGED <<built, native, now, entry>>

\* The orders in which popping empties the heap: equal jobs come in any.
HeapOrders ==
    {s \in [1..Cardinality(heap) -> heap] :
        \A i, k \in DOMAIN s : i < k => s[i] # s[k] /\ ~Before(s[k], s[i])}

\* A plausible bug: poll leaves the jobs that are due in this very second.
IsDue_Strict(j) == j.run_at < now

IsDue(j) == j.run_at <= now

\* Scheduler::poll(now): how far it pops, up to the first job that is not due.
poll(s) == {i \in DOMAIN s : \A k \in 1..i : IsDue(s[k])}

\* A plausible bug: poll pops a job before it looks at its time, and drops the first
\* that is not due.
schedulerPoll_PopFirst ==
    /\ native' = getNative
    /\ IF getNative = "addon"
       THEN \E s \in HeapOrders :
              LET ready == poll(s)
                  out == {s[i] : i \in ready}
                  popped == {s[i] : i \in DOMAIN s \cap 1..(Cardinality(ready) + 1)}
              IN  /\ log' = log \o [i \in ready |-> [event |-> "delivered", job |-> s[i]]]
                  /\ heap' = heap \ popped
                  /\ status' = [c \in Calls |-> IF \E j \in out : j.call = c THEN "delivered"
                                                ELSE status[c]]
       ELSE UNCHANGED <<log, heap, status>>
    /\ UNCHANGED <<built, now, entry>>

\* The fallback has no jobs to return.
schedulerPoll ==
    /\ native' = getNative
    /\ IF getNative = "addon"
       THEN \E s \in HeapOrders :
              LET ready == poll(s)
                  out == {s[i] : i \in ready}
              IN  /\ log' = log \o [i \in ready |-> [event |-> "delivered", job |-> s[i]]]
                  /\ heap' = heap \ out
                  /\ status' = [c \in Calls |-> IF \E j \in out : j.call = c THEN "delivered"
                                                ELSE status[c]]
       ELSE UNCHANGED <<log, heap, status>>
    /\ UNCHANGED <<built, now, entry>>

Tick ==
    /\ now < MaxTime
    /\ now' = now + 1
    /\ UNCHANGED <<built, native, heap, status, log, entry>>

backoff_seconds(attempt) ==
    LET delay == 2^(IF attempt < 12 THEN attempt ELSE 12)
    IN  IF delay < 3600 THEN delay ELSE 3600

-----------------------------------------------------------------------------
(* The ledger, seen through the bridge *)

\* The addon appends to the ring buffer; the fallback returns a hash and keeps nothing.
ledgerWrite ==
    /\ entry = "none"
    /\ native' = getNative
    /\ entry' = IF getNative = "addon" THEN "buffered" ELSE "gone"
    /\ UNCHANGED <<built, now, heap, status, log>>

ledgerFlush ==
    /\ native' = getNative
    /\ entry' = IF getNative = "addon" /\ entry = "buffered" THEN "flushed" ELSE entry
    /\ UNCHANGED <<built, now, heap, status, log>>

-----------------------------------------------------------------------------
(* crates/query-planner and the permission check, and their fallbacks *)

\* QueryPlanner::plan.  NoValue is None; a table is [name, valid], valid if
\* validate_table accepts it.
plan(table, op, tenant, limit, strict, default_limit) ==
    IF ~table.valid \/ (tenant = NoValue /\ strict) THEN Failure
    ELSE [ injected_filters |-> (IF tenant = NoValue THEN {} ELSE {SQL!OrgIs(tenant)})
                                \cup (IF op = "select" THEN {SQL!NotDeleted} ELSE {}),
           limit |-> IF op # "select" THEN NoValue
                     ELSE IF limit = NoValue THEN default_limit ELSE limit,
           include_deleted |-> FALSE,
           governance_flags |-> IF op = "select" /\ limit = NoValue
                                THEN {"LimitGuardrailApplied"} ELSE {} ]

plan_sudo(table, limit) ==
    IF ~table.valid THEN Failure
    ELSE [ injected_filters |-> {}, limit |-> limit, include_deleted |-> TRUE,
           governance_flags |-> {"SudoBypass"} ]

\* A tenant's id is [name, quotes]: quotes many of the quotes of SQL stand one behind the
\* other in it.  v.replace('\'', "''") doubles each of them.
escape(id) == [id EXCEPT !.quotes = 2 * @]

\* The condition that is written for a filter.
Rendered(filter) == IF filter[1] = "org_id" THEN SQL!OrgIs(escape(filter[2])) ELSE filter

\* to_where_clause: the conditions that are joined with AND.
to_where_clause(p) == {Rendered(f) : f \in p.injected_filters}

query_plan_where(table, tenant) ==
    LET p == plan(table, "select", tenant, NoValue, TRUE, 100)
    IN  IF p = Failure THEN Failure ELSE to_where_clause(p)

query_plan_sudo(table) ==
    LET p == plan_sudo(table, NoValue)
    IN  IF p = Failure THEN Failure ELSE to_where_clause(p)

\* The fallback ignores the table, and writes the id between quotes as it is.
fallbackQueryPlanWhere(table, tenant) == {SQL!OrgIs(tenant), SQL!NotDeleted}
fallbackQueryPlanSudo(table) == {}

fallbackRoles ==
    [ owner   |-> {"read", "write", "delete", "export", "admin", "billing", "impersonate", "sudo"},
      admin   |-> {"read", "write", "delete", "export", "admin", "billing"},
      billing |-> {"read", "billing", "export"},
      member  |-> {"read", "write"},
      viewer  |-> {"read"} ]

\* A plausible bug: an unknown role is taken for a viewer.
fallbackPermissionCheck_Viewer(role, permission) ==
    permission \in fallbackRoles[IF role \in DOMAIN fallbackRoles THEN role ELSE "viewer"]

fallbackPermissionCheck(role, permission) ==
    role \in DOMAIN fallbackRoles /\ permission \in fallbackRoles[role]

-----------------------------------------------------------------------------
(* crates/crypto and crates/serializer, and their fallbacks.  Hashing,     *)
(* signing and compressing are injective: their result names their input.  *)

sha256(x) == <<"sha256", x>>

LicenseOf(digest, case) == <<"license", digest, case>>

\* generate_license_key: both engines cut and format the same digest.
generate_license_key(d) == LicenseOf(sha256(d), "upper")

fallbackGenerateLicense(d) == LicenseOf(sha256(d), "upper")

\* A salted PHC string; the fallback writes an unsalted digest in its place.
argon2_hash(d) == <<"argon2", d>>
fallbackArgon2Hash(d) == <<"argon2-shaped", sha256(d)>>

\* A 64 byte signature under the key pair of ed25519_generate_keypair.  The fallback's
\* key pair and signature are constants.
ed25519_sign(d) == <<"ed25519", d>>
fallbackEd25519Sign(d) == <<"zeros">>

compress(d) == IF d = Empty THEN Failure ELSE <<"zstd", d>>
fallbackCompress(d) == <<"raw", d>>

\* aes256_encrypt with a 32 byte key, which the bridge does not export.
aes256_encrypt(d) == <<"nonce", "aes", d>>

Kinds == {"license", "password", "signature", "blob", "sealed"}

\* What engine e hands out for d.
Made(kind, d, e) ==
    CASE kind = "license"   -> IF e = "addon" THEN generate_license_key(d) ELSE fallbackGenerateLicense(d)
      [] kind = "password"  -> IF e = "addon" THEN argon2_hash(d) ELSE fallbackArgon2Hash(d)
      [] kind = "signature" -> IF e = "addon" THEN ed25519_sign(d) ELSE fallbackEd25519Sign(d)
      [] kind = "blob"      -> IF e = "addon" THEN compress(d) ELSE fallbackCompress(d)
      [] kind = "sealed"    -> IF e = "addon" THEN aes256_encrypt(d) ELSE Failure

argon2_verify(d, hash) == hash = argon2_hash(d)

\* Engine e takes this value for d: it verifies it, or decompresses or decrypts it to d.
\* The addon answers anything it cannot decode with an error; the fallback verifies
\* every signature and decompresses nothing.
Accepts(kind, value, d, e) ==
    CASE kind = "license"   -> value = Made("license", d, e)
      [] kind = "password"  -> IF e = "addon" THEN argon2_verify(d, value)
                               ELSE value[2] = sha256(d)
      [] kind = "signature" -> e = "fallback" \/ value = ed25519_sign(d)
      [] kind = "blob"      -> IF e = "addon" THEN d # Empty /\ value = compress(d)
                               ELSE value = fallbackCompress(d)
      [] kind = "sealed"    -> e = "addon" /\ value = aes256_encrypt(d)

TenantIds == [name : {"acme"}, quotes : 0..3]

InjectedFilters == {SQL!OrgIs(id) : id \in TenantIds} \cup {SQL!NotDeleted}

\* The values that say that something is missing or has failed are none of those that
\* they are told from: plans and their limits, verdicts, numbers, amounts, blobs.
ASSUME FailureAssumption ==
    /\ NoValue \notin {0, 7, 100} /\ NoValue \notin TenantIds
    /\ Failure \notin Int /\ Failure # TRUE
    /\ Failure \notin [n : Int, k : Nat]
    /\ Failure \notin [amount : [n : Int, k : Nat], currency : {"ZAR"}]
    /\ \A d \in Data : Failure \notin {<<"zstd", d>>, aes256_encrypt(d)}
    /\ Failure # SQL!NotDeleted /\ Failure # {}
    /\ \A id \in TenantIds : /\ Failure # SQL!OrgIs(id)
                             /\ Failure # {SQL!OrgIs(id), SQL!NotDeleted}
    /\ Failure \notin [ injected_filters : SUBSET InjectedFilters,
                        limit : {0, 7, 100, NoValue}, include_deleted : BOOLEAN,
                        governance_flags : SUBSET {"LimitGuardrailApplied", "SudoBypass"} ]

-----------------------------------------------------------------------------

Next ==
    \/ resetNative \/ setNative \/ Build \/ Restart \/ Tick
    \/ \E c \in Calls : ScheduleNatively(c) \/ schedulerEnqueue(c) \/ Retry(c)
    \/ schedulerPoll
    \/ ledgerWrite \/ ledgerFlush

\* Workers poll on a timer, and time passes.
Fairness == WF_vars(schedulerPoll) /\ WF_vars(Tick)

Spec == Init /\ [][Next]_vars /\ Fairness

-----------------------------------------------------------------------------
(* Properties of the engine's state *)

\* The calls that are in the queue when step i of the log is taken.
Pending(i) ==
    {c \in Calls : \E q \in 1..(i - 1) :
        /\ log[q].event = "queued" /\ log[q].job.call = c
        /\ \A r \in (q + 1)..(i - 1) : log[r].job.call = c => log[r].event # "delivered"}

\* schedule refuses a job exactly when as many as the capacity wait to be delivered:
\* then a retry of a job that poll has removed is refused too, and only then.
AdmissionIsExact ==
    \A i \in DOMAIN log :
        log[i].event # "delivered" =>
            (log[i].event = "refused" <=> Cardinality(Pending(i)) >= Capacity)

\* Within one poll and across polls no job is delivered while one that waits is due
\* earlier, or at the same time with a higher priority.
NoOvertaking ==
    \A i, k \in DOMAIN log :
        ( /\ i < k
          /\ log[i].event = "delivered" /\ log[k].event = "delivered"
          /\ log[k].job.call \in Pending(i)
          /\ \A r \in i..(k - 1) : log[r].job.call # log[k].job.call )
        => \/ log[i].job.run_at < log[k].job.run_at
           \/ /\ log[i].job.run_at = log[k].job.run_at
              /\ log[i].job.priority >= log[k].job.priority

\* A job that schedule has accepted is in the queue until poll returns it, which poll
\* does once and with no other job's or engine's help: whatever is refused, retried,
\* polled too early or asked of the fallback in between, no job is dropped and none is
\* delivered that does not wait.  It says nothing of ledger entries: the fallback keeps none
\* (ledgerWrite), though bridge.ts speaks of "an in-memory WAL for the ledger" there.
JobsAreConserved ==
    /\ {j.call : j \in heap} = Pending(Len(log) + 1)
    /\ \A i \in DOMAIN log : log[i].event = "delivered" => log[i].job.call \in Pending(i)

\* Under fair polling every job that was accepted is delivered eventually, unless the
\* process ends or works with the fallback, which polls nothing.
JobsRun ==
    \A c \in Calls : status[c] = "queued" ~> status[c] # "queued" \/ native = "fallback"

-----------------------------------------------------------------------------
(* The addon and its fallback give the same answers *)

\* What follows is about operators that no step changes: TLC evaluates it for all of
\* their arguments before the engine is first used.
Unused ==
    /\ native = "none" /\ now = 0 /\ log = <<>> /\ entry = "none"
    /\ \A c \in Calls : status[c] = "idle"

\* The delay doubles with every attempt until it reaches an hour, where it stays.
BackoffIsCapped ==
    Unused => \A a \in 0..30 :
        /\ backoff_seconds(a) <= 3600
        /\ backoff_seconds(a + 1) \in {2 * backoff_seconds(a), 3600}

\* What an engine hands out it accepts itself; a license key, which customers keep, is
\* accepted by the other engine as well.
GenuineAccepted ==
    Unused => \A kind \in Kinds, d \in Data, e, f \in Engines :
        (Made(kind, d, e) # Failure /\ (e = f \/ kind = "license"))
          => Accepts(kind, Made(kind, d, e), d, f)

\* The addon takes no value, of either engine, for data that it was not made for.
ForgedRefused ==
    Unused => \A kind \in Kinds, d, d2 \in Data, e \in Engines :
        Accepts(kind, Made(kind, d, e), d2, "addon") => d = d2

\* Every role may do the same in the registry and in the fallback's table; what the
\* registry does not know the fallback denies.
PermissionsAgree ==
    Unused => \A role \in DOMAIN ID!ROLES \cup {"guest"}, p \in DOMAIN ID!PERMISSIONS \cup {"fly"} :
        fallbackPermissionCheck(role, p) <=> ID!check_by_name(role, p) = TRUE

\* What a database reads in a condition: two quotes in a literal are one of its text, and
\* with an odd number of them the literal ends too early, which is none of the conditions
\* that were meant.
Read(condition) ==
    IF condition[1] # "org_id" THEN condition
    ELSE IF condition[2].quotes % 2 = 1 THEN Failure
    ELSE SQL!OrgIs([condition[2] EXCEPT !.quotes = @ \div 2])

ReadFrom(clause) == {Read(condition) : condition \in clause}

SampleTable(valid) == [name |-> "invoices", valid |-> valid]

\* A plan for a tenant is confined to it, in strict mode every plan but sudo's is, and
\* every SELECT is limited and leaves out deleted rows; and the clause that is written for
\* the plan is read as the plan's filters, whatever quotes the tenant's id contains.
PlansAreConfined ==
    Unused => \A valid, strict \in BOOLEAN, op \in {"select", "insert", "update", "delete"},
       tenant \in TenantIds \cup {NoValue}, limit \in {0, 7, NoValue} :
        LET p == plan(SampleTable(valid), op, tenant, limit, strict, 100)
        IN  /\ p = Failure <=> ~valid \/ (strict /\ tenant = NoValue)
            /\ p # Failure /\ tenant # NoValue => SQL!OrgIs(tenant) \in p.injected_filters
            /\ p # Failure /\ op = "select" => p.limit # NoValue
            /\ p # Failure /\ op = "select" /\ tenant # NoValue
                 => ReadFrom(to_where_clause(p)) = SQL!injected_filters(TRUE, tenant)

\* The fallback filters as the planner does exactly when the tenant's id has no quote and
\* the table's name is valid.  It escapes nothing: any other id is read as something else
\* than the tenant; and it refuses no table, for sudo neither.
FiltersAgree ==
    Unused => \A valid \in BOOLEAN, tenant \in TenantIds :
        LET table == SampleTable(valid)
            clause == fallbackQueryPlanWhere(table, tenant)
        IN  /\ query_plan_where(table, tenant) = clause <=> valid /\ tenant.quotes = 0
            /\ ReadFrom(clause) = SQL!injected_filters(TRUE, tenant) <=> tenant.quotes = 0
            /\ query_plan_sudo(table) = fallbackQueryPlanSudo(table) <=> valid

-----------------------------------------------------------------------------
(* Money *)

KnownCurrencies == ZeroDecimal \cup ThreeDecimal \cup TwoDecimalRust

SampleCurrencies == {"JPY", "ZAR", "BHD"}

Abs(n) == IF n < 0 THEN -n ELSE n

\* Money.allocate cuts an amount down to whole minor units first: of these it neither
\* loses nor invents one, whatever the signs of the amount and the ratios are, and the
\* first share is the only one above its quota.  What it cuts off is nothing if the amount
\* has no fraction of a minor unit, and otherwise makes the shares one unit less than what
\* Money shows, if that is rounded up: there the comment "No cent is ever lost" is not true.
AllocationLosesNothing ==
    Unused => \A n \in Thousandths, c \in SampleCurrencies, ratios \in RatioLists :
        LET minor == Units(Dec(n, 3), getCurrencyDecimals(c), "floor")
            total == SumFunction(ratios)
            a == allocate(Dec(n, 3), c, ratios)
        IN  a # Failure =>
              /\ SumFunction(a) = minor
              /\ toMinorUnits(Dec(n, 3), c) - minor \in {0, 1}
              /\ SameValue(Dec(minor, getCurrencyDecimals(c)), Dec(n, 3))
                   => toMinorUnits(Dec(n, 3), c) = minor
              /\ \A i \in 2..Len(ratios) : Abs(total) * (a[i] + 1) > minor * ratios[i] * (total \div Abs(total))
              /\ a[1] < Share(minor, ratios[1], total, "floor") + Len(ratios)

\* Money, the formula engine and the fallback split an amount of no sign alike; a
\* negative amount they split differently, but into the same sum.
AllocatorsAgree ==
    Unused => \A minor \in Thousandths, ratios \in RatioLists :
        LET a == allocate(Dec(minor, 2), "ZAR", ratios)
            b == allocate_rust(minor, ratios)
            f == fallbackAllocate(minor, ratios)
        IN  (a # Failure /\ \A i \in DOMAIN ratios : ratios[i] >= 0) =>
              /\ a = f
              /\ minor >= 0 => a = b
              /\ SumFunction(b) = minor

\* An amount that the engine writes in minor units is read back as the same amount by
\* Money and by the engine, in every currency the engine knows.
MinorUnitsRoundTrip ==
    Unused => \A n \in Thousandths, c \in KnownCurrencies :
        LET x == from_minor_units(n, c)
        IN  x # Failure => toMinorUnits(x, c) = n /\ to_minor_units(x, c) = n

\* Money rounds to the nearest minor unit; the engine, which cuts off, and the fallback,
\* where it knows the currency, are at most one unit away.
RoundingWithinOneUnit ==
    Unused => \A n \in Thousandths, c \in SampleCurrencies :
        LET m == toMinorUnits(Dec(n, 3), c)
            unit == 10^(3 - getCurrencyDecimals(c))
        IN  /\ 2 * Abs(m * unit - n) <= unit
            /\ Abs(m - to_minor_units(Dec(n, 3), c)) <= 1
            /\ Abs(m - fallbackToMinorUnits(Dec(n, 3), c)) <= 1

\* x ten thousandths of a unit, the product of an amount and basis points, lie halfway
\* between two units.
Tie(x) == x % 10000 = 5000

\* Basis points in the engine and in the fallback differ at exact ties only, by one unit.
BasisPointsAgree ==
    Unused => \A m \in Thousandths, bp \in {1, 250, 500, 1900, 2500, 10000} :
        LET r == apply_basis_points(m, bp, "even")
            f == fallbackApplyBasisPoints(m, bp)
        IN  r # f => Tie(m * bp) /\ Abs(r - f) = 1

SampleAmounts == {Dec(0, 0), Dec(434783, 2), Dec(499999, 2), Dec(500000, 2)}

Items(price, quantity) ==
    << [price |-> [amount |-> Dec(price, 2), currency |-> "ZAR"], quantity |-> quantity],
       [price |-> [amount |-> Dec(1, 2), currency |-> "ZAR"], quantity |-> 3] >>

Destinations ==
    [country : DOMAIN RateBP \cup {"US"}, capitals : BOOLEAN, vatId : {"none", "empty", "some"}]

\* Explicit tax rates; the last has more digits than basis points have.
TaxRates == {Dec(0, 0), Dec(15, 2), Dec(-1, 0), Dec(77777, 6)}

Input(price, quantity, taxRate, destination) ==
    [items |-> Items(price, quantity), taxRate |-> taxRate, destination |-> destination]

\* Of a price in hundredths, that of Items.
Sum(price, quantity) == price * quantity + 3

RandInCents(x) == toMinorUnits(x, "ZAR")

Maybe(S) == {<<>>} \cup {<<x>> : x \in S}

\* Where the tax comes from an explicit rate, from a destination or from nowhere, the
\* total that a customer reads is the sum of the subtotal and the tax that he reads; only
\* if the tax is half a unit off, one unit more or less.
TotalsAddUp ==
    Unused => \A price \in Prices, quantity \in 1..2, taxRate \in Maybe(TaxRates),
       destination \in Maybe(Destinations) :
        LET input == Input(price, quantity, taxRate, destination)
            t == calculateTotal(input)
            off == IF Tie(Sum(price, quantity) * taxRateBP(input)) THEN 1 ELSE 0
        IN  /\ RandInCents(t.subtotal.amount) = Sum(price, quantity)
            /\ Abs(RandInCents(t.grandTotal.amount) - RandInCents(t.subtotal.amount)
                     - RandInCents(t.taxTotal.amount)) <= off

\* calculateTotal charges a tax that the rule pipeline does not know of: the country is not
\* written in capitals, or the VAT id is empty and the pipeline takes it for one.
OnlyMoneyTaxes(d) ==
    /\ resolveRateBP(d) # 0
    /\ ~d.capitals \/ (d.vatId = "empty" /\ d.country \in DOMAIN EU_VAT_BP)

\* Without an explicit rate calculateTotal and the rule pipeline charge the same: their
\* totals in minor units differ only where the tax is half a unit, and by one unit.  There
\* are two exceptions, in which the pipeline charges no tax at all.
TotalsAgree ==
    Unused => \A price \in Prices, quantity \in 1..2, d \in Destinations :
        LET t == calculateTotal(Input(price, quantity, <<>>, <<d>>))
            sum == Sum(price, quantity)
            e == evaluate([tenant_id |-> "acme", user_role |-> "owner", destination |-> d,
                           amount |-> Dec(sum, 2)])
            off == IF Tie(sum * resolveRateBP(d)) THEN 1 ELSE 0
        IN  IF OnlyMoneyTaxes(d) THEN RandInCents(e.amount) = sum
            ELSE Abs(RandInCents(t.grandTotal.amount) - RandInCents(e.amount)) <= off

Contexts ==
    [ tenant_id : {"", "acme"}, user_role : {"owner", "billing", "viewer", "guest"},
      destination : [ country : {"ZA", "DE", "US"}, capitals : BOOLEAN,
                      vatId : {"none", "empty", "some"} ],
      amount : SampleAmounts ]

\* The pipeline runs every rule and passes only if each of them does; what it adds to
\* the amount is the tax, and a review is asked for by the amount with the tax.
PipelineVerdict ==
    Unused => \A ctx \in Contexts :
        LET e == evaluate(ctx)
            d == ctx.destination
        IN  /\ e.passed <=> ctx.tenant_id # "" /\ ctx.user_role \in ALLOWED_ROLES
            /\ Len(e.applied) = IF d.country = "US" \/ ~d.capitals THEN 3 ELSE 4
            /\ SameValue(e.amount, DecAdd(ctx.amount, e.tax))
            /\ e.applied[Len(e.applied)] = <<"fraud-signal", "REVIEW">>
                 <=> Units(e.amount, 2, "even") >= FRAUD_REVIEW_THRESHOLD.n

\* The fallback of the pipeline agrees with it only if there was nothing to decide: the
\* tenant and the role are admitted, and there is no tax, because the pipeline knows no
\* rate for the destination, reverses the charge or has nothing to charge on.  Otherwise
\* the fallback passes what the pipeline refuses, or leaves out the tax.
RulesAgree ==
    Unused => \A ctx \in Contexts :
        LET e == evaluate(ctx)
            f == fallbackRuleEvaluate(ctx)
        IN  ( /\ e.passed <=> f.passed
              /\ SameValue(e.amount, f.amount)
              /\ SameValue(e.tax, f.tax) )
            <=> /\ ctx.tenant_id # "" /\ ctx.user_role \in ALLOWED_ROLES
                /\ vat_basis_points(ctx.destination) \in {0, Failure} \/ ctx.amount.n = 0

-----------------------------------------------------------------------------
(* Together *)

\* The scheduler admits and delivers as its documentation says, with callers, retries,
\* polls and restarts in any order.
SchedulerKeepsOrder == TypeOK /\ AdmissionIsExact /\ NoOvertaking

\* A process with the addon and one without it can work on the same data: they accept
\* the same license keys and grant the same permissions.  They filter alike but for ids
\* with quotes and for invalid tables, and agree on rules only where the pipeline passes
\* and charges nothing.  What only the addon decides, the delay before a retry, stays
\* within its limits.
EnginesAgree ==
    /\ GenuineAccepted /\ ForgedRefused
    /\ PermissionsAgree
    /\ PlansAreConfined /\ FiltersAgree
    /\ RulesAgree
    /\ BackoffIsCapped

\* Money, the engine and the fallback count alike, to the minor unit, and lose no whole one
\* of it: in allocations, conversions, basis points, totals with tax and the rule pipeline,
\* with the exceptions that the parts name.
AmountsAgree ==
    /\ AllocationLosesNothing /\ AllocatorsAgree
    /\ MinorUnitsRoundTrip /\ RoundingWithinOneUnit /\ BasisPointsAgree
    /\ TotalsAddUp /\ TotalsAgree /\ PipelineVerdict

=============================================================================
