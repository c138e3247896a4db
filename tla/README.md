# A TLA+ model of intellibiz

intellibiz is a TypeScript framework for business software (context kernel,
event bus, SQL, money, payments, identity) with a native engine in Rust (audit
ledger, scheduler, permissions, rules, formulas, query planner). This directory
holds TLA+ modules that model the parts of it in which several activities
interleave, and the algorithms that it implements more than once; the TLC
configurations that check them; and TLAPS proofs about them. Paths below are relative to `src/`.

## 1. Inventory

Everything in TypeScript runs on one event loop: code between two `await`s is
atomic, and anything may happen at an `await`. The Rust engine is a process-wide
set of singletons (`crates/bindings/src/lib.rs`), reached by any thread that has
loaded the addon.

| component | state | operations | hard behaviour | what makes it correct |
|---|---|---|---|---|
| bank retry machine, `packages/commerce/src/state-machine/bank-retry.ts` | map of active retries; each entry's attempt, timer, `resolved` | start, timer callback with an awaited status check, force, cancel | operators act while a check is in flight; two limits end the polling | one verdict per retry; the map tells the truth; never gives up early; every retry ends |
| webhook deduplication, `packages/commerce/src/webhooks/dedup.ts` | TTL cache of event ids, handler registry | handle, processWebhook, clear | redelivery during the awaited handler; failing handlers; expiry | nothing unhandled is dropped, nothing handled is handled again within the TTL |
| transaction, `packages/commerce/src/transaction/index.ts` | state of the transaction, compensation stack, configured provider | charge, issue, return, throw, rollback | charges in flight when the function ends, failing refunds, provider changes | the rollback is complete and in reverse order; the final state is true |
| ledger, `crates/ledger/src/lib.rs` | tip of the hash chain, bounded ring | write, flush, verify_chain | threads between two lock acquisitions; a full ring; concurrent drains | one unbroken chain, nothing lost or written twice |
| event bus, `packages/core/src/events/bus.ts` | listeners, retry budgets, dead letter queue, deliveries in flight | on, off, clear, emit | interleaved deliveries with retries; registry changes meanwhile | every listener is accounted for, called within its budget; emit returns |
| payment adapters, `packages/commerce/src/providers` | none | charge, verify, parse | which field of a notification is its event id; late replays; currencies without two decimals | an event is dropped only when it was seen; a replay has no effect; the amount charged is the amount |
| plugin registry, `packages/core/src/plugin/registry.ts` | container of services, list of loaded plugins | loadAll | a factory that throws half-way; overlapping calls | a plugin is loaded wholly or not at all; dependencies come first; a service keeps its owner |
| request path: kernel middleware and router `packages/http/src`, contexts and actions `packages/core/src`, `packages/identity/src`, `packages/db/src` | a store per request in AsyncLocalStorage, the governance log | verify a token, resolve the tenant, run a handler or an action, query, check a permission, answer | requests interleave at every await and share an ambient context; errors leave through two handlers | each request works for its own tenant, leaves its own trail and gets the answer its outcome calls for |
| socket context, `packages/core/src/context/builders.ts` | the current room of a message's context, the rooms of the connection | join, leave, broadcast, disconnect | several handlers of one connection | a broadcast goes to a room the connection is in |
| native bridge, `packages/core/src/native/bridge.ts` | the engine in use, decided once | all calls into the Rust crates, or a fallback in TypeScript | a reset, a late build, a restart with the other engine | both engines agree, or it is known where they do not; nothing accepted is lost |
| scheduler, `crates/scheduler/src/lib.rs` | heap of jobs | schedule, poll | capacity; order of due jobs | jobs leave in order of time and priority, none is lost or early |
| permissions, `crates/permissions` and `packages/identity/src/rbac` | tables of roles | check | three implementations of one policy | they agree |
| money, tax, formulas, rules, `packages/finance`, `crates/formula-engine`, `crates/rule-engine` | none | arithmetic, evaluation of rules in sequence | rounding, remainders, sign; three implementations | sums are preserved; the implementations agree |
| query planner, SQL templates, `crates/query-planner`, `packages/db/src/sql` | none | compile a template, inject filters | nested fragments, text replacement | filters are injected, parameters numbered as bound |
| configuration, `packages/core/src/config` | the resolved configuration | defineConfig | defaults that no rule looks at; assignments after the check | an application that runs has a safe configuration |
| CLI, `packages/cli`, `tools/create-intellibiz` | files on disk | read flags, generate, write | options in any combination; other writers | the files fit together; nothing of the user's is lost |
| test kit, `packages/testing` | virtual clock, mock gateway, switches, test ledger | charge, reset, advance, freeze, assert | overlapping charges; a clock that is set | a test reads what happened |

How they interact: an HTTP handler runs an action in a context; the action may
open a transaction, emit events and write to the ledger. A transaction calls the
configured payment adapter. A charge the bank did not confirm is meant to be
followed up by the bank retry machine, which the application starts itself: the
transaction does not call it. Notifications of the payment services come in
through the adapters' parsers and `processWebhook`. The event bus calls listeners
that may emit in turn. These calls cross module boundaries only through
arguments, so each model takes its callers as an environment that may call at
any moment. Three compositions are modelled: notifications through adapter,
signature check and deduplication (`Payments`); an application from configuration
to plugins to messages (`App`); a request through identity, context, action and
SQL (`Requests`).

## 2. Modules

| module | models | state and actions |
|---|---|---|
| `BankRetry` | `bank-retry.ts` | `entry` holds the `RetryEntry` objects, `activeRetries` the map. `schedulePoll`, `afterCheck`, `clearTimer` and `Notify` are functions of an entry that carry the names of the code; `Store` writes one back together with the map. One action per function, and the timer callback in two: `TimerFires` up to the await, `CheckSettles` after it. |
| `Webhooks` | `dedup.ts` | `cache` maps an event id to its expiry. `processWebhook` runs to the await of the handler; `HandlerResolves` and `HandlerRejects` are the rest. |
| `Payments` | `providers/*.ts`, `webhooks/signature.ts`, the endpoint that the CLI generates | extends `Webhooks` and `Money`: a delivery brings a notification (provider, ids, status, signatures and the secrets they were made with), and `Receive` verifies, parses and hands it to `processWebhook`. What an adapter charges is an operator. |
| `Transaction` | `transaction/index.ts` | The user's function is the environment: it may start charges at any time, await them or not, return or throw. `fnThrows` copies and reverses the stack; `compensate`, `refundResolves`, `refundRejects`, `rolledBack` are the loop of `runAll` and the two ends of the catch block. |
| `Ledger` | `ledger/src/lib.rs` | `write` in three steps per thread (read the tip, push, store the tip), with its two early returns; `flush` as a loop of pops. A hash is identified with the entry's number: ids are unique and SHA-256 is taken to be injective. |
| `HashChain` | what RFC-007 promises | an append-only sequence of blocks, each chained to the one before. |
| `EventBus` | `events/bus.ts` | a task per listener and emission, with its attempt and phase; a backoff is a sleep that may end at any moment. `Crash` loses everything, as the bus keeps all of it in memory. |
| `Identity` | `jwt/index.ts`, `resolver.ts`, `resolveTenant` of `middleware.ts`, `rbac/index.ts`, `crates/permissions` | operators only: claims of a token, the tenant of a request in both resolvers (the kernel's with the URL's host where there is no Host header), permission checks over bit masks and over the Rust tables. |
| `SqlTemplate` | `sql/template.ts`, filters of `crates/query-planner` | operators only: a text is the sequence of the places where FROM, WHERE or a tail (ORDER BY, LIMIT, GROUP BY, HAVING) begins, each with the scope it belongs to: the SELECT, an arm of a UNION, a subquery, a window or a string literal. The injection looks at the first of them whatever its scope is, as the regular expressions do. A WHERE holds the branches of its top-level OR, a placeholder is a number; and `Selects` says what rows a text selects, to state what the injection achieves. |
| `Requests` | `router.ts`, `middleware.ts`, `context/store.ts`, `define-action.ts`, `tenancy/index.ts` | composes the two: `frames` is the stack of AsyncLocalStorage stores of each request's chain of promises. `Arrive` and `Verified` are the middleware before and after the awaited verification, `Dispatch` the handler wrapper up to the call, and one action per operation that a handler may do through its context. |
| `Money` | `packages/finance/src`, `crates/formula-engine`, `crates/rule-engine`, the money part of the bridge's fallback | operators only: a decimal is a numerator over a power of ten; `Quot` is the one place where the rounding modes differ. `taxRateBP` has the three sources of a tax rate; a destination keeps whether its country is written in capitals and whether its VAT id is empty, which the implementations treat differently. |
| `Native` | `native/bridge.ts`, `crates/bindings`, `scheduler`, `crypto`, `serializer`, `query-planner` | `native` is the module variable `_native`, `heap` the scheduler's, `entry` one ledger entry on its way. `resetNative`, `setNative`, `Build` and `Restart` change the engine under the calls. What is handed out (licenses, hashes, signatures, blobs) is a record of what it was made from and by whom. A tenant's id keeps its quotes, which `escape` doubles in the addon only; `Read` is what a database makes of the clause. |
| `Config` | `config/schema.ts`, `config/validate.ts` | operators only: a schema is a table of accepted values and defaults per field; `defineConfig` gives the resolved configuration or the error. |
| `Scaffold` | `cli/src/scaffold.ts`, flags of `init.ts` and `create-intellibiz` | operators only: `parseArgs` with the boolean `true` of a flag without a value (`BooleanTrue`) apart from the string of `--flag=true`, what `main` and `init` make of a command line (`createRun`, `initRun`; the parser of `init` is the library citty's), and of each generated file what it imports, reads from the environment, mounts, lists or configures. The text is left out. |
| `Cli` | `project.ts`, `prompt.ts`, `commands/init.ts` | extends `Scaffold` with processes that look at a directory and write files one by one, while others write there too. |
| `Plugins` | `plugin/registry.ts`, `define-plugin.ts` | `container` maps a key to the plugin whose instance it holds. `loadAll` and one `load` per turn of its loop; a factory may throw after any number of services. |
| `Sockets` | `buildSocketContext` | the room of each message's context beside the rooms that the driver keeps for the connection. |
| `App` | | composes `Cli`, `Config`, `Plugins` and `Sockets`: `phase` leads from boot to load to serve, each entered only when the one before it succeeded, or is `create` for the machine where the project is made. `MutateConfig` is an assignment to a nested field. |
| `TestKit` | `packages/testing/src` | the fields of a `MockGateway` and its calls that wait for a handler, the clock of `time-travel.ts`, the switches of `mockPayments`, the test ledger; assertions and contexts as operators. Its specification is `KitSpec`, and its other names begin with `Kit` too where `Requests` has the same ones. |
| `MC*` | | constants for TLC. |
| `BankRetryProofs`, `LedgerProofs`, `PaymentsProofs`, `TransactionProofs`, `EventBusProofs`, `RequestsProofs`, `NativeProofs`, `AppProofs` | | the TLAPS proofs about the module of that name and those that it extends; `RequestsProofs` holds those of `TestKit` too, as both rest on the permissions of `Identity`. |

Each module has definitions named `X_Something` with a comment "a plausible
bug": variants of `X` that no specification uses. They are there to show that the
properties can fail: with `X` replaced by the variant, TLC finds the property
violated.

## 3. Runs

| run | bounds | shows |
|---|---|---|
| `bank_retry` | 2 payments, 2 retries, interval 2, duration 3 | `TypeOK`; `ActiveEntryIsPolled`: nothing in the map is stuck or resolved; `GivesUpOnlyAfterMaxDuration`; `NotifiedTwiceOnlyAfterForce`; `OrphanOnlyAfterLateVerdict`: the only ways in which a polling entry is missing from the map; `ResolvedNeverPolledAgain`; `EveryRetryResolves` (liveness) |
| `payments` | 3 deliveries of 5 notifications of 3 providers, two of them in one behaviour; TTL 3, tolerance 1, clock to 4 | `NothingHandledTwice` (`HandledAgainOnlyAfterTTL`, `StripeReplaysAreIgnored`); `DropsAreJustified` (`DuplicateOnlyAfterSuccess`, `DropsOnlyWhatWasSeen`); `ChargesStateTheAmount` |
| `transaction` | 2 charges, 1 license, 3 adapters, one of them without refund | `CompensationsInReverse`; `RefundsAreExact` (`RefundsOnlySucceeded`, `RolledBackRefundsRegistered`); `FinalStateIsTrue` (`StateTellsHowItEnded`); `ThrowSettles` (liveness) |
| `transaction_inflight` | 1 adapter, so that no provider change is involved | violation of `RolledBackMeansRefunded` |
| `ledger_threads` | 2 writers, 2 flushers, ring of 2, 4 writes | `NoDanglingPrevious`; `RingKeepsEntries` (`WrittenOnce`) |
| `ledger_single` | 1 writer, 1 flusher | `BatchesVerify`, and the refinement `ImplementsHashChain`: an unbroken chain |
| `ledger_fork` | 2 writers | violation of `ChainContinuous` |
| `event_bus` | 2 emissions, up to 2 registrations, budgets -1 to 1, 1 crash | `DeliveriesAddUp` (`ResultAddsUp`, `DeadLettersMatchFailures`, `CalledWithinBudget`); `SettledTaskIsFinal`; `EmitReturns` (liveness) |
| `requests` | 2 requests, one with each of 27 inputs (tokens, Host headers and URLs, tenant header, method, body, route, statements) and up to 2 operations, one beside it with 1 | `QueriesAreForOwnTenant`; `BypassLeavesTrail`; `QueriesAreSound` (`SelectsAreFiltered`, `QueriesAreWellFormed`); `AnswersAreRight` (`InvalidInputHasNoEffect`, `HandlerErrorsKeepTheirStatus`, `ChecksAgreeWithRust`, `ResolversAgree`); `EveryRequestAnswered` (liveness) |
| `engine` | 3 calls, room for 2 jobs, clock to 1, 4 events of the scheduler per process; amounts of -25 to 25, lists of up to 3 ratios of -1 to 3; ids with up to 3 quotes; every country with a rate, in capitals or not, with no, an empty or some VAT id | `SchedulerKeepsOrder` (`AdmissionIsExact`, `NoOvertaking`); `JobsAreConserved`; `EnginesAgree` (`GenuineAccepted`, `ForgedRefused`, `PermissionsAgree`, `PlansAreConfined`, `FiltersAgree`, `RulesAgree`, `BackoffIsCapped`); `AmountsAgree` (`AllocationLosesNothing`, `AllocatorsAgree`, `MinorUnitsRoundTrip`, `RoundingWithinOneUnit`, `BasisPointsAgree`, `TotalsAddUp`, `TotalsAgree`, `PipelineVerdict`); `JobsRun` (liveness) |
| `app` | 2 creators and 2 files; every combination of scaffold options; 9 configurations; 2 calls of `loadAll` with 6 lists of 8 plugins; 2 messages, 2 connections, 2 rooms | `FilesSeenAreKept`; `GeneratedProjectsWork` (`GeneratedFilesFit`, `GeneratedConfigBoots`, `WorkflowRunsScripts`, `NamesAreUsable`, `CreatorsAgree`, `ArgumentsAreReadOnce`); `ConfigIsSafe` (`ResolvedConfigsAreStable`, `RunningConfigIsSafe`); `LoadingIsSound` (`LoadedPluginsAreComplete`, `CyclesNeverLoad`); `ContainerOnlyGrows` (`ServicesKeepTheirOwner`, `HalfLoadedStaysOut`); `RoomsFollowTheHandler` (`BroadcastsGoToOwnRoom`, `RoomLostOnlyByLeaving`) |
| `testkit` | 3 charges, 1 reset, 1 refund, 2 set-ups, 3 step failures, 3 ledger entries, clock to 2 | `GatewayTellsTheTruth` (`CountersMatchHistory`, `ResultsMisfiledOnlyByOverlap`, `PaymentIdsAreDistinct`, `StepFailuresInOrder`); `AssertionsAreSound` (`ChronologicalUnlessRewound`, `AssertionsAgree`, `PatternsTellOutcomes`, `HelpersHaveTheirRoles`); `SettingsTakeEffect` (`FirstNFail`, `ForcedFailureIsUsedOnce`, `ClockMovesAsSet`, `ClockRunsBackOnlyWhenSet`, `TestsStartAtRealTime`) |

A name with others in parentheses is a property that is the conjunction of those:
one idea, in parts that are stated and commented one by one in the module. The type
invariant of each module is a conjunct of one of its properties (in `bank_retry` it
stands alone). Properties of operators (money, scaffolding, configuration, keys)
quantify over all arguments within the bounds; as no step changes an operator, TLC
evaluates them in the states in which nothing has happened yet (`Unused`,
`NotBegun`), which Init contains.

Why the bounds are enough. The hazards involve two of a kind: a retry and its
successor for the same payment, a delivery and its redelivery, two charges of
which one fails, two writers, two emissions, two calls of `loadAll`, two handlers of
a connection. Three deliveries allow one that
fails, one that succeeds and one after that. An interval of 2 and a duration of 3
do not divide, which is where a limit counted in attempts and one counted in time
differ; `BankRetry` stops an entry's clock at `Horizon`, beyond which the code
compares nothing. A ring of 2 slots with 4 writes fills, refuses and drains, and so
does a heap of 2 with 3 calls. The clock of `Payments` runs past the TTL, which is
longer than the tolerance on both sides of a signature's time, as it is in the code
(24 hours and 5 minutes). The notifications come in pairs, since a confusion is
between two. The amounts of `engine` reach every remainder of the
currencies' precision with both signs. The statements of `requests` put the first WHERE
and the first tail into each kind of scope. The plugins include
one that two others can satisfy, a cycle by names and a cycle by service keys. The runs of
`Transaction` and `Ledger` end when the function has settled and its charges are
answered, or when the writes are used up, and those of `Requests` when every request
is answered; an application may fail to boot, a scheduler's log and a test may be
used up: these do not check deadlock, the other systems never stop. A second request
is what it takes to confuse two contexts, and two operations what it takes to use a
sudo builder or to query inside a called action.

Fairness. The event loop runs due timers and continuations, so the actions that
are such continuations are weakly fair, and time passes. The rest is an
assumption on the environment that the code makes without a timeout: the bank's
status call settles (`BankRetry`), refunds settle (`Transaction`), listeners
settle (`EventBus`), token verification settles and handlers end after finitely many
operations (`Requests`). In `Native` the fair action is `schedulerPoll`: nothing in
the repository calls it, it is for a worker of the application, and `JobsRun` says
what such a worker can rely on if it keeps polling. Nothing is assumed of calls into
the components: nobody has to call `forceResolve`, and a user's function need not
end. Safety does not use fairness.

### What the violations show

- `transaction_inflight`: one branch of a `Promise.all` throws while a charge is
  in flight. The charge succeeds, its compensation is pushed on a stack that has
  already been copied, and the state is `ROLLED_BACK` (`transaction/index.ts:166`).
- `ledger_fork`: two threads read the same tip (`ledger/src/lib.rs:213`).

The passing runs bound the damage: every charge registered when the function threw
is refunded; no entry of a forked ledger is lost or hangs off a missing block.

### What the exceptions in the properties record

Where the code does less than one might expect, the property, or the part of it named
here, says exactly where:

- `StateTellsHowItEnded`: `COMMITTED` says that the function returned and that no charge
  is in doubt at the bank. A declined charge does not throw, so a charge may have failed,
  been rejected or not been answered, although `transaction/index.ts:131` and
  `docs/api/commerce.md:59` explain the state as "all steps succeeded".
  After a throw the end of the rollback may overwrite the doubt (`index.ts:222`).
- `NotifiedTwiceOnlyAfterForce`: `forceResolve` during a status check. The callback
  applies the bank's verdict without looking at `resolved` again, so `onResolved` runs
  twice, for instance with `ROLLED_BACK` and then `COMMITTED` (`bank-retry.ts:147`).
- `HandledAgainOnlyAfterTTL`: two deliveries of one event that overlap in the handler
  both complete (`dedup.ts:96`).
- `DropsOnlyWhatWasSeen`: PayFast's event id is the payment's, so a COMPLETE that
  follows a PENDING is a duplicate (`payfast.ts:132`); and the cache key has no
  provider in it (`dedup.ts:35`).
- `ChargesStateTheAmount`: Ozow is told minor units over one hundred, in every
  currency (`payfast.ts:171`).
- `HandlerErrorsKeepTheirStatus` is about errors behind the middleware. Under strict
  tenancy the middleware itself throws an error with status 400, which does not pass
  through the catch block that would recognise it; `app.onError` answers 500
  (`router.ts:225`).
- `SelectsAreFiltered`: `docs/api/db.md` says that the filters are injected into every
  query. They narrow the first WHERE of the text, or stand in front of its first tail or
  at its end, whatever that belongs to (`template.ts:56-72`). So the other arms of a UNION
  are not filtered, nor is the outer query if the first WHERE is in a subquery that yields
  no rows or in a string literal; a later branch of a top-level OR is not, since the
  filter is ANDed in front of the author's condition without parentheses; and a tail that
  belongs to a window or a literal attracts a WHERE where none may stand. The property
  says for every row which case it is, and `QueriesAreWellFormed` leaves the last one out.
  A statement that mentions `org_id` anywhere is left alone.
- `ResolversAgree` is about the kernel's `resolveTenant` and the resolver of
  `packages/identity`, which the kernel does not call. It leaves out requests whose tenant
  the host alone decides, where (1) there is no Host header: the kernel takes the URL's
  host (`middleware.ts:23`), the other resolver none (`resolver.ts:96`); or (2) the kernel
  finds no tenant or one that the other reserves: that one makes a tenant of the first
  label of a bare host or an IP address, and the two reserve different labels
  (`localhost.example.com`).
- `JobsRun`, `GenuineAccepted`, `ForgedRefused`: the fallback drops the jobs it accepts
  and does not check signatures, although `bridge.ts:104` calls it "functionally
  correct"; nor does it keep ledger entries (`bridge.ts:113`), although line 10 speaks of
  "an in-memory WAL for the ledger", of which no property speaks. Across engines only license keys are interchangeable, and refusals are
  stated of the addon.
- `FiltersAgree`: the addon doubles the quotes of a tenant's id (`query-planner/src/lib.rs:232`)
  and refuses invalid names of tables; the fallback writes the id as it is and ignores the
  table (`bridge.ts:175`). The clauses are the same exactly for ids without quotes and
  valid tables, and only then does the fallback's mean the tenant.
- `RulesAgree`: the fallback's `ruleEvaluate` passes everything and charges no tax
  (`bridge.ts:165`). It agrees with the pipeline exactly where that passes and charges
  nothing.
- `AllocationLosesNothing`: nothing is lost of the whole minor units, to which the amount
  is cut down first (`money/index.ts:92`). So 2.9985, the result of a multiplication, shows
  as 3.00 and is allocated as 2.99, although line 75 and `docs/api/finance.md` say that no
  cent is lost. `AllocatorsAgree`: a negative amount is split differently by the Rust
  engine and by `Money`, with the same sum. `BasisPointsAgree`, `TotalsAgree`: at exact
  ties the roundings differ by one unit.
- `TotalsAgree`: the rule pipeline knows countries in capitals only, and takes an empty
  VAT id for one; `calculateTotal` calls `toUpperCase` and takes it for none
  (`calculator.ts:67`). There the pipeline charges no tax. `TotalsAddUp` is about an
  explicit rate, a destination or neither.
- `RunningConfigIsSafe`: `Object.freeze` is shallow, so a nested field can be assigned,
  although `validate.ts:94` says that all fields are frozen.
- `HalfLoadedStaysOut`: a plugin whose second factory throws cannot be loaded again in
  the same process (`registry.ts:129`). `CyclesNeverLoad`: a cycle through service keys
  is not reported as one (`registry.ts:68`).
- `GeneratedConfigBoots`, `WorkflowRunsScripts`, `GeneratedFilesFit`: commerce without
  finance is generated and refused at boot; a workflow without tests runs `pnpm test`;
  `.env.example` names the database `app`; the type `RefundParams` is imported and not
  exported.
- `FilesSeenAreKept`: a file that appears after the directory was looked at is written
  over (`project.ts:34`). `ArgumentsAreReadOnce`: the project's name behind a flag
  without a value is taken for that value. `CreatorsAgree`: `create-intellibiz`
  understands `-y` and `-f` (`bin.ts:50`), `init` declares no alias for its switches
  (`init.ts:50`); `--yes=true` and `--force=true` are strings to the first, which asks for
  the boolean (`bin.ts:83`), and switches to the second; and an empty value is passed on by
  the first and left out by the second.
- `BroadcastsGoToOwnRoom`, `RoomLostOnlyByLeaving`: rooms are kept per message, so that
  another handler's `leave` is not seen, and leaving the last room joined forgets the
  earlier ones (`builders.ts:136`).
- `ResultsMisfiledOnlyByOverlap`: a result goes to the last entry of the history
  (`mock-gateway.ts:127`). `HelpersHaveTheirRoles`: the role `system` has no permissions.
- `SettingsTakeEffect`: a custom handler goes before the error that `failNext` sets
  (`mock-gateway.ts:125`), which waits as long as the handler answers, although line 69 says
  that the next charge throws; `advance` does nothing to a frozen clock
  (`time-travel.ts:37`), then or later, as what unfreezes the clock drops the offset,
  although line 61 says that `advance` is reflected. `PatternsTellOutcomes`: of ledgers that
  no transaction writes the assertion tells nothing: it accepts every outcome that stands in
  them, also before PENDING (`ledger-assert.ts:204`), although line 189 gives the order.

Noticed while reading, and outside any property: `mockPayments.failNext` sets a switch
that no package reads, and nothing calls `recordTestLedgerEntry` but tests;
`resetTestState` leaves the dead letter queue, an exchanged `Date.now` and the test's
own gateways as they are; the generated `src/index.ts` does not import
`intellibiz.config.ts`.

## 4. Proofs

TLC checks small instances; the theorems hold for every value of the constants that the
assumptions allow. Each module has one inductive invariant, proved as a theorem of its
own; it contains the type invariant, and the properties follow from it. TLC checked each
invariant on the instance of the module's run before it was proved. The assumptions say
little more than that the constants have their types and that a value which stands for
"none" is none; where one says more it is named below.

| module | theorems | states the property |
|---|---|---|
| `BankRetryProofs` | `TypeCorrect`, `ActivePolled`, `NeverGivesUpEarly`, `AtMostTwoNotifications`, `NeverPolledAgain`, `OrphansAreExplained` | `TypeOK`, `ActiveEntryIsPolled`, `GivesUpOnlyAfterMaxDuration`, `NotifiedTwiceOnlyAfterForce`, `ResolvedNeverPolledAgain` (of steps), `OrphanOnlyAfterLateVerdict` |
| `LedgerProofs` | `NeverDangling`, `RingLosesNothing`, `SingleWriterRefines`, `SingleThreadsVerify` | `NoDanglingPrevious`, `RingKeepsEntries`, `ImplementsHashChain` (refinement), `BatchesVerify` |
| `PaymentsProofs` | `EndpointImplementsWebhooks`, `NeverHandledTwice`, `NeverDroppedForNothing`, `AmountsStated` | that `PaymentSpec` implements the specification of `Webhooks`; `NothingHandledTwice`, `DropsAreJustified`, `ChargesStateTheAmount` |
| `TransactionProofs` | `RollbackInReverse`, `RollbackIsExact`, `FinalStateHolds` | `CompensationsInReverse`, `RefundsAreExact`, `FinalStateIsTrue` |
| `EventBusProofs` | `DeliveryAccounting`, `SettledIsFinal` | `DeliveriesAddUp`, `SettledTaskIsFinal` (of steps) |
| `RequestsProofs` | `OwnTenantOnly`, `TrailIsComplete`, `AnswersHold`, `QueriesSound` (with `SelectsConfined`, its half) | `QueriesAreForOwnTenant`, `BypassLeavesTrail`, `AnswersAreRight`, `QueriesAreSound` |
| `RequestsProofs`, for `TestKit` | `GatewayIsTrue`, `SettingsHold`, `AssertionsHold` | `GatewayTellsTheTruth`, `SettingsTakeEffect` (of steps), `AssertionsAreSound` |
| `NativeProofs` | `SchedulerInOrder`, `AcceptedIsKept`, `EnginesDecideAlike`, `AmountsAddUp` | `SchedulerKeepsOrder`, `JobsAreConserved`, `EnginesAgree`, `AmountsAgree` |
| `AppProofs` | `SeenFilesKept`, `LoadingHolds`, `ContainerGrows`, `RoomsFollow`, `ConfigHolds`, `ProjectsWork` (with `EveryNameIsUsable`, `EveryArgumentIsReadOnce` and `CommandLinesAgree`) | `FilesSeenAreKept` (of steps), `LoadingIsSound`, `ContainerOnlyGrows` (of steps), `RoomsFollowTheHandler` (of steps), `ConfigIsSafe`, `GeneratedProjectsWork` |

None of the properties is inductive alone. What the invariants add, and why:

- **`RetryInv`** (any payments and entries, any positive interval and duration).
  `NotificationOrder`: `resolved` means exactly that somebody was told, and an entry that
  is told once and still being checked was forced; this leaves room for one late verdict
  and no more. `AttemptsTakeTime`: when the timer of attempt *n* is due, *n* intervals
  have passed; with `AttemptsCoverDuration` (the number of attempts is rounded up) it
  follows that spending the attempts takes the whole duration. `GaveUpInTime`: what the
  history records about giving up. There is one lemma per action, all but two of them
  through `StoreInv`, which says what an action must show of the entry it writes back.
- **`LedgerInv`** (any number of writing and flushing threads). `Numbering`: entries that
  were pushed or are about to be have different ids. `Linked`: the stored tip, and every
  tip that a thread read, is that of a block pushed before, so nothing dangles even where
  the chain forks. `Drained`: an entry that was popped is in one batch, of a thread that
  is still draining or returned. The rest is about one thread at a time, which the
  theorems state as a hypothesis, since with two writers the chain does fork (run
  `ledger_fork`): under `SingleWriter`, `TipInv` says where the tip is at each step of
  `write`, which gives the steps of `HashChain`; under `SingleFlusher` besides,
  `SuffixInv` says that what the thread holds is the end of what was popped.
- **`WebhookInv`** and **`EndpointInv`** (any deliveries, notifications, TTL and
  tolerance). `CacheIsJustified`: an entry of the cache is that of a delivery handled to
  the end. `CacheRemembers`: every such delivery has an entry at least as late as its
  own, or that has expired. `KnownWasHandled`: the history of a duplicate check stays
  true after the cache is cleared. `EndpointImplementsWebhooks` carries them over to the
  endpoint, where `EndpointInv` says what was delivered is what the notification held.
  `NotificationAssumption`: the ids that Stripe and Ozow give to different notifications
  are different, also from the random ids and from payments; PayFast's need not be.
  `AmountsStated` needs no invariant: for any amount in thousandths, `MinorUnitsAreWhole`
  says that rounding to minor units leaves a whole number, and `PrecisionMatters` that
  the same number of units at two and at another number of decimals is the same value
  only if it is none, which is the case of Ozow.
- **`TxInv`** (any charges, licenses and adapters, and a provider that is exchanged at
  any moment). `Stacked`: a charge is on the stack once and only after its status is
  final. `Unwinding`: the log and what is still to do are together the stack as it was
  when the function threw, read backwards. `Logged` and `StateMatches`: what the log and
  `txState` say is true of the charges. `FinalStateHolds` is about how the call ended and
  about charges in doubt; of charges that failed or were not answered it
  says nothing.
- **`BusInv`** (any events, listeners, emissions and budgets). `emit` reports counters;
  `Counted` says for calls in flight that each is the number of tasks in the phase it
  counts, and `TasksOK` that a task's number of calls follows from its phase and attempt.
- **`RequestInv`** and **`AnswerInv`** (any number of requests and any inputs).
  Statements and the governance log learn who asks from the ambient context alone, so
  `OwnFrames` says what every frame of every request holds, and `OwnStore` that it is
  what the request's own input determines. `Trail`: a builder for sudo queries exists
  only if its record does. On top of it `AnswerInv` says what a request has done and was
  told at each point: `Refused` that one whose body is invalid did nothing, `Checked`
  that each permission check answered what the Rust registry would about the role that
  the input gives, which the lemma `CanAgrees` shows for all roles and permissions,
  `Answered` what the handlers of errors make of what was thrown. `SelectsConfined` is
  about any sequence of clauses in any scopes: `Injected` says, for each of the three places
  where the filters may go (an existing WHERE, in front of a tail, at the end), which rows
  the new text selects in the arm that holds the place and in the others, and `Issued` that
  the tenant it was made for is still the request's own. `QueriesSound` adds
  what a template compiles to: the clauses of each scope stay in the order of SQL, and its
  placeholders are numbered as its values are bound. `CompileSteps` unrolls the fold over the
  values, fragments within fragments included, and an induction over its steps (`Holds`)
  counts the placeholders so far. `StatementAssumption`: an author's text is a sequence of
  clauses with known keywords, in the order of SQL within each scope, a WHERE has a
  condition, and the values of a template are numbered as they are bound. Which scopes there
  are, how they nest and which arms they belong to is not restricted.
- **`KitInv`** (any charges, resets, switches and entries). For the gateway, the
  counters are cardinalities of the history. A call that overlaps another may have its
  result filed under the other's entry, so `ResultsFiled` says where results may stand,
  `PendingHaveEntries` that a call whose handler runs has an entry, `WaitingOnce` that it
  waits once, and `LostByReset` that only a reset takes its entry away; `FailuresLeft`
  counts what `failNextN` has still to fail. `FailureForced` and `ClockMoves` are about
  single steps: which charge `failNext` forces, and where the virtual clock goes. For
  the switches, `Ordered` relates the failures that are left with those that were given. For the ledger, `NotAfter` says that
  no entry is later than the clock unless a test set the clock back, and `FilteredAlike`
  that filtering by two fields is filtering by one after the other, by induction over the
  entries. `TestKitAssumption`: `NoValue` is no number, entry or role.
- **`SchedulerInv`** (any calls and capacity). The properties are about the log, while
  admission and order are decided by the heap: `Agree` says that the two tell the same
  story, `NoneOvertaken` that no job in the heap has been overtaken so far, and `Exact`
  and `InOrder` are the properties up to now. `JobsAreConserved` is `Agree` and what it
  says of deliveries. `PollStopsOnce` shows that what a poll
  takes is an initial part of the order, from the well-foundedness of the naturals.
- **`EnginesDecideAlike`** and **`AmountsAddUp`** are about operators, in every state.
  The first is for any data that keys, passwords, signatures and blobs are made from; roles,
  permissions, tables, tenant ids and inputs of the rules are the samples that the property
  names, which the proof goes through. That a backoff is capped is arithmetic over the
  attempts. The second is arithmetic over any sets of whole amounts, prices and ratios:
  `Quot` lies within one unit of the exact quotient in every mode (`Tie` is where the
  modes differ), and that an allocation hands out what there was is an induction over the
  ratios. The verdict of the pipeline is about sample contexts. `NativeAssumption` and
  `FailureAssumption` say that amounts and ratios are whole numbers and that `Failure` is no
  result.
- **`AppInv`**. The parts of an application share no variable, so it is a conjunction of
  one invariant per part, which the other parts' steps leave alone. `InTurn`: a process
  that writes found the directory empty or was given `--force`. `CallsOK`: where a call of
  `loadAll` stands in its list. `CyclesOut`: of two plugins that need each other neither
  ever registered anything, of which `CyclesNeverLoad` is a part; `RegisterFacts` says
  what registering some services of a plugin does, given that `Free` stops in front of
  the first key that is taken. `ConfigInv` rests on `AcceptedIsSafe`, about what
  `defineConfig` accepts, and `ParsedIsStable`, for which every default of the schema is
  shown to be a value that its field accepts. `PluginAssumption`: the registry knows a
  plugin by its name, so names are unique.
- **`ProjectsWork`** is about operators too, in every state. `EachFits` goes through the
  generated files, and `ConfigBoots` through the sections of the generated configuration.
  TLC checks names and command lines up to a length of four; `EveryNameIsUsable`,
  `EveryArgumentIsReadOnce` and `CommandLinesAgree` are about any length, the last two over
  any flags and values. `FlattenIs` unrolls the concatenation
  with which the code's replacements are modelled, `KebabIs` says in which form
  `toKebabCase` leaves a name, and `KebabStable` that it leaves that form alone.
  `JoiningKeeps` follows each argument to its place when a flag is joined with its value.
  `ScaffoldAssumption`: `Failure` is no
  result; `CommandAssumption`: `BooleanTrue` is none of the strings that TLC tries as values.

Induction. The library's induction theorems take an operator as a parameter, which no
installed back end can instantiate. Where a fold or a recursive function has to be
followed, the proofs use the lemma `EveryNumber`, which states induction over the natural
numbers for a set and rests on their well-foundedness; the helpers that such proofs follow
are recursive functions in the model (`EntriesAt` in `TestKit`), as `SelectSeq` cannot be
expanded.

What the prover cannot do here, and TLC checks: liveness (`EveryRetryResolves`,
`EmitReturns`, `ThrowSettles`, `EveryRequestAnswered`, `JobsRun`), since it handles
neither fairness nor ENABLED.

## 5. Not modelled

Website, examples, build scripts and plugin stubs: no behaviour beyond input and
output. The CLI's commands other than `init` print text or start other programs. The
adapters' `refund` has no effect of its own. Job and task contexts copy fields; the
logger formats; the service registry is filled once, at import. Inside the modelled
parts: license keys and expiry dates of a transaction, event payloads, log lines, the
length of a backoff of the event bus, `validate_double_entry` (it compares a sum with
itself), the text of sudo and raw queries, response headers, a handler's own
`try`/`catch`, locale-dependent formatting of money, the text of generated files.
Digests, random ids and signatures are taken to be injective. The words of SQL inside
identifiers or comments, and how a database judges a text whose WHERE stands in a literal
or a window, are left out. JavaScript's floating
point is modelled by the exact value: for every amount within the bounds of the run the
two round alike, for larger ones they need not.

## 6. Plan

Done, in this order: `BankRetry` and its proofs, `Webhooks`, `Transaction`,
`Ledger` with `HashChain`, `EventBus`, `Requests` with `Identity` and `SqlTemplate`;
then `Money`, `Native`, `Payments`, `Config`, `Scaffold`, `Cli`, `Plugins`, `Sockets`,
`App`, `TestKit`.

Next: `emit` in a handler (`EventBus` composed with `Requests`), and a payment from
charge to final state (`Transaction` with `BankRetry` and `Payments`).

Proofs done: every safety invariant and action property that a passing run checks, and
both refinements.
