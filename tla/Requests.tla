------------------------------- MODULE Requests -------------------------------
(***************************************************************************)
(* The life of HTTP requests (packages/http): the kernel middleware that   *)
(* resolves who a request is from, the router's handler wrapper, the       *)
(* AsyncLocalStorage context the handler runs in (packages/core), actions  *)
(* and their input validation, and what a handler does through its         *)
(* context: permission checks (packages/identity), sql, sudo and raw       *)
(* queries and their governance log (packages/db), the response.           *)
(*                                                                         *)
(* Requests interleave wherever the code awaits. What a handler does is    *)
(* application code: any sequence of at most MaxOps[r] of the operations    *)
(* its context offers.                                                     *)
(***************************************************************************)
EXTENDS Identity, SqlTemplate

CONSTANTS
    Reqs,           \* the requests; one's trace id is the request itself
    InputsOf,       \* request -> the inputs it may arrive with, and opts.strictTenancy
                    \* of the router it arrives at
    StatementsOf,   \* request -> the statements its handler may issue
    ResultsOf,      \* request -> what its handler may return
    ErrorsOf,       \* request -> the errors its handler may throw
    PermissionSets, \* the arguments of can, canAll and canAny
    HasSecret,      \* opts.jwtSecret is set
    MaxOps          \* bound: request -> operations of its handler

\* The IntellibizStore of a request: who it is from, given the claims of its token.
IdentityFrom(r, in, claims) ==
    [ traceId  |-> r,
      tenantId |-> resolveTenant(in, claims, in.strict),
      userId   |-> IF claims = NoValue THEN NoValue ELSE claims.userId,
      role     |-> IF claims = NoValue THEN "anonymous" ELSE claims.role ]

\* IntellibizError subclasses, and plain Errors with a code and a status.
IntellibizError(status) == [class |-> "IntellibizError", status |-> status]
DomainError(status) == [class |-> "Domain", status |-> status]
PlainError == [class |-> "Plain", status |-> NoValue]

\* The verbs of the router and of its groups: each registers the handler with its own
\* name, by which the wrapper decides on a body and on the status.
Verbs == {"GET", "POST", "PUT", "PATCH", "DELETE"}

\* Requests and errors are what HTTP and the error classes make them; the values that
\* say that something is missing or has failed are none of those they are told from.
ASSUME RequestAssumption ==
    /\ HasSecret \in BOOLEAN
    /\ MaxOps \in [Reqs -> Nat]
    /\ Failure \notin BOOLEAN
    /\ NoValue \notin Nat
    /\ \A r \in Reqs :
          /\ \A in \in InputsOf[r] :
                /\ in.method \in Verbs
                /\ \A claims \in {NoValue, ClaimsOf(in.token)} : IdentityFrom(r, in, claims) # NoValue
          /\ \A err \in ErrorsOf[r] : err.class # "Plain" => err.status \in Nat
          /\ ResultsOf[r] \subseteq {"undefined", "string", "object"}

\* The clauses of each SELECT of a query are in the order SQL asks for.
ClauseOrder == <<"FROM", "WHERE", "TAIL">>
Rank(clause) == CHOOSE k \in 1..3 : ClauseOrder[k] = clause.keyword
InOrder(text) ==
    \A j, k \in DOMAIN text :
       j < k /\ text[j].scope = text[k].scope => Rank(text[j]) < Rank(text[k])

\* How many numbers the values before each of a template's take, n of them before the first.
ParamsOf(v) == IF v.fragment THEN Len(v.of.params) ELSE 1
Offsets(values, n) ==
    LET before[k \in 1..Len(values)] ==
          IF k = 1 THEN n ELSE before[k - 1] + ParamsOf(values[k - 1])
    IN  before

\* A fragment with the numbers that follow n, and a placeholder for each.
WellFormed(f, n) ==
    LET m == Len(f.params)
    IN  m \in Nat /\ f.params = [i \in 1..m |-> n + i] /\ f.placeholders = [i \in 1..m |-> i]

\* The values of a template are numbered from left to right, from n + 1 on.
Numbered(values, n) ==
    \A k \in DOMAIN values :
       LET before == Offsets(values, n)[k]
       IN  IF values[k].fragment THEN WellFormed(values[k].of, before)
           ELSE values[k].of = before + 1

\* A text is a sequence of clauses, in order within each scope, and a WHERE has a
\* condition at least; the values of a template carry their numbers, to tell them apart.
ASSUME StatementAssumption ==
    \A r \in Reqs : \A stmt \in StatementsOf[r] :
       /\ stmt.text \in Seq(ToSet(stmt.text))
       /\ \A clause \in ToSet(stmt.text) :
             /\ clause.keyword \in ToSet(ClauseOrder)
             /\ IsWhere(clause) => clause.or # <<>> /\ clause.or \in Seq(ToSet(clause.or))
       /\ InOrder(stmt.text)
       /\ stmt.values \in Seq(ToSet(stmt.values))
       /\ Numbered(stmt.values, 0)

VARIABLES
    pc,         \* where each request is
    input,      \* what it arrived with
    store,      \* its IntellibizStore, NoValue before the middleware sets it
    frames,     \* the AsyncLocalStorage stores its code runs in, innermost last
    ops,        \* operations its handler has done
    override,   \* _statusOverride
    sudo,       \* its handler holds a SudoBuilder
    queries,    \* the queries its handler has built
    checks,     \* the permission checks it has made, with their answers
    thrown,     \* the error that ended it
    resp,       \* the status it was answered with
    governanceLog

vars == <<pc, input, store, frames, ops, override, sudo, queries, checks, thrown, resp,
          governanceLog>>

PCs == {"new", "verifying", "dispatch", "handler", "done"}

Input(r) == input[r]

-----------------------------------------------------------------------------
(* Errors and responses *)

ActionValidationError == IntellibizError(422)
UnauthenticatedError == DomainError(401)
ForbiddenError == DomainError(403)
StrictTenancyError == DomainError(400)

\* A plausible bug: only IntellibizError instances are recognised.
HandlerErrorStatus_ClassOnly(err) == IF err.class = "IntellibizError" THEN err.status ELSE 500

\* The catch block of wrapHandler.
HandlerErrorStatus(err) == IF err.class = "Plain" THEN 500 ELSE err.status

\* app.onError, for what the middleware throws.
GlobalErrorStatus(err) == IF err.class = "IntellibizError" THEN err.status ELSE 500

\* buildResponse
InferredStatus(method, result) ==
    CASE result = "undefined" -> 204
      [] result = "string"    -> 200
      [] result = "object"    -> IF method = "POST" THEN 201 ELSE 200

-----------------------------------------------------------------------------
(* The context *)

\* AsyncLocalStorage gives code the store of the innermost run() of its own chain
\* of promises.
getContext(r) == frames[r][Len(frames[r])]

\* A plausible bug: the store replaces the one of every chain that is running, as a
\* module variable would.
runWithContext_Shared(fs, r, s) ==
    [q \in Reqs |-> IF q = r \/ fs[q] # <<>> THEN Append(fs[q], s) ELSE fs[q]]

\* runWithContext around the code of r that follows, given every frame.
runWithContext(fs, r, s) == [fs EXCEPT ![r] = Append(@, s)]

Init ==
    /\ pc = [r \in Reqs |-> "new"]
    /\ input \in [Reqs -> UNION {InputsOf[r] : r \in Reqs}]
    /\ \A r \in Reqs : input[r] \in InputsOf[r]
    /\ store = [r \in Reqs |-> NoValue]
    /\ frames = [r \in Reqs |-> <<>>]
    /\ ops = [r \in Reqs |-> 0]
    /\ override = [r \in Reqs |-> NoValue]
    /\ sudo = [r \in Reqs |-> FALSE]
    /\ queries = [r \in Reqs |-> <<>>]
    /\ checks = [r \in Reqs |-> {}]
    /\ thrown = [r \in Reqs |-> NoValue]
    /\ resp = [r \in Reqs |-> NoValue]
    /\ governanceLog = <<>>

-----------------------------------------------------------------------------
(* Kernel middleware and handler wrapper *)

handlerVars == <<ops, override, sudo, queries, checks, governanceLog>>

\* The end of kernelMiddleware: resolve the tenant, set the store, next().
\* A strict tenancy violation leaves through app.onError.
SetStore(r, claims) ==
    LET given == IdentityFrom(r, Input(r), claims)
    IN  IF given.tenantId = Failure
        THEN /\ pc' = [pc EXCEPT ![r] = "done"]
             /\ thrown' = [thrown EXCEPT ![r] = StrictTenancyError]
             /\ resp' = [resp EXCEPT ![r] = GlobalErrorStatus(StrictTenancyError)]
             /\ UNCHANGED store
        ELSE /\ pc' = [pc EXCEPT ![r] = "dispatch"]
             /\ store' = [store EXCEPT ![r] = given]
             /\ UNCHANGED <<thrown, resp>>

AwaitsToken(r) == HasSecret /\ Input(r).token # NoValue

\* The request arrives; without a token to verify nothing is awaited.
Arrive(r) ==
    /\ pc[r] = "new"
    /\ IF AwaitsToken(r)
       THEN /\ pc' = [pc EXCEPT ![r] = "verifying"]
            /\ UNCHANGED <<store, thrown, resp>>
       ELSE SetStore(r, NoValue)
    /\ UNCHANGED <<input, frames, handlerVars>>

\* A plausible bug: the request is not continued when verifyJWT rejects.
Verified_NoCatch(r) ==
    /\ pc[r] = "verifying"
    /\ verifyJWT(Input(r).token) # Failure
    /\ SetStore(r, ClaimsOf(Input(r).token))
    /\ UNCHANGED <<input, frames, handlerVars>>

\* verifyJWT settles.
Verified(r) ==
    /\ pc[r] = "verifying"
    /\ SetStore(r, ClaimsOf(Input(r).token))
    /\ UNCHANGED <<input, frames, handlerVars>>

\* The body as the handler gets it: only POST, PUT and PATCH have one, and what
\* JSON.parse rejects is undefined.
Body(r) ==
    IF Input(r).method \in {"POST", "PUT", "PATCH"} /\ Input(r).body # "malformed"
    THEN Input(r).body ELSE NoValue

\* schema.parse of the action mounted on the route rejects the body.
Refuses(r) == Input(r).route = "schema" /\ Body(r) # "valid"

\* wrapHandler has awaited the body (a GET or DELETE gets here in the same turn) and
\* calls the handler inside the context. An action opens a context of its own, after
\* its schema accepted the body.
Dispatch(r) ==
    /\ pc[r] = "dispatch"
    /\ IF Refuses(r)
       THEN /\ pc' = [pc EXCEPT ![r] = "done"]
            /\ thrown' = [thrown EXCEPT ![r] = ActionValidationError]
            /\ resp' = [resp EXCEPT ![r] = HandlerErrorStatus(ActionValidationError)]
            /\ UNCHANGED frames
       ELSE /\ pc' = [pc EXCEPT ![r] = "handler"]
            /\ LET kernel == runWithContext(frames, r, store[r])
               IN  frames' = IF Input(r).route = "plain" THEN kernel
                             ELSE runWithContext(kernel, r, store[r])
            /\ UNCHANGED <<thrown, resp>>
    /\ UNCHANGED <<input, store, handlerVars>>

-----------------------------------------------------------------------------
(* What a handler does, one operation at a time *)

InHandler(r) == pc[r] = "handler"

Operation(r) ==
    /\ InHandler(r)
    /\ ops[r] < MaxOps[r]
    /\ ops' = [ops EXCEPT ![r] = @ + 1]

\* A query that bypasses the filters keeps its text, which is not modelled.
Built(r, kind, stmt, q) ==
    queries' = [queries EXCEPT ![r] = Append(@, [kind |-> kind, stmt |-> stmt, q |-> q])]

recordGovernance(r, type) ==
    governanceLog' = Append(governanceLog,
        [ type     |-> type,
          userId   |-> getContext(r).userId,
          tenantId |-> getContext(r).tenantId,
          traceId  |-> getContext(r).traceId ])

\* sql`...`
Sql(r) ==
    /\ Operation(r)
    /\ \E stmt \in StatementsOf[r] : Built(r, "sql", stmt, sql(stmt, getContext(r).tenantId))
    /\ UNCHANGED <<pc, input, store, frames, override, sudo, checks, thrown, resp, governanceLog>>

\* db.sudo(): the access is recorded once, when the builder is made.
Sudo(r) ==
    /\ Operation(r)
    /\ recordGovernance(r, "GOVERNANCE_SUDO_ACCESS")
    /\ sudo' = [sudo EXCEPT ![r] = TRUE]
    /\ UNCHANGED <<pc, input, store, frames, override, queries, checks, thrown, resp>>

\* A plausible bug: a sudo query needs no recorded builder.
SudoSql_Unrecorded(r) ==
    /\ Operation(r)
    /\ Built(r, "sudo", NoValue, [tenantId |-> "__sudo__"])
    /\ UNCHANGED <<pc, input, store, frames, override, sudo, checks, thrown, resp, governanceLog>>

\* The sql of a builder that the handler still holds.
SudoSql(r) ==
    /\ Operation(r)
    /\ sudo[r]
    /\ Built(r, "sudo", NoValue, [tenantId |-> "__sudo__"])
    /\ UNCHANGED <<pc, input, store, frames, override, sudo, checks, thrown, resp, governanceLog>>

\* db.raw(sqlString)
Raw(r) ==
    /\ Operation(r)
    /\ recordGovernance(r, "GOVERNANCE_RAW_QUERY")
    /\ Built(r, "raw", NoValue, [tenantId |-> "__raw__"])
    /\ UNCHANGED <<pc, input, store, frames, override, sudo, checks, thrown, resp>>

\* The wrapper's catch block: the error ends the request, whatever actions it
\* was thrown through.
Fail(r, err) ==
    /\ pc' = [pc EXCEPT ![r] = "done"]
    /\ thrown' = [thrown EXCEPT ![r] = err]
    /\ resp' = [resp EXCEPT ![r] = HandlerErrorStatus(err)]
    /\ frames' = [frames EXCEPT ![r] = <<>>]

\* if (!identity.canAll(ps)) throw identity.ForbiddenError(), or with canAny
Require(r) ==
    /\ Operation(r)
    /\ \E ps \in PermissionSets, all \in BOOLEAN :
          LET role == getContext(r).role
              answer == IF all THEN canAll(role, ps) ELSE canAny(role, ps)
          IN  /\ checks' = [checks EXCEPT ![r] =
                               @ \cup {[permissions |-> ps, all |-> all, answer |-> answer]}]
              /\ IF answer THEN UNCHANGED <<pc, thrown, resp, frames>>
                 ELSE Fail(r, ForbiddenError)
    /\ UNCHANGED <<input, store, override, sudo, queries, governanceLog>>

\* identity.getActiveUser()
GetActiveUser(r) ==
    /\ Operation(r)
    /\ IF getContext(r).userId = NoValue THEN Fail(r, UnauthenticatedError)
       ELSE UNCHANGED <<pc, thrown, resp, frames>>
    /\ UNCHANGED <<input, store, override, sudo, queries, checks, governanceLog>>

\* A call of another action, which may refuse its input.
CallAction(r) ==
    /\ Operation(r)
    /\ \/ /\ frames' = runWithContext(frames, r, getContext(r))
          /\ UNCHANGED <<pc, thrown, resp>>
       \/ Fail(r, ActionValidationError)
    /\ UNCHANGED <<input, store, override, sudo, queries, checks, governanceLog>>

\* The frames of the request's own handler.
BaseDepth(r) == IF Input(r).route = "plain" THEN 1 ELSE 2

\* The called action returns to its caller.
ActionReturns(r) ==
    /\ InHandler(r)
    /\ Len(frames[r]) > BaseDepth(r)
    /\ frames' = [frames EXCEPT ![r] = Front(@)]
    /\ UNCHANGED <<pc, input, store, ops, override, sudo, queries, checks, thrown, resp,
                   governanceLog>>

\* req.status(code): only a plain handler is given the request context.
SetStatus(r) ==
    /\ Operation(r)
    /\ Input(r).route = "plain"
    /\ override' = [override EXCEPT ![r] = 202]
    /\ UNCHANGED <<pc, input, store, frames, sudo, queries, checks, thrown, resp, governanceLog>>

\* The handler throws an error: an IntellibizError, a domain error or a plain one.
Throw(r) ==
    /\ InHandler(r)
    /\ \E err \in ErrorsOf[r] : Fail(r, err)
    /\ UNCHANGED <<input, store, ops, override, sudo, queries, checks, governanceLog>>

\* The handler returns and the response is built.
Return(r) ==
    /\ InHandler(r)
    /\ Len(frames[r]) = BaseDepth(r)
    /\ \E result \in ResultsOf[r] :
          resp' = [resp EXCEPT ![r] =
             IF override[r] # NoValue THEN override[r]
             ELSE InferredStatus(Input(r).method, result)]
    /\ pc' = [pc EXCEPT ![r] = "done"]
    /\ frames' = [frames EXCEPT ![r] = <<>>]
    /\ UNCHANGED <<input, store, ops, override, sudo, queries, checks, thrown, governanceLog>>

-----------------------------------------------------------------------------

HandlerStep(r) ==
    \/ Sql(r) \/ Sudo(r) \/ SudoSql(r) \/ Raw(r)
    \/ Require(r) \/ GetActiveUser(r)
    \/ CallAction(r) \/ ActionReturns(r)
    \/ SetStatus(r) \/ Throw(r) \/ Return(r)

Serve(r) == Verified(r) \/ Dispatch(r) \/ HandlerStep(r)

Next == \E r \in Reqs : Arrive(r) \/ Serve(r)

\* Node's event loop resumes every promise chain whose awaited promise settled,
\* and a handler ends after finitely many operations.
Spec == Init /\ [][Next]_vars /\ \A r \in Reqs : WF_vars(Serve(r))

-----------------------------------------------------------------------------
(* Properties *)

\* Each variable has its type; a request has an answer exactly when it is done.
TypeOK ==
    /\ pc \in [Reqs -> PCs]
    /\ \A r \in Reqs :
          /\ input[r] \in InputsOf[r] /\ Input(r).method \in Verbs
          /\ ops[r] \in 0..MaxOps[r]
          /\ Len(queries[r]) <= MaxOps[r]
          /\ (pc[r] = "done") <=> (resp[r] # NoValue)
          /\ sudo[r] \in BOOLEAN
    /\ \A i \in DOMAIN governanceLog : governanceLog[i].traceId \in Reqs

\* The tenant the documented order gives (docs/api/db.md, Tenant Resolution Order):
\* the first of the header, the verified claim and the subdomain that is there.
DocumentedTenant(r) ==
    LET claims == IF HasSecret THEN ClaimsOf(Input(r).token) ELSE NoValue
        sources == << Input(r).tenantHeader,
                      IF claims = NoValue THEN NoValue ELSE claims.tenantId,
                      HostTenant(resolveHost(Input(r))) >>
        given == {i \in 1..3 : sources[i] # NoValue}
    IN  IF given = {} THEN "system"
        ELSE sources[CHOOSE i \in given : \A k \in given : i <= k]

\* However requests interleave, every query that sql`...` builds is for the tenant
\* of the request whose handler builds it, although sql takes the tenant from the
\* ambient AsyncLocalStorage context and is told of no request.
QueriesAreForOwnTenant ==
    \A r \in Reqs : \A i \in DOMAIN queries[r] :
       queries[r][i].kind = "sql" => queries[r][i].q.tenantId = DocumentedTenant(r)

RecordsOf(r, type) ==
    {i \in DOMAIN governanceLog : governanceLog[i].traceId = r /\ governanceLog[i].type = type}

QueriesOf(r, kind) == {i \in DOMAIN queries[r] : queries[r][i].kind = kind}

\* The governance log names the request, tenant and user of every query that
\* bypasses the filters: one record per raw query, and at least one sudo record for
\* a request that ran sudo queries, written before them.
BypassLeavesTrail ==
    \A r \in Reqs :
       /\ Cardinality(RecordsOf(r, "GOVERNANCE_RAW_QUERY")) = Cardinality(QueriesOf(r, "raw"))
       /\ QueriesOf(r, "sudo") # {} => RecordsOf(r, "GOVERNANCE_SUDO_ACCESS") # {}
       /\ \A i \in DOMAIN governanceLog :
             governanceLog[i].traceId = r =>
                /\ governanceLog[i].tenantId = store[r].tenantId
                /\ governanceLog[i].userId = store[r].userId

\* A body that a schema action does not accept reaches no handler: no operation,
\* query or record results from it and the answer is 422.
InvalidInputHasNoEffect ==
    \A r \in Reqs :
       Input(r).route = "schema" /\ Body(r) # "valid" =>
          /\ ops[r] = 0 /\ frames[r] = <<>>
          /\ \A i \in DOMAIN governanceLog : governanceLog[i].traceId # r
          /\ store[r] # NoValue /\ pc[r] = "done" => resp[r] = 422

\* An error that carries a status is answered with that status, one that carries none
\* with 500, as the comments of router.ts and errors.ts promise of every error; but an
\* error of the middleware, which knows no store yet, is answered with 500 always.
HandlerErrorsKeepTheirStatus ==
    \A r \in Reqs :
       thrown[r] # NoValue =>
          resp[r] = IF thrown[r].class = "Plain" \/ store[r] = NoValue THEN 500
                    ELSE thrown[r].status

\* The permission checks of TypeScript, mask by mask, answer what the Rust registry
\* answers about the same role, which refuses what it does not know.
ChecksAgreeWithRust ==
    \A r \in Reqs : \A c \in checks[r] :
       LET Holds(p) == check_by_name(store[r].role, p) = TRUE
       IN  c.answer = IF c.all THEN \A p \in c.permissions : Holds(p)
                      ELSE \E p \in c.permissions : Holds(p)

\* Both tenant resolvers of the code give a request the same tenant, unless the host
\* alone decides and (1) there is no Host header: the kernel then takes the URL's host,
\* the resolver of packages/identity none; or (2) the kernel sees no subdomain in the
\* host, or one that only the other resolver reserves: that one takes the first label of
\* any host for a tenant, where the kernel wants three labels.
ResolversAgree ==
    \A r \in Reqs :
       LET ByHost == Input(r).tenantHeader = NoValue /\ ClaimsOf(Input(r).token) = NoValue
           tenant == resolveIdentity(Input(r), Input(r).strict).tenantId
       IN  store[r] # NoValue /\ HasSecret =>
              \/ tenant = store[r].tenantId
              \/ ByHost /\ Input(r).host = <<>>
              \/ ByHost /\ store[r].tenantId \in {"system"} \cup ReservedLabels

\* The rows that a filter has to let through.
Rows(tenants) ==
    [org : tenants, deleted : BOOLEAN, holds : SUBSET {<<"status", "active">>, <<"total", "high">>}]

\* A SELECT that does not mention org_id selects the author's rows, confined to the live
\* rows of the tenant, but not everywhere: exactly the arm that holds the first WHERE of
\* the text (or its first tail, or its end) is confined. An arm of a UNION that holds none
\* of these is not, nor is any arm if that WHERE is in a subquery that yields no rows or
\* in a literal; and the filter is ANDed to the first branch of an OR alone. The conditions
\* are the ones the Rust planner injects.
SelectsAreFiltered ==
    \A r \in Reqs : \A i \in DOMAIN queries[r] :
       LET entry == queries[r][i]
           stmt == entry.stmt
           tenant == store[r].tenantId
           Own(row) == row.org = tenant /\ ~row.deleted
           Wanted(arm, row) ==
              /\ SelectsIn(stmt.text, arm, row)
              /\ FilteredScope(stmt) \in arm => Own(row) \/ InLaterBranch(stmt.text, row)
       IN  entry.kind = "sql" /\ stmt.select /\ ~stmt.mentionsOrgId =>
              \A row \in Rows({tenant, "other"}) :
                 /\ Selects(entry.q.text, stmt.arms, row) <=> \E arm \in stmt.arms : Wanted(arm, row)
                 /\ InBranch(row, injected_filters(TRUE, tenant)) <=> Own(row)

\* Whatever fragments a template is put together from, its text keeps the order of
\* the clauses of each SELECT, its placeholders are $1, $2, ... from left to right and
\* each is bound to the value that was interpolated there. A WHERE that is put into a
\* window or a literal, which has no FROM, is out of place: of those nothing is said.
QueriesAreWellFormed ==
    \A r \in Reqs : \A i \in DOMAIN queries[r] :
       queries[r][i].kind = "sql" =>
          WellFormed(queries[r][i].q, 0) /\ InOrder(queries[r][i].q.text)

\* What is sent to the database is the author's query, confined to the tenant where the
\* filter lands, and with each value where its author put it.
QueriesAreSound == SelectsAreFiltered /\ QueriesAreWellFormed

\* What a request is told is right: refusals have no effect, errors keep their status,
\* and permission checks and the tenant are what the second implementation of each
\* would have answered.
AnswersAreRight ==
    /\ TypeOK /\ InvalidInputHasNoEffect /\ HandlerErrorsKeepTheirStatus
    /\ ChecksAgreeWithRust /\ ResolversAgree

\* No request is left without an answer.
EveryRequestAnswered ==
    \A r \in Reqs : (pc[r] # "new") ~> (pc[r] = "done")

=============================================================================
