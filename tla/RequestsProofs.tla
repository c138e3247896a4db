---------------------------- MODULE RequestsProofs ----------------------------
(***************************************************************************)
(* Proofs about requests, for any number of them, any inputs, statements   *)
(* and bounds: a query is for the tenant of the request that built it,     *)
(* what bypasses the tenant filters is on record under the request's name, *)
(* and the answer is the one that the outcome calls for.                   *)
(*                                                                         *)
(* sql and the governance log learn who asks from the ambient context      *)
(* alone. The invariant therefore says what every frame of every request   *)
(* holds: the request's own store (OwnFrames), which from the moment the   *)
(* middleware sets it is what the request's own input determines           *)
(* (OwnStore), whatever the requests beside it do. AnswerInv, on top of    *)
(* it, says what a request has done and been told at each point.           *)
(*                                                                         *)
(* What sql builds is about operators: its clauses stay in order and its   *)
(* placeholders are numbered as its values are bound, by induction over    *)
(* the values of a template.                                               *)
(*                                                                         *)
(* The last part is about the test kit, which like the requests rests on   *)
(* the permissions of Identity: what the mock gateway, the switches and    *)
(* the assertions of the test ledger tell a test, for any interleaving of  *)
(* charges, resets and settings.                                           *)
(***************************************************************************)
EXTENDS Requests, TestKit, FiniteSetTheorems, WellFoundedInduction, NaturalsInduction, TLAPS

\* The claims that the kernel goes on with, from the input alone.
ClaimsGiven(r) == IF HasSecret THEN ClaimsOf(Input(r).token) ELSE NoValue

\* The store that the input of a request determines.
IdentityGiven(r) ==
    [ traceId  |-> r,
      tenantId |-> DocumentedTenant(r),
      userId   |-> IF ClaimsGiven(r) = NoValue THEN NoValue ELSE ClaimsGiven(r).userId,
      role     |-> IF ClaimsGiven(r) = NoValue THEN "anonymous" ELSE ClaimsGiven(r).role ]

\* The queries that the handler of a request may build.
QueryOf(r) ==
    {[kind |-> "sql", stmt |-> stmt, q |-> sql(stmt, DocumentedTenant(r))] : stmt \in StatementsOf[r]}
    \cup {[kind |-> "sudo", stmt |-> NoValue, q |-> [tenantId |-> "__sudo__"]],
          [kind |-> "raw", stmt |-> NoValue, q |-> [tenantId |-> "__raw__"]]}

RecordTypes == {"GOVERNANCE_SUDO_ACCESS", "GOVERNANCE_RAW_QUERY"}

\* The record that the governance log keeps of a request.
GovernanceRecord(r, type) ==
    [ type     |-> type,
      userId   |-> IdentityGiven(r).userId,
      tenantId |-> IdentityGiven(r).tenantId,
      traceId  |-> r ]

GovernanceRecords == {GovernanceRecord(r, type) : r \in Reqs, type \in RecordTypes}

\* Each variable that a step updates for one request has a value for every request.
PerRequest ==
    /\ pc \in [Reqs -> PCs]
    /\ store = [r \in Reqs |-> store[r]]
    /\ frames = [r \in Reqs |-> frames[r]]
    /\ queries = [r \in Reqs |-> queries[r]]
    /\ sudo \in [Reqs -> BOOLEAN]

Served == {"dispatch", "handler"}

OwnStore ==
    \A r \in Reqs :
        /\ pc[r] = "verifying" => HasSecret
        /\ pc[r] \in Served => store[r] = IdentityGiven(r)

OwnFrames ==
    \A r \in Reqs :
        /\ frames[r] \in Seq({IdentityGiven(r)})
        /\ pc[r] = "handler" => Len(frames[r]) >= BaseDepth(r)

OwnQueries == \A r \in Reqs : queries[r] \in Seq(QueryOf(r))

\* The log and what it has to account for.
Trail ==
    /\ governanceLog \in Seq(GovernanceRecords)
    /\ \A i \in DOMAIN governanceLog :
          LET r == governanceLog[i].traceId
          IN  pc[r] \in {"handler", "done"} /\ store[r] = IdentityGiven(r)
    /\ \A r \in Reqs :
          /\ Cardinality(RecordsOf(r, "GOVERNANCE_RAW_QUERY")) = Cardinality(QueriesOf(r, "raw"))
          /\ sudo[r] => RecordsOf(r, "GOVERNANCE_SUDO_ACCESS") # {}
          /\ QueriesOf(r, "sudo") # {} => sudo[r]

RequestInv == PerRequest /\ OwnStore /\ OwnFrames /\ OwnQueries /\ Trail

-----------------------------------------------------------------------------
(* The tenant *)

\* A verified claim names a tenant.
LEMMA ClaimedTenant ==
    ASSUME NEW token, ClaimsOf(token) # NoValue
    PROVE  ClaimsOf(token).tenantId # NoValue
  <1>1. ClaimsOf(token) = verifyJWT(token) /\ verifyJWT(token) # Failure
    BY DEF ClaimsOf
  <1>2. verifyJWT(token).tenantId = token.tenant_id /\ token.tenant_id # NoValue
    BY <1>1 DEF verifyJWT
  <1>3. QED BY <1>1, <1>2

\* The documented order as a chain of conditions.
LEMMA TenantInOrder ==
    ASSUME NEW r
    PROVE  DocumentedTenant(r) =
              IF Input(r).tenantHeader # NoValue THEN Input(r).tenantHeader
              ELSE IF ClaimsGiven(r) # NoValue THEN ClaimsGiven(r).tenantId
              ELSE IF HostTenant(resolveHost(Input(r))) # NoValue
                   THEN HostTenant(resolveHost(Input(r)))
              ELSE "system"
  <1> DEFINE claims == ClaimsGiven(r)
             header == Input(r).tenantHeader
             claimed == IF claims = NoValue THEN NoValue ELSE claims.tenantId
             host == HostTenant(resolveHost(Input(r)))
             sources == <<header, claimed, host>>
             named == {i \in 1..3 : sources[i] # NoValue}
             first == CHOOSE i \in named : \A k \in named : i <= k
             tenant == IF header # NoValue THEN header
                       ELSE IF claimed # NoValue THEN claimed
                       ELSE IF host # NoValue THEN host ELSE "system"
  <1>1. DocumentedTenant(r) = IF named = {} THEN "system" ELSE sources[first]
    BY DEF DocumentedTenant, ClaimsGiven
  <1>2. SUFFICES DocumentedTenant(r) = tenant
    <2>1. claims # NoValue => claims.tenantId # NoValue BY ClaimedTenant DEF ClaimsGiven
    <2>2. QED BY <2>1
  <1> HIDE DEF header, claimed, host
  <1>3. sources[1] = header /\ sources[2] = claimed /\ sources[3] = host
    OBVIOUS
  <1> HIDE DEF sources
  <1>4. ASSUME named # {} PROVE first \in named /\ \A k \in named : first <= k
    <2>1. \E i \in named : \A k \in named : i <= k
      <3>1. CASE 1 \in named BY <3>1
      <3>2. CASE 1 \notin named /\ 2 \in named BY <3>2
      <3>3. CASE 1 \notin named /\ 2 \notin named BY <1>4, <3>3
      <3>4. QED BY <3>1, <3>2, <3>3
    <2> HIDE DEF named
    <2>2. QED BY <2>1
  <1>5. (named = {} <=> header = NoValue /\ claimed = NoValue /\ host = NoValue)
    BY <1>3
  <1>6. CASE header # NoValue
    <2>1. 1 \in named BY <1>3, <1>6
    <2>2. first = 1
      <3>1. first \in named /\ first <= 1 BY <1>4, <2>1
      <3> HIDE DEF first
      <3>2. QED BY <3>1
    <2>3. QED BY <1>1, <1>3, <1>5, <1>6, <2>2
  <1>7. CASE header = NoValue /\ claimed # NoValue
    <2>1. 2 \in named /\ 1 \notin named BY <1>3, <1>7
    <2>2. first = 2
      <3>1. first \in named /\ first <= 2 BY <1>4, <2>1
      <3> HIDE DEF first
      <3>2. QED BY <2>1, <3>1
    <2>3. QED BY <1>1, <1>3, <1>5, <1>7, <2>2
  <1>8. CASE header = NoValue /\ claimed = NoValue /\ host # NoValue
    <2>1. 3 \in named /\ 1 \notin named /\ 2 \notin named BY <1>3, <1>8
    <2>2. first = 3
      <3>1. first \in named BY <1>4, <2>1
      <3> HIDE DEF first
      <3>2. QED BY <2>1, <3>1
    <2>3. QED BY <1>1, <1>3, <1>5, <1>8, <2>2
  <1>9. CASE header = NoValue /\ claimed = NoValue /\ host = NoValue
    BY <1>1, <1>5, <1>9
  <1>10. QED BY <1>6, <1>7, <1>8, <1>9

\* The kernel takes the first source that is there.
LEMMA TenantGiven ==
    ASSUME NEW r,
           resolveTenant(Input(r), ClaimsGiven(r), Input(r).strict) # Failure
    PROVE  resolveTenant(Input(r), ClaimsGiven(r), Input(r).strict) = DocumentedTenant(r)
  BY TenantInOrder DEF resolveTenant

-----------------------------------------------------------------------------
(* Counting *)

RecordsIn(records, r, type) ==
    {i \in DOMAIN records : records[i].traceId = r /\ records[i].type = type}

QueriesIn(qs, kind) == {i \in DOMAIN qs : qs[i].kind = kind}

LEMMA Finite ==
    ASSUME NEW S, NEW s \in Seq(S), NEW T \in SUBSET DOMAIN s
    PROVE  IsFiniteSet(T) /\ Cardinality(T) \in Nat
  <1>1. Len(s) \in Nat /\ DOMAIN s = 1..Len(s) OBVIOUS
  <1>2. IsFiniteSet(1..Len(s)) BY <1>1, FS_Interval
  <1>3. QED BY <1>1, <1>2, FS_Subset, FS_CardinalityType

LEMMA Appended ==
    ASSUME NEW S, NEW s \in Seq(S), NEW x \in S
    PROVE  LET s2 == Append(s, x)
               n == Len(s) + 1
           IN  /\ s2 \in Seq(S)
               /\ DOMAIN s2 = DOMAIN s \cup {n} /\ n \notin DOMAIN s
               /\ s2[n] = x
               /\ \A i \in DOMAIN s : s2[i] = s[i]
  OBVIOUS

\* An appended record is one more of its request and type, and of no other.
LEMMA RecordCount ==
    ASSUME NEW S, NEW log \in Seq(S), NEW g \in S, NEW r, NEW type
    PROVE  LET old == RecordsIn(log, r, type)
               new == RecordsIn(Append(log, g), r, type)
           IN  /\ old \subseteq new
               /\ g.traceId = r /\ g.type = type =>
                     Cardinality(new) = Cardinality(old) + 1 /\ new # {}
               /\ ~(g.traceId = r /\ g.type = type) => new = old
  <1> DEFINE log2 == Append(log, g)
             n == Len(log) + 1
             old == RecordsIn(log, r, type)
             new == RecordsIn(log2, r, type)
  <1>1. /\ DOMAIN log2 = DOMAIN log \cup {n} /\ n \notin DOMAIN log
        /\ log2[n] = g /\ \A i \in DOMAIN log : log2[i] = log[i]
    BY Appended
  <1>2. n \notin old BY <1>1 DEF RecordsIn
  <1> HIDE DEF n, log2
  <1>3. /\ g.traceId = r /\ g.type = type => new = old \cup {n}
        /\ ~(g.traceId = r /\ g.type = type) => new = old
    BY <1>1 DEF RecordsIn
  <1>4. IsFiniteSet(old)
    <2>1. old \in SUBSET DOMAIN log BY DEF RecordsIn
    <2>2. QED BY <2>1, Finite
  <1> HIDE DEF old, new
  <1>5. Cardinality(old \cup {n}) = Cardinality(old) + 1 BY <1>2, <1>4, FS_AddElement
  <1>6. QED BY <1>3, <1>5 DEF old, new, log2

LEMMA QueryCount ==
    ASSUME NEW S, NEW qs \in Seq(S), NEW q \in S, NEW kind
    PROVE  LET old == QueriesIn(qs, kind)
               new == QueriesIn(Append(qs, q), kind)
           IN  /\ q.kind = kind => Cardinality(new) = Cardinality(old) + 1
               /\ q.kind # kind => new = old
  <1> DEFINE qs2 == Append(qs, q)
             n == Len(qs) + 1
             old == QueriesIn(qs, kind)
             new == QueriesIn(qs2, kind)
  <1>1. /\ DOMAIN qs2 = DOMAIN qs \cup {n} /\ n \notin DOMAIN qs
        /\ qs2[n] = q /\ \A i \in DOMAIN qs : qs2[i] = qs[i]
    BY Appended
  <1>2. n \notin old BY <1>1 DEF QueriesIn
  <1> HIDE DEF n, qs2
  <1>3. new = IF q.kind = kind THEN old \cup {n} ELSE old
    BY <1>1 DEF QueriesIn
  <1>4. IsFiniteSet(old)
    <2>1. old \in SUBSET DOMAIN qs BY DEF QueriesIn
    <2>2. QED BY <2>1, Finite
  <1> HIDE DEF old, new
  <1>5. Cardinality(old \cup {n}) = Cardinality(old) + 1 BY <1>2, <1>4, FS_AddElement
  <1>6. QED BY <1>3, <1>5 DEF old, new, qs2

-----------------------------------------------------------------------------
(* Steps of one request *)

\* What the input of a request determines stays.
LEMMA Stable ==
    ASSUME UNCHANGED input
    PROVE  /\ \A r : /\ IdentityGiven(r)' = IdentityGiven(r)
                     /\ QueryOf(r)' = QueryOf(r)
                     /\ BaseDepth(r)' = BaseDepth(r)
           /\ GovernanceRecords' = GovernanceRecords
  <1>1. \A r : DocumentedTenant(r)' = DocumentedTenant(r) BY DEF DocumentedTenant, Input
  <1>2. \A r : ClaimsGiven(r)' = ClaimsGiven(r) BY DEF ClaimsGiven, Input
  <1>3. \A r : IdentityGiven(r)' = IdentityGiven(r) BY <1>1, <1>2 DEF IdentityGiven
  <1>4. \A r : QueryOf(r)' = QueryOf(r) BY <1>1 DEF QueryOf
  <1>5. GovernanceRecords' = GovernanceRecords BY <1>3 DEF GovernanceRecords, GovernanceRecord
  <1>6. QED BY <1>3, <1>4, <1>5 DEF BaseDepth, Input

\* The other requests are where they were.
OthersStay(r) ==
    \A o \in Reqs \ {r} :
        /\ pc'[o] = pc[o] /\ store'[o] = store[o]
        /\ frames'[o] = frames[o] /\ queries'[o] = queries[o]

LEMMA OneRequest ==
    ASSUME RequestInv, NEW r \in Reqs, UNCHANGED input, OthersStay(r),
           pc'[r] = "verifying" => HasSecret,
           pc'[r] \in Served => store'[r] = IdentityGiven(r),
           frames'[r] \in Seq({IdentityGiven(r)}),
           pc'[r] = "handler" => Len(frames'[r]) >= BaseDepth(r),
           queries'[r] \in Seq(QueryOf(r))
    PROVE  OwnStore' /\ OwnFrames' /\ OwnQueries'
  <1>1. OwnStore' BY Stable DEF RequestInv, OwnStore, OthersStay
  <1>2. OwnFrames' BY Stable DEF RequestInv, OwnFrames, OthersStay
  <1>3. OwnQueries' BY Stable DEF RequestInv, OwnQueries, OthersStay
  <1>4. QED BY <1>1, <1>2, <1>3

\* A step that neither queries nor records keeps the trail: a request that is on
\* record keeps its store.
LEMMA QuietTrail ==
    ASSUME RequestInv, NEW r \in Reqs, UNCHANGED <<input, sudo, queries, governanceLog>>,
           OthersStay(r),
           pc[r] \in {"handler", "done"} =>
              pc'[r] \in {"handler", "done"} /\ store'[r] = store[r]
    PROVE  Trail'
  <1>1. governanceLog' \in Seq(GovernanceRecords)' BY Stable DEF RequestInv, Trail
  <1>2. ASSUME NEW i \in DOMAIN governanceLog'
        PROVE  LET o == governanceLog'[i].traceId
               IN  pc'[o] \in {"handler", "done"} /\ store'[o] = IdentityGiven(o)
    <2> DEFINE o == governanceLog[i].traceId
    <2>1. governanceLog[i] \in GovernanceRecords BY DEF RequestInv, Trail
    <2>2. o \in Reqs BY <2>1 DEF GovernanceRecords, GovernanceRecord
    <2>3. pc[o] \in {"handler", "done"} /\ store[o] = IdentityGiven(o)
      BY DEF RequestInv, Trail
    <2> HIDE DEF o
    <2>4. pc'[o] \in {"handler", "done"} /\ store'[o] = IdentityGiven(o)
      BY <2>2, <2>3 DEF OthersStay
    <2>5. QED BY <2>4 DEF o
  <1>3. \A o \in Reqs :
          /\ Cardinality(RecordsOf(o, "GOVERNANCE_RAW_QUERY")')
                = Cardinality(QueriesOf(o, "raw")')
          /\ sudo'[o] => RecordsOf(o, "GOVERNANCE_SUDO_ACCESS")' # {}
          /\ QueriesOf(o, "sudo")' # {} => sudo'[o]
    <2>1. \A o, type : RecordsOf(o, type)' = RecordsOf(o, type) BY DEF RecordsOf
    <2>2. \A o, kind : QueriesOf(o, kind)' = QueriesOf(o, kind) BY DEF QueriesOf
    <2>3. QED BY <2>1, <2>2 DEF RequestInv, Trail
  <1>4. QED BY <1>1, <1>2, <1>3, Stable DEF Trail

-----------------------------------------------------------------------------
(* The middleware and the wrapper *)

LEMMA SetStoreInv ==
    ASSUME RequestInv, NEW r \in Reqs, pc[r] \in {"new", "verifying"},
           SetStore(r, ClaimsGiven(r)), UNCHANGED <<input, frames, handlerVars>>
    PROVE  RequestInv'
  <1> DEFINE tenant == resolveTenant(Input(r), ClaimsGiven(r), Input(r).strict)
  <1>1. UNCHANGED <<input, frames, sudo, queries, governanceLog>> BY DEF handlerVars
  <1>2. PerRequest' /\ OthersStay(r) /\ pc'[r] \in {"done", "dispatch"}
    <2>1. pc' = [pc EXCEPT ![r] = "done"] \/ pc' = [pc EXCEPT ![r] = "dispatch"]
      BY DEF SetStore
    <2>2. pc \in [Reqs -> PCs] /\ store = [o \in Reqs |-> store[o]]
      BY DEF RequestInv, PerRequest
    <2>3. /\ store' = [o \in Reqs |-> store'[o]]
          /\ \A o \in Reqs \ {r} : store'[o] = store[o]
      BY <2>2 DEF SetStore
    <2>4. /\ pc' \in [Reqs -> PCs] /\ pc'[r] \in {"done", "dispatch"}
          /\ \A o \in Reqs \ {r} : pc'[o] = pc[o]
      BY <2>1, <2>2 DEF PCs
    <2>5. PerRequest' BY <1>1, <2>3, <2>4 DEF RequestInv, PerRequest
    <2>6. QED BY <1>1, <2>3, <2>4, <2>5 DEF OthersStay
  <1>3. ASSUME pc'[r] \in Served PROVE store'[r] = IdentityGiven(r)
    <2>1. tenant # Failure
      <3>1. pc'[r] # "done" BY <1>3 DEF Served
      <3>2. QED BY <3>1 DEF SetStore, IdentityFrom, RequestInv, PerRequest
    <2>2. tenant = DocumentedTenant(r) BY <2>1, TenantGiven
    <2>3. store' = [store EXCEPT ![r] =
             [ traceId  |-> r,
               tenantId |-> tenant,
               userId   |-> IF ClaimsGiven(r) = NoValue THEN NoValue ELSE ClaimsGiven(r).userId,
               role     |-> IF ClaimsGiven(r) = NoValue THEN "anonymous" ELSE ClaimsGiven(r).role ]]
      BY <2>1 DEF SetStore, IdentityFrom
    <2>4. store = [o \in Reqs |-> store[o]] BY DEF RequestInv, PerRequest
    <2> HIDE DEF tenant
    <2>5. QED BY <2>2, <2>3, <2>4 DEF IdentityGiven
  <1>4. pc'[r] # "handler" BY <1>2
  <1>5. OwnStore' /\ OwnFrames' /\ OwnQueries'
    BY <1>1, <1>2, <1>3, <1>4, OneRequest DEF RequestInv, OwnFrames, OwnQueries
  <1>6. Trail' BY <1>1, <1>2, QuietTrail
  <1>7. QED BY <1>2, <1>5, <1>6 DEF RequestInv

LEMMA ArriveInv ==
    ASSUME RequestInv, NEW r \in Reqs, Arrive(r) PROVE RequestInv'
  <1>1. CASE AwaitsToken(r)
    <2>1. /\ pc[r] = "new" /\ pc' = [pc EXCEPT ![r] = "verifying"]
          /\ UNCHANGED <<input, store, frames, sudo, queries, governanceLog>>
      BY <1>1 DEF Arrive, handlerVars
    <2>2. PerRequest' /\ OthersStay(r) /\ pc'[r] = "verifying"
      BY <2>1 DEF RequestInv, PerRequest, OthersStay, PCs
    <2>3. OwnStore' /\ OwnFrames' /\ OwnQueries'
      BY <1>1, <2>1, <2>2, OneRequest DEF RequestInv, OwnFrames, OwnQueries, Served, AwaitsToken
    <2>4. Trail' BY <2>1, <2>2, QuietTrail
    <2>5. QED BY <2>2, <2>3, <2>4 DEF RequestInv
  <1>2. CASE ~AwaitsToken(r)
    <2>1. ClaimsGiven(r) = NoValue BY <1>2 DEF AwaitsToken, ClaimsGiven, ClaimsOf
    <2>2. QED BY <1>2, <2>1, SetStoreInv DEF Arrive
  <1>3. QED BY <1>1, <1>2

LEMMA VerifiedInv ==
    ASSUME RequestInv, NEW r \in Reqs, Verified(r) PROVE RequestInv'
  <1>1. HasSecret BY DEF Verified, RequestInv, OwnStore
  <1>2. ClaimsGiven(r) = ClaimsOf(Input(r).token) BY <1>1 DEF ClaimsGiven
  <1>3. QED BY <1>2, SetStoreInv DEF Verified

\* A frame more, or the frames but the last.
LEMMA FrameSequences ==
    ASSUME NEW x, NEW s \in Seq({x})
    PROVE  /\ Append(s, x) \in Seq({x}) /\ Len(Append(s, x)) = Len(s) + 1
           /\ Len(s) \in Nat
           /\ \A i \in 1..Len(s) : s[i] = x
           /\ Len(s) >= 1 => Front(s) \in Seq({x}) /\ Len(Front(s)) = Len(s) - 1
           /\ <<>> \in Seq({x}) /\ Len(<<>>) = 0
  <1>1. /\ Append(s, x) \in Seq({x}) /\ Len(Append(s, x)) = Len(s) + 1
        /\ Len(s) \in Nat
        /\ \A i \in 1..Len(s) : s[i] = x
        /\ <<>> \in Seq({x}) /\ Len(<<>>) = 0
    OBVIOUS
  <1>2. ASSUME Len(s) >= 1 PROVE Front(s) \in Seq({x}) /\ Len(Front(s)) = Len(s) - 1
    <2>1. \A k \in 0..Len(s) : SubSeq(s, 1, k) \in Seq({x}) /\ Len(SubSeq(s, 1, k)) = k
      OBVIOUS
    <2>2. Len(s) - 1 \in 0..Len(s) BY <1>1, <1>2
    <2>3. QED BY <2>1, <2>2 DEF Front
  <1>3. QED BY <1>1, <1>2

\* A step that moves a request on without a query or a record.
LEMMA QuietInv ==
    ASSUME RequestInv, NEW r \in Reqs, pc[r] \in Served,
           UNCHANGED <<input, store, sudo, queries, governanceLog>>,
           NEW next \in {"handler", "done"}, pc' = [pc EXCEPT ![r] = next],
           NEW fs \in Seq({IdentityGiven(r)}), frames' = [frames EXCEPT ![r] = fs],
           next = "handler" => Len(fs) >= BaseDepth(r)
    PROVE  RequestInv'
  <1>1. PerRequest' /\ OthersStay(r) /\ pc'[r] = next /\ frames'[r] = fs
    BY DEF RequestInv, PerRequest, OthersStay, PCs
  <1>2. store'[r] = IdentityGiven(r) BY DEF RequestInv, OwnStore
  <1>3. OwnStore' /\ OwnFrames' /\ OwnQueries'
    BY <1>1, <1>2, OneRequest DEF RequestInv, OwnQueries
  <1>4. Trail' BY <1>1, QuietTrail
  <1>5. QED BY <1>1, <1>3, <1>4 DEF RequestInv

LEMMA DispatchInv ==
    ASSUME RequestInv, NEW r \in Reqs, Dispatch(r) PROVE RequestInv'
  <1> DEFINE id == IdentityGiven(r)
  <1>1. /\ pc[r] = "dispatch" /\ store[r] = id /\ frames[r] \in Seq({id})
        /\ UNCHANGED <<input, store, sudo, queries, governanceLog>>
        /\ frames = [o \in Reqs |-> frames[o]]
    BY DEF Dispatch, handlerVars, RequestInv, OwnStore, OwnFrames, PerRequest, Served
  <1> HIDE DEF id
  <1>2. CASE Refuses(r)
    <2>1. pc' = [pc EXCEPT ![r] = "done"] /\ frames' = frames BY <1>2 DEF Dispatch
    <2>2. frames' = [frames EXCEPT ![r] = frames[r]] BY <1>1, <2>1
    <2>3. QED BY <1>1, <2>1, <2>2, QuietInv DEF id, Served
  <1>3. CASE ~Refuses(r)
    <2> DEFINE one == Append(frames[r], id)
               two == Append(one, id)
    <2>1. /\ one \in Seq({id}) /\ two \in Seq({id})
          /\ Len(one) >= 1 /\ Len(two) >= 2
      <3>1. one \in Seq({id}) /\ Len(one) = Len(frames[r]) + 1 /\ Len(frames[r]) \in Nat
        BY <1>1, FrameSequences
      <3> HIDE DEF one
      <3>2. two \in Seq({id}) /\ Len(two) = Len(one) + 1 BY <3>1, FrameSequences
      <3>3. QED BY <3>1, <3>2
    <2>2. pc' = [pc EXCEPT ![r] = "handler"] BY <1>3 DEF Dispatch
    <2>3. runWithContext(frames, r, store[r]) = [frames EXCEPT ![r] = one]
      BY <1>1 DEF runWithContext
    <2>4. runWithContext([frames EXCEPT ![r] = one], r, store[r]) = [frames EXCEPT ![r] = two]
      BY <1>1 DEF runWithContext
    <2>5. frames' = IF Input(r).route = "plain" THEN [frames EXCEPT ![r] = one]
                    ELSE [frames EXCEPT ![r] = two]
      BY <1>3, <2>3, <2>4 DEF Dispatch
    <2> HIDE DEF one, two
    <2>6. CASE Input(r).route = "plain"
      BY <1>1, <2>1, <2>2, <2>5, <2>6, QuietInv DEF id, Served, BaseDepth
    <2>7. CASE Input(r).route # "plain"
      BY <1>1, <2>1, <2>2, <2>5, <2>7, QuietInv DEF id, Served, BaseDepth
    <2>8. QED BY <2>6, <2>7
  <1>4. QED BY <1>2, <1>3

-----------------------------------------------------------------------------
(* What a handler does *)

\* The context of a handler is the store of its request.
LEMMA Context ==
    ASSUME RequestInv, NEW r \in Reqs, InHandler(r)
    PROVE  /\ getContext(r) = IdentityGiven(r)
           /\ pc = [pc EXCEPT ![r] = "handler"]
           /\ frames = [frames EXCEPT ![r] = frames[r]]
           /\ frames[r] \in Seq({IdentityGiven(r)})
           /\ Len(frames[r]) \in Nat /\ Len(frames[r]) >= BaseDepth(r) /\ Len(frames[r]) >= 1
           /\ pc[r] \in Served
  <1>1. frames[r] \in Seq({IdentityGiven(r)}) /\ Len(frames[r]) >= BaseDepth(r)
    BY DEF RequestInv, OwnFrames, InHandler
  <1>2. Len(frames[r]) \in Nat /\ \A i \in 1..Len(frames[r]) : frames[r][i] = IdentityGiven(r)
    BY <1>1, FrameSequences
  <1>3. Len(frames[r]) >= 1 BY <1>1, <1>2 DEF BaseDepth
  <1>4. getContext(r) = IdentityGiven(r) BY <1>2, <1>3 DEF getContext
  <1>5. pc = [pc EXCEPT ![r] = "handler"] /\ frames = [frames EXCEPT ![r] = frames[r]]
    BY DEF RequestInv, PerRequest, InHandler
  <1>6. QED BY <1>1, <1>2, <1>3, <1>4, <1>5 DEF InHandler, Served

\* The handler throws: the wrapper ends the request.
LEMMA FailInv ==
    ASSUME RequestInv, NEW r \in Reqs, NEW err, InHandler(r), Fail(r, err),
           UNCHANGED <<input, store, sudo, queries, governanceLog>>
    PROVE  RequestInv'
  <1>1. <<>> \in Seq({IdentityGiven(r)}) OBVIOUS
  <1>2. QED BY <1>1, Context, QuietInv DEF Fail

\* The handler goes on, in the frames it is in.
LEMMA GoOnInv ==
    ASSUME RequestInv, NEW r \in Reqs, InHandler(r),
           UNCHANGED <<pc, frames, input, store, sudo, queries, governanceLog>>
    PROVE  RequestInv'
  <1>1. pc' = [pc EXCEPT ![r] = "handler"] /\ frames' = [frames EXCEPT ![r] = frames[r]]
    BY Context
  <1>2. QED BY <1>1, Context, QuietInv

LEMMA QuietOperationInv ==
    ASSUME RequestInv, NEW r \in Reqs,
           Require(r) \/ GetActiveUser(r) \/ SetStatus(r) \/ Throw(r)
    PROVE  RequestInv'
  <1>1. CASE Require(r)
    <2>1. InHandler(r) /\ UNCHANGED <<input, store, sudo, queries, governanceLog>>
      BY <1>1 DEF Require, Operation
    <2>2. UNCHANGED <<pc, frames>> \/ Fail(r, ForbiddenError) BY <1>1 DEF Require
    <2>3. QED BY <2>1, <2>2, FailInv, GoOnInv
  <1>2. CASE GetActiveUser(r)
    <2>1. InHandler(r) /\ UNCHANGED <<input, store, sudo, queries, governanceLog>>
      BY <1>2 DEF GetActiveUser, Operation
    <2>2. UNCHANGED <<pc, frames>> \/ Fail(r, UnauthenticatedError) BY <1>2 DEF GetActiveUser
    <2>3. QED BY <2>1, <2>2, FailInv, GoOnInv
  <1>3. CASE SetStatus(r) BY <1>3, GoOnInv DEF SetStatus, Operation
  <1>4. CASE Throw(r) BY <1>4, FailInv DEF Throw
  <1>5. QED BY <1>1, <1>2, <1>3, <1>4

LEMMA CallActionInv ==
    ASSUME RequestInv, NEW r \in Reqs, CallAction(r) PROVE RequestInv'
  <1>1. InHandler(r) /\ UNCHANGED <<input, store, sudo, queries, governanceLog>>
    BY DEF CallAction, Operation
  <1>2. CASE Fail(r, ActionValidationError) BY <1>1, <1>2, FailInv
  <1>3. CASE frames' = runWithContext(frames, r, getContext(r)) /\ pc' = pc
    <2> DEFINE fs == Append(frames[r], IdentityGiven(r))
    <2>1. fs \in Seq({IdentityGiven(r)}) /\ Len(fs) = Len(frames[r]) + 1
      BY <1>1, Context, FrameSequences
    <2>2. frames' = [frames EXCEPT ![r] = fs] BY <1>1, <1>3, Context DEF runWithContext
    <2>3. pc' = [pc EXCEPT ![r] = "handler"] BY <1>1, <1>3, Context
    <2>4. Len(fs) >= BaseDepth(r) BY <1>1, <2>1, Context DEF BaseDepth
    <2> HIDE DEF fs
    <2>5. QED BY <1>1, <2>1, <2>2, <2>3, <2>4, Context, QuietInv
  <1>4. QED BY <1>2, <1>3 DEF CallAction

LEMMA ActionReturnsInv ==
    ASSUME RequestInv, NEW r \in Reqs, ActionReturns(r) PROVE RequestInv'
  <1> DEFINE fs == Front(frames[r])
  <1>1. /\ InHandler(r) /\ Len(frames[r]) > BaseDepth(r)
        /\ UNCHANGED <<pc, input, store, sudo, queries, governanceLog>>
        /\ frames' = [frames EXCEPT ![r] = fs]
    BY DEF ActionReturns
  <1>2. fs \in Seq({IdentityGiven(r)}) /\ Len(fs) = Len(frames[r]) - 1
    BY <1>1, Context, FrameSequences
  <1>3. Len(fs) >= BaseDepth(r) BY <1>1, <1>2, Context DEF BaseDepth
  <1>4. pc' = [pc EXCEPT ![r] = "handler"] BY <1>1, Context
  <1> HIDE DEF fs
  <1>5. QED BY <1>1, <1>2, <1>3, <1>4, Context, QuietInv

LEMMA ReturnInv ==
    ASSUME RequestInv, NEW r \in Reqs, Return(r) PROVE RequestInv'
  <1>1. <<>> \in Seq({IdentityGiven(r)}) OBVIOUS
  <1>2. /\ InHandler(r) /\ UNCHANGED <<input, store, sudo, queries, governanceLog>>
        /\ pc' = [pc EXCEPT ![r] = "done"] /\ frames' = [frames EXCEPT ![r] = <<>>]
    BY DEF Return
  <1>3. QED BY <1>1, <1>2, Context, QuietInv

\* A query of the request's own, and its record if it needs one.
LEMMA QueryInv ==
    ASSUME RequestInv, NEW r \in Reqs, InHandler(r), NEW q \in QueryOf(r),
           UNCHANGED <<pc, frames, input, store, sudo>>,
           queries' = [queries EXCEPT ![r] = Append(@, q)],
           \/ q.kind = "sql" /\ governanceLog' = governanceLog
           \/ q.kind = "sudo" /\ sudo[r] /\ governanceLog' = governanceLog
           \/ /\ q.kind = "raw"
              /\ governanceLog' = Append(governanceLog, GovernanceRecord(r, "GOVERNANCE_RAW_QUERY"))
    PROVE  RequestInv'
  <1>1. /\ queries[r] \in Seq(QueryOf(r))
        /\ governanceLog \in Seq(GovernanceRecords)
        /\ queries = [o \in Reqs |-> queries[o]]
    BY DEF RequestInv, OwnQueries, Trail, PerRequest
  <1>2. Append(queries[r], q) \in Seq(QueryOf(r)) BY <1>1, Appended
  <1>3. /\ PerRequest' /\ OthersStay(r) /\ queries'[r] = Append(queries[r], q)
    BY <1>1 DEF RequestInv, PerRequest, OthersStay
  <1>4. OwnStore' /\ OwnFrames' /\ OwnQueries'
    BY <1>2, <1>3, OneRequest DEF RequestInv, OwnStore, OwnFrames
  <1> DEFINE g == GovernanceRecord(r, "GOVERNANCE_RAW_QUERY")
  <1>5. g \in GovernanceRecords /\ g.traceId = r /\ g.type = "GOVERNANCE_RAW_QUERY"
    BY DEF GovernanceRecords, GovernanceRecord, RecordTypes
  <1>6. pc[r] = "handler" /\ store[r] = IdentityGiven(r)
    BY DEF RequestInv, OwnStore, InHandler, Served
  <1> HIDE DEF g
  <1>7. governanceLog' = governanceLog \/ governanceLog' = Append(governanceLog, g)
    BY DEF g
  <1>8. governanceLog' \in Seq(GovernanceRecords)
    <2>1. Append(governanceLog, g) \in Seq(GovernanceRecords) BY <1>1, <1>5, Appended
    <2>2. QED BY <1>1, <1>7, <2>1
  <1>9. ASSUME NEW i \in DOMAIN governanceLog'
        PROVE  LET o == governanceLog'[i].traceId
               IN  pc[o] \in {"handler", "done"} /\ store[o] = IdentityGiven(o)
    <2>1. CASE i \in DOMAIN governanceLog /\ governanceLog'[i] = governanceLog[i]
      BY <2>1 DEF RequestInv, Trail
    <2>2. CASE governanceLog'[i] = g BY <1>5, <1>6, <2>2
    <2>3. CASE governanceLog' = governanceLog BY <2>1, <2>3
    <2>4. CASE governanceLog' = Append(governanceLog, g)
      <3>1. \/ i \in DOMAIN governanceLog /\ governanceLog'[i] = governanceLog[i]
            \/ governanceLog'[i] = g
        BY <1>1, <1>5, <2>4, Appended
      <3>2. QED BY <2>1, <2>2, <3>1
    <2>5. QED BY <1>7, <2>3, <2>4
  <1>10. ASSUME NEW o \in Reqs
         PROVE  /\ Cardinality(RecordsOf(o, "GOVERNANCE_RAW_QUERY")')
                      = Cardinality(QueriesOf(o, "raw")')
                /\ sudo'[o] => RecordsOf(o, "GOVERNANCE_SUDO_ACCESS")' # {}
                /\ QueriesOf(o, "sudo")' # {} => sudo'[o]
    <2>1. /\ Cardinality(RecordsOf(o, "GOVERNANCE_RAW_QUERY")) = Cardinality(QueriesOf(o, "raw"))
          /\ sudo[o] => RecordsOf(o, "GOVERNANCE_SUDO_ACCESS") # {}
          /\ QueriesOf(o, "sudo") # {} => sudo[o]
      BY DEF RequestInv, Trail
    <2>2. \A type : /\ RecordsOf(o, type) = RecordsIn(governanceLog, o, type)
                    /\ RecordsOf(o, type)' = RecordsIn(governanceLog', o, type)
      BY DEF RecordsOf, RecordsIn
    <2>3. \A kind : /\ QueriesOf(o, kind) = QueriesIn(queries[o], kind)
                    /\ QueriesOf(o, kind)' = QueriesIn(queries'[o], kind)
      BY DEF QueriesOf, QueriesIn
    <2>4. /\ RecordsOf(o, "GOVERNANCE_SUDO_ACCESS")
                \subseteq RecordsOf(o, "GOVERNANCE_SUDO_ACCESS")'
          /\ o # r => RecordsOf(o, "GOVERNANCE_RAW_QUERY")' = RecordsOf(o, "GOVERNANCE_RAW_QUERY")
      <3>1. CASE governanceLog' = governanceLog BY <2>2, <3>1
      <3>2. CASE governanceLog' = Append(governanceLog, g)
        <4>1. /\ RecordsIn(governanceLog, o, "GOVERNANCE_SUDO_ACCESS")
                    \subseteq RecordsIn(Append(governanceLog, g), o, "GOVERNANCE_SUDO_ACCESS")
              /\ o # r => RecordsIn(Append(governanceLog, g), o, "GOVERNANCE_RAW_QUERY")
                             = RecordsIn(governanceLog, o, "GOVERNANCE_RAW_QUERY")
          BY <1>1, <1>5, RecordCount
        <4>2. QED BY <2>2, <3>2, <4>1
      <3>3. QED BY <1>7, <3>1, <3>2
    <2>5. CASE o # r
      <3>1. RecordsOf(o, "GOVERNANCE_RAW_QUERY")' = RecordsOf(o, "GOVERNANCE_RAW_QUERY")
        BY <2>4, <2>5
      <3>2. \A kind : QueriesOf(o, kind)' = QueriesOf(o, kind)
        BY <1>3, <2>3, <2>5 DEF OthersStay
      <3>3. QED BY <2>1, <2>4, <3>1, <3>2
    <2>6. CASE o = r /\ q.kind = "raw"
      <3>1. governanceLog' = Append(governanceLog, g) BY <2>6 DEF g
      <3>2. Cardinality(RecordsOf(o, "GOVERNANCE_RAW_QUERY")')
               = Cardinality(RecordsOf(o, "GOVERNANCE_RAW_QUERY")) + 1
        BY <1>1, <1>5, <2>2, <2>6, <3>1, RecordCount
      <3>3. /\ Cardinality(QueriesOf(o, "raw")') = Cardinality(QueriesOf(o, "raw")) + 1
            /\ QueriesOf(o, "sudo")' = QueriesOf(o, "sudo")
        BY <1>1, <1>3, <2>3, <2>6, QueryCount
      <3>4. QED BY <2>1, <2>4, <3>2, <3>3
    <2>7. CASE o = r /\ q.kind # "raw"
      <3>1. governanceLog' = governanceLog /\ (q.kind = "sudo" => sudo[r]) BY <2>7
      <3>2. RecordsOf(o, "GOVERNANCE_RAW_QUERY")' = RecordsOf(o, "GOVERNANCE_RAW_QUERY")
        BY <2>2, <3>1
      <3>3. /\ QueriesOf(o, "raw")' = QueriesOf(o, "raw")
            /\ q.kind # "sudo" => QueriesOf(o, "sudo")' = QueriesOf(o, "sudo")
        BY <1>1, <1>3, <2>3, <2>7, QueryCount
      <3>4. QED BY <2>1, <2>4, <2>7, <3>1, <3>2, <3>3
    <2>8. QED BY <2>5, <2>6, <2>7
  <1>11. Trail' BY <1>8, <1>9, <1>10, Stable DEF Trail
  <1>12. QED BY <1>3, <1>4, <1>11 DEF RequestInv

LEMMA SqlInv ==
    ASSUME RequestInv, NEW r \in Reqs, Sql(r) PROVE RequestInv'
  <1>1. InHandler(r) /\ UNCHANGED <<pc, frames, input, store, sudo, governanceLog>>
    BY DEF Sql, Operation
  <1>2. PICK stmt \in StatementsOf[r] : Built(r, "sql", stmt, sql(stmt, getContext(r).tenantId))
    BY DEF Sql
  <1> DEFINE q == [kind |-> "sql", stmt |-> stmt, q |-> sql(stmt, DocumentedTenant(r))]
  <1>3. getContext(r).tenantId = DocumentedTenant(r)
    <2>1. getContext(r) = IdentityGiven(r) BY <1>1, Context
    <2>2. IdentityGiven(r).tenantId = DocumentedTenant(r) BY DEF IdentityGiven
    <2>3. QED BY <2>1, <2>2
  <1>4. queries' = [queries EXCEPT ![r] = Append(@, q)] BY <1>2, <1>3 DEF Built
  <1>5. q \in QueryOf(r) /\ q.kind = "sql" BY DEF QueryOf
  <1> HIDE DEF q
  <1>6. QED BY <1>1, <1>4, <1>5, QueryInv

LEMMA SudoSqlInv ==
    ASSUME RequestInv, NEW r \in Reqs, SudoSql(r) PROVE RequestInv'
  <1> DEFINE q == [kind |-> "sudo", stmt |-> NoValue, q |-> [tenantId |-> "__sudo__"]]
  <1>1. /\ InHandler(r) /\ UNCHANGED <<pc, frames, input, store, sudo, governanceLog>>
        /\ sudo[r] /\ queries' = [queries EXCEPT ![r] = Append(@, q)]
    BY DEF SudoSql, Operation, Built
  <1>2. q \in QueryOf(r) /\ q.kind = "sudo" BY DEF QueryOf
  <1> HIDE DEF q
  <1>3. QED BY <1>1, <1>2, QueryInv

\* A record is written in the name of the request whose handler makes it.
LEMMA Recorded ==
    ASSUME RequestInv, NEW r \in Reqs, InHandler(r), NEW type, recordGovernance(r, type)
    PROVE  governanceLog' = Append(governanceLog, GovernanceRecord(r, type))
  <1>1. getContext(r) = IdentityGiven(r) BY Context
  <1>2. IdentityGiven(r).traceId = r BY DEF IdentityGiven
  <1>3. QED BY <1>1, <1>2 DEF recordGovernance, GovernanceRecord

LEMMA RawInv ==
    ASSUME RequestInv, NEW r \in Reqs, Raw(r) PROVE RequestInv'
  <1> DEFINE q == [kind |-> "raw", stmt |-> NoValue, q |-> [tenantId |-> "__raw__"]]
  <1>1. /\ InHandler(r) /\ UNCHANGED <<pc, frames, input, store, sudo>>
        /\ recordGovernance(r, "GOVERNANCE_RAW_QUERY")
        /\ queries' = [queries EXCEPT ![r] = Append(@, q)]
    BY DEF Raw, Operation, Built
  <1>2. q \in QueryOf(r) /\ q.kind = "raw" BY DEF QueryOf
  <1>3. governanceLog' = Append(governanceLog, GovernanceRecord(r, "GOVERNANCE_RAW_QUERY"))
    BY <1>1, Recorded
  <1> HIDE DEF q
  <1>4. QED BY <1>1, <1>2, <1>3, QueryInv

LEMMA SudoInv ==
    ASSUME RequestInv, NEW r \in Reqs, Sudo(r) PROVE RequestInv'
  <1> DEFINE g == GovernanceRecord(r, "GOVERNANCE_SUDO_ACCESS")
  <1>1. /\ InHandler(r) /\ UNCHANGED <<pc, frames, input, store, queries>>
        /\ recordGovernance(r, "GOVERNANCE_SUDO_ACCESS")
        /\ sudo' = [sudo EXCEPT ![r] = TRUE]
    BY DEF Sudo, Operation
  <1>2. g \in GovernanceRecords /\ g.traceId = r /\ g.type = "GOVERNANCE_SUDO_ACCESS"
    BY DEF GovernanceRecords, GovernanceRecord, RecordTypes
  <1>3. governanceLog' = Append(governanceLog, g) BY <1>1, Recorded
  <1> HIDE DEF g
  <1>4. governanceLog \in Seq(GovernanceRecords) BY DEF RequestInv, Trail
  <1>5. /\ PerRequest' /\ OthersStay(r) /\ sudo'[r]
        /\ \A o \in Reqs \ {r} : sudo'[o] = sudo[o]
    BY <1>1 DEF RequestInv, PerRequest, OthersStay
  <1>6. OwnStore' /\ OwnFrames' /\ OwnQueries'
    BY <1>1, <1>5, OneRequest DEF RequestInv, OwnStore, OwnFrames, OwnQueries
  <1>7. pc[r] = "handler" /\ store[r] = IdentityGiven(r)
    BY <1>1 DEF RequestInv, OwnStore, InHandler, Served
  <1>8. governanceLog' \in Seq(GovernanceRecords) BY <1>2, <1>3, <1>4, Appended
  <1>9. ASSUME NEW i \in DOMAIN governanceLog'
        PROVE  LET o == governanceLog'[i].traceId
               IN  pc[o] \in {"handler", "done"} /\ store[o] = IdentityGiven(o)
    <2>1. CASE i \in DOMAIN governanceLog /\ governanceLog'[i] = governanceLog[i]
      BY <2>1 DEF RequestInv, Trail
    <2>2. CASE governanceLog'[i] = g BY <1>2, <1>7, <2>2
    <2>3. QED BY <1>2, <1>3, <1>4, <2>1, <2>2, Appended
  <1>10. ASSUME NEW o \in Reqs
         PROVE  /\ Cardinality(RecordsOf(o, "GOVERNANCE_RAW_QUERY")')
                      = Cardinality(QueriesOf(o, "raw")')
                /\ sudo'[o] => RecordsOf(o, "GOVERNANCE_SUDO_ACCESS")' # {}
                /\ QueriesOf(o, "sudo")' # {} => sudo'[o]
    <2>1. /\ Cardinality(RecordsOf(o, "GOVERNANCE_RAW_QUERY")) = Cardinality(QueriesOf(o, "raw"))
          /\ sudo[o] => RecordsOf(o, "GOVERNANCE_SUDO_ACCESS") # {}
          /\ QueriesOf(o, "sudo") # {} => sudo[o]
      BY DEF RequestInv, Trail
    <2>2. \A type : /\ RecordsOf(o, type) = RecordsIn(governanceLog, o, type)
                    /\ RecordsOf(o, type)' = RecordsIn(governanceLog', o, type)
      BY DEF RecordsOf, RecordsIn
    <2>3. \A kind : QueriesOf(o, kind)' = QueriesOf(o, kind) BY <1>1 DEF QueriesOf
    <2>4. RecordsOf(o, "GOVERNANCE_RAW_QUERY")' = RecordsOf(o, "GOVERNANCE_RAW_QUERY")
      BY <1>2, <1>3, <1>4, <2>2, RecordCount
    <2>5. /\ RecordsOf(o, "GOVERNANCE_SUDO_ACCESS")
                \subseteq RecordsOf(o, "GOVERNANCE_SUDO_ACCESS")'
          /\ o = r => RecordsOf(o, "GOVERNANCE_SUDO_ACCESS")' # {}
      BY <1>2, <1>3, <1>4, <2>2, RecordCount
    <2>6. CASE o = r BY <1>5, <2>1, <2>3, <2>4, <2>5, <2>6
    <2>7. CASE o # r BY <1>5, <2>1, <2>3, <2>4, <2>5, <2>7
    <2>8. QED BY <2>6, <2>7
  <1>11. Trail' BY <1>1, <1>8, <1>9, <1>10, Stable DEF Trail
  <1>12. QED BY <1>5, <1>6, <1>11 DEF RequestInv

-----------------------------------------------------------------------------
(***************************************************************************)
(* What a request is told.                                                 *)
(*                                                                         *)
(* Counts: the handler's operations are within their bound, its queries    *)
(* within its operations.                                                  *)
(*                                                                         *)
(* Answered: an answer is given exactly at the end, and for an error it is *)
(* the one that the handler's or the application's catch block gives.      *)
(*                                                                         *)
(* StoreGiven: the store is set at most once, to what the input says.      *)
(*                                                                         *)
(* Refused: a request whose body the schema refuses has done nothing.      *)
(*                                                                         *)
(* Checked: each permission check answered what the Rust registry would,   *)
(* asked about the role that the input gives.                              *)
(***************************************************************************)
Counts(r) == ops[r] \in 0..MaxOps[r] /\ Len(queries[r]) <= ops[r]

Answered(r) ==
    /\ pc[r] = "done" <=> resp[r] # NoValue
    /\ thrown[r] # NoValue =>
          /\ pc[r] = "done"
          /\ resp[r] = IF thrown[r].class = "Plain" \/ store[r] = NoValue THEN 500
                       ELSE thrown[r].status

StoreGiven(r) ==
    /\ store[r] # NoValue => store[r] = IdentityGiven(r)
    /\ pc[r] \in {"new", "verifying"} => store[r] = NoValue
    /\ pc[r] \in Served => store[r] # NoValue

Refused(r) ==
    Refuses(r) =>
        /\ ops[r] = 0 /\ frames[r] = <<>> /\ pc[r] # "handler"
        /\ store[r] # NoValue /\ pc[r] = "done" => resp[r] = 422

RightCheck(role, c) ==
    c.answer = IF c.all THEN \A p \in c.permissions : check_by_name(role, p) = TRUE
               ELSE \E p \in c.permissions : check_by_name(role, p) = TRUE

Checked(r) ==
    /\ checks[r] # {} => store[r] # NoValue
    /\ \A c \in checks[r] : RightCheck(IdentityGiven(r).role, c)

AnswerOf(r) == Counts(r) /\ Answered(r) /\ StoreGiven(r) /\ Refused(r) /\ Checked(r)

AnswerInv ==
    /\ ops = [r \in Reqs |-> ops[r]] /\ checks = [r \in Reqs |-> checks[r]]
    /\ thrown = [r \in Reqs |-> thrown[r]] /\ resp = [r \in Reqs |-> resp[r]]
    /\ \A r \in Reqs : input[r] \in InputsOf[r]
    /\ \A r \in Reqs : AnswerOf(r)
    /\ \A i \in DOMAIN governanceLog : ~Refuses(governanceLog[i].traceId)

\* A mask grants the permissions of a set.
Grants(mask, granted) ==
    \A q \in DOMAIN PERMISSIONS : HasBit(mask, PERMISSIONS[q]) <=> q \in granted

LEMMA MaskAgrees ==
    ASSUME NEW role, NEW p, NEW granted, Grants(roleMask(role), granted),
           \/ role \in DOMAIN default_roles /\ default_roles[role] = granted
           \/ role \notin DOMAIN default_roles /\ granted = {}
    PROVE  can(role, p) <=> check_by_name(role, p) = TRUE
  <1>1. Failure # TRUE BY RequestAssumption
  <1>2. CASE p \notin DOMAIN PERMISSIONS BY <1>1, <1>2 DEF can, check_by_name
  <1>3. CASE p \in DOMAIN PERMISSIONS BY <1>1, <1>3 DEF can, check_by_name, Grants
  <1>4. QED BY <1>2, <1>3

\* The permissions of a role: none if it is unknown.
PermissionsOf(role) == IF role \in DOMAIN default_roles THEN default_roles[role] ELSE {}

\* The bit masks of TypeScript say of every role, unknown ones included, what the names
\* of the Rust registry say.
LEMMA RoleGrants ==
    ASSUME NEW role
    PROVE  Grants(roleMask(role), PermissionsOf(role))
  <1>1. /\ DOMAIN PERMISSIONS =
              {"read", "write", "delete", "export", "admin", "billing", "impersonate", "sudo"}
        /\ DOMAIN ROLES = {"owner", "admin", "billing", "member", "viewer", "anonymous"}
        /\ DOMAIN default_roles = {"owner", "admin", "billing", "member", "viewer"}
    BY DEF PERMISSIONS, ROLES, default_roles
  <1>2. /\ PERMISSIONS["read"] = 1 /\ PERMISSIONS["write"] = 2
        /\ PERMISSIONS["delete"] = 4 /\ PERMISSIONS["export"] = 8
        /\ PERMISSIONS["admin"] = 16 /\ PERMISSIONS["billing"] = 32
        /\ PERMISSIONS["impersonate"] = 64 /\ PERMISSIONS["sudo"] = 128
    BY DEF PERMISSIONS
  <1>3. CASE role = "owner"
    <2>1. roleMask(role) = 255 BY <1>1, <1>3 DEF roleMask, ROLES
    <2>2. Grants(255, default_roles["owner"])
      BY <1>1, <1>2 DEF Grants, HasBit, default_roles
    <2>3. PermissionsOf(role) = default_roles["owner"] BY <1>1, <1>3 DEF PermissionsOf
    <2>4. QED BY <2>1, <2>2, <2>3
  <1>4. CASE role = "admin"
    <2>1. roleMask(role) = 63 BY <1>1, <1>4 DEF roleMask, ROLES
    <2>2. Grants(63, default_roles["admin"])
      BY <1>1, <1>2 DEF Grants, HasBit, default_roles
    <2>3. PermissionsOf(role) = default_roles["admin"] BY <1>1, <1>4 DEF PermissionsOf
    <2>4. QED BY <2>1, <2>2, <2>3
  <1>5. CASE role = "billing"
    <2>1. roleMask(role) = 41 BY <1>1, <1>5 DEF roleMask, ROLES
    <2>2. Grants(41, default_roles["billing"])
      BY <1>1, <1>2 DEF Grants, HasBit, default_roles
    <2>3. PermissionsOf(role) = default_roles["billing"] BY <1>1, <1>5 DEF PermissionsOf
    <2>4. QED BY <2>1, <2>2, <2>3
  <1>6. CASE role = "member"
    <2>1. roleMask(role) = 3 BY <1>1, <1>6 DEF roleMask, ROLES
    <2>2. Grants(3, default_roles["member"])
      BY <1>1, <1>2 DEF Grants, HasBit, default_roles
    <2>3. PermissionsOf(role) = default_roles["member"] BY <1>1, <1>6 DEF PermissionsOf
    <2>4. QED BY <2>1, <2>2, <2>3
  <1>7. CASE role = "viewer"
    <2>1. roleMask(role) = 1 BY <1>1, <1>7 DEF roleMask, ROLES
    <2>2. Grants(1, default_roles["viewer"])
      BY <1>1, <1>2 DEF Grants, HasBit, default_roles
    <2>3. PermissionsOf(role) = default_roles["viewer"] BY <1>1, <1>7 DEF PermissionsOf
    <2>4. QED BY <2>1, <2>2, <2>3
  <1>8. CASE role \notin DOMAIN default_roles
    <2>1. roleMask(role) = 0 BY <1>1, <1>8 DEF roleMask, ROLES
    <2>2. Grants(0, {}) BY <1>1, <1>2 DEF Grants, HasBit
    <2>3. QED BY <1>8, <2>1, <2>2 DEF PermissionsOf
  <1>9. QED BY <1>1, <1>3, <1>4, <1>5, <1>6, <1>7, <1>8

\* The permission checks of TypeScript, bit by bit, and of the Rust registry, by name,
\* agree about every role and permission, unknown ones included.
LEMMA CanAgrees ==
    ASSUME NEW role, NEW p
    PROVE  can(role, p) <=> check_by_name(role, p) = TRUE
  <1>1. Grants(roleMask(role), PermissionsOf(role)) BY RoleGrants
  <1>2. QED BY <1>1, MaskAgrees DEF PermissionsOf

\* The other requests are told what they were told.
OthersKeep(r) ==
    /\ OthersStay(r)
    /\ \A o \in Reqs \ {r} :
          /\ ops'[o] = ops[o] /\ checks'[o] = checks[o]
          /\ thrown'[o] = thrown[o] /\ resp'[o] = resp[o]

\* A step of one request has to show what it says of that one; its records are in the
\* name of a request that was not refused.
LEMMA OneAnswer ==
    ASSUME RequestInv, AnswerInv, NEW r \in Reqs, UNCHANGED input, OthersKeep(r),
           ops' = [o \in Reqs |-> ops'[o]], checks' = [o \in Reqs |-> checks'[o]],
           thrown' = [o \in Reqs |-> thrown'[o]], resp' = [o \in Reqs |-> resp'[o]],
           AnswerOf(r)',
           \/ UNCHANGED governanceLog
           \/ /\ ~Refuses(r)
              /\ \E type \in RecordTypes : governanceLog' = Append(governanceLog, GovernanceRecord(r, type))
    PROVE  AnswerInv'
  <1>1. \A o : Refuses(o)' = Refuses(o) BY DEF Refuses, Body, Input
  <1>2. ASSUME NEW o \in Reqs \ {r} PROVE AnswerOf(o)'
    <2>1. AnswerOf(o) BY DEF AnswerInv
    <2>2. IdentityGiven(o)' = IdentityGiven(o) BY Stable
    <2>3. /\ pc'[o] = pc[o] /\ store'[o] = store[o] /\ frames'[o] = frames[o]
          /\ queries'[o] = queries[o] /\ ops'[o] = ops[o] /\ checks'[o] = checks[o]
          /\ thrown'[o] = thrown[o] /\ resp'[o] = resp[o]
      BY DEF OthersKeep, OthersStay
    <2>4. Counts(o)' BY <2>1, <2>3 DEF AnswerOf, Counts
    <2>5. Answered(o)' BY <2>1, <2>3 DEF AnswerOf, Answered
    <2>6. StoreGiven(o)' BY <2>1, <2>2, <2>3 DEF AnswerOf, StoreGiven
    <2>7. Refused(o)' BY <1>1, <2>1, <2>3 DEF AnswerOf, Refused
    <2>8. Checked(o)' BY <2>1, <2>2, <2>3 DEF AnswerOf, Checked
    <2>9. QED BY <2>4, <2>5, <2>6, <2>7, <2>8 DEF AnswerOf
  <1>3. \A o \in Reqs : AnswerOf(o)' BY <1>2
  <1>4. ASSUME NEW i \in DOMAIN governanceLog' PROVE ~Refuses(governanceLog'[i].traceId)
    <2>1. CASE UNCHANGED governanceLog BY <1>4, <2>1 DEF AnswerInv
    <2>2. CASE ~UNCHANGED governanceLog
      <3>1. PICK type \in RecordTypes :
              governanceLog' = Append(governanceLog, GovernanceRecord(r, type)) /\ ~Refuses(r)
        BY <2>2
      <3> DEFINE g == GovernanceRecord(r, type)
      <3>2. g \in GovernanceRecords /\ g.traceId = r BY DEF GovernanceRecords, GovernanceRecord
      <3> HIDE DEF g
      <3>3. governanceLog \in Seq(GovernanceRecords) BY DEF RequestInv, Trail
      <3>4. governanceLog' = Append(governanceLog, g) BY <3>1 DEF g
      <3>5. \/ i \in DOMAIN governanceLog /\ governanceLog'[i] = governanceLog[i]
            \/ governanceLog'[i] = g
        BY <1>4, <3>2, <3>3, <3>4, Appended
      <3>6. QED BY <3>1, <3>2, <3>5 DEF AnswerInv
    <2>3. QED BY <2>1, <2>2
  <1>5. \A o \in Reqs : input'[o] \in InputsOf[o] BY DEF AnswerInv
  <1>6. QED BY <1>1, <1>3, <1>4, <1>5 DEF AnswerInv

\* What a request that is not done has been told: nothing.
LEMMA NotDone ==
    ASSUME AnswerInv, NEW r \in Reqs, pc[r] # "done"
    PROVE  resp[r] = NoValue /\ thrown[r] = NoValue
  BY DEF AnswerInv, AnswerOf, Answered

\* The kernel's store is not null.
LEMMA StoreIsRecord ==
    ASSUME AnswerInv, NEW r \in Reqs
    PROVE  IdentityFrom(r, Input(r), ClaimsGiven(r)) # NoValue
  <1>1. ClaimsGiven(r) \in {NoValue, ClaimsOf(Input(r).token)} BY DEF ClaimsGiven
  <1>2. Input(r) \in InputsOf[r] BY DEF AnswerInv, Input
  <1>3. QED BY <1>1, <1>2, RequestAssumption

LEMMA SetStoreAnswer ==
    ASSUME RequestInv, AnswerInv, NEW r \in Reqs, pc[r] \in {"new", "verifying"},
           SetStore(r, ClaimsGiven(r)), UNCHANGED <<input, frames, handlerVars>>
    PROVE  AnswerInv'
  <1> DEFINE resolved == IdentityFrom(r, Input(r), ClaimsGiven(r))
  <1>1. /\ UNCHANGED <<input, frames, ops, override, sudo, queries, checks, governanceLog>>
        /\ AnswerOf(r)
    BY DEF handlerVars, AnswerInv
  <1>2. store[r] = NoValue /\ resp[r] = NoValue /\ thrown[r] = NoValue /\ checks[r] = {}
    BY <1>1, NotDone DEF AnswerOf, StoreGiven, Checked
  <1>3. /\ pc = [o \in Reqs |-> pc[o]] /\ store = [o \in Reqs |-> store[o]]
        /\ thrown = [o \in Reqs |-> thrown[o]] /\ resp = [o \in Reqs |-> resp[o]]
        /\ ops = [o \in Reqs |-> ops[o]] /\ checks = [o \in Reqs |-> checks[o]]
    BY DEF RequestInv, PerRequest, AnswerInv
  <1>4. 500 # NoValue BY RequestAssumption
  <1>5. Refuses(r)' = Refuses(r) /\ IdentityGiven(r)' = IdentityGiven(r)
    BY <1>1, Stable DEF Refuses, Body, Input
  <1>6. CASE resolved.tenantId = Failure
    <2>1. /\ pc' = [pc EXCEPT ![r] = "done"] /\ store' = store
          /\ thrown' = [thrown EXCEPT ![r] = StrictTenancyError]
          /\ resp' = [resp EXCEPT ![r] = 500]
      BY <1>6 DEF SetStore, GlobalErrorStatus, StrictTenancyError, DomainError
    <2>2. /\ OthersKeep(r) /\ pc'[r] = "done" /\ store'[r] = NoValue /\ resp'[r] = 500
          /\ thrown' = [o \in Reqs |-> thrown'[o]] /\ resp' = [o \in Reqs |-> resp'[o]]
      <3>1. OthersKeep(r) BY <1>1, <1>3, <2>1 DEF OthersKeep, OthersStay
      <3>2. pc'[r] = "done" /\ store'[r] = NoValue /\ resp'[r] = 500 BY <1>2, <1>3, <2>1
      <3>3. thrown' = [o \in Reqs |-> thrown'[o]]
        <4>1. /\ thrown = [o \in Reqs |-> thrown[o]]
              /\ \E x : thrown' = [thrown EXCEPT ![r] = x]
          BY <1>3, <2>1
        <4>2. QED BY <4>1
      <3>4. resp' = [o \in Reqs |-> resp'[o]]
        <4>1. /\ resp = [o \in Reqs |-> resp[o]]
              /\ \E x : resp' = [resp EXCEPT ![r] = x]
          BY <1>3, <2>1
        <4>2. QED BY <4>1
      <3>5. QED BY <3>1, <3>2, <3>3, <3>4
    <2>3. AnswerOf(r)'
      BY <1>1, <1>2, <1>4, <1>5, <2>2
         DEF AnswerOf, Counts, Answered, StoreGiven, Refused, Checked, Served
    <2>4. QED BY <1>1, <1>3, <2>2, <2>3, OneAnswer
  <1>7. CASE resolved.tenantId # Failure
    <2>1. /\ pc' = [pc EXCEPT ![r] = "dispatch"] /\ store' = [store EXCEPT ![r] = resolved]
          /\ UNCHANGED <<thrown, resp>>
      BY <1>7 DEF SetStore
    <2>2. resolved = IdentityGiven(r)
      <3>1. resolveTenant(Input(r), ClaimsGiven(r), Input(r).strict) # Failure
        BY <1>7 DEF IdentityFrom
      <3>2. QED BY <3>1, TenantGiven DEF IdentityFrom, IdentityGiven
    <2>3. resolved # NoValue BY StoreIsRecord
    <2> HIDE DEF resolved
    <2>4. OthersKeep(r) /\ pc'[r] = "dispatch" /\ store'[r] = resolved
      BY <1>1, <1>3, <2>1 DEF OthersKeep, OthersStay
    <2>5. AnswerOf(r)'
      BY <1>1, <1>2, <1>5, <2>1, <2>2, <2>3, <2>4
         DEF AnswerOf, Counts, Answered, StoreGiven, Refused, Checked, Served
    <2>6. QED BY <1>1, <1>3, <2>1, <2>4, <2>5, OneAnswer
  <1>8. QED BY <1>6, <1>7

LEMMA ArriveAnswer ==
    ASSUME RequestInv, AnswerInv, NEW r \in Reqs, Arrive(r) PROVE AnswerInv'
  <1>1. CASE AwaitsToken(r)
    <2>1. /\ pc[r] = "new" /\ pc' = [pc EXCEPT ![r] = "verifying"]
          /\ UNCHANGED <<input, store, frames, ops, queries, checks, thrown, resp, governanceLog>>
      BY <1>1 DEF Arrive, handlerVars
    <2>2. /\ pc = [o \in Reqs |-> pc[o]] /\ thrown = [o \in Reqs |-> thrown[o]]
          /\ resp = [o \in Reqs |-> resp[o]] /\ ops = [o \in Reqs |-> ops[o]]
          /\ checks = [o \in Reqs |-> checks[o]] /\ AnswerOf(r)
      BY DEF RequestInv, PerRequest, AnswerInv
    <2>3. OthersKeep(r) /\ pc'[r] = "verifying"
      BY <2>1, <2>2 DEF OthersKeep, OthersStay
    <2>4. Refuses(r)' = Refuses(r) /\ IdentityGiven(r)' = IdentityGiven(r)
      BY <2>1, Stable DEF Refuses, Body, Input
    <2>5. AnswerOf(r)'
      BY <2>1, <2>2, <2>3, <2>4
         DEF AnswerOf, Counts, Answered, StoreGiven, Refused, Checked, Served
    <2>6. QED BY <2>1, <2>2, <2>3, <2>5, OneAnswer
  <1>2. CASE ~AwaitsToken(r)
    <2>1. ClaimsGiven(r) = NoValue BY <1>2 DEF AwaitsToken, ClaimsGiven, ClaimsOf
    <2>2. QED BY <1>2, <2>1, SetStoreAnswer DEF Arrive
  <1>3. QED BY <1>1, <1>2

LEMMA VerifiedAnswer ==
    ASSUME RequestInv, AnswerInv, NEW r \in Reqs, Verified(r) PROVE AnswerInv'
  <1>1. HasSecret BY DEF Verified, RequestInv, OwnStore
  <1>2. ClaimsGiven(r) = ClaimsOf(Input(r).token) BY <1>1 DEF ClaimsGiven
  <1>3. QED BY <1>2, SetStoreAnswer DEF Verified

LEMMA DispatchAnswer ==
    ASSUME RequestInv, AnswerInv, NEW r \in Reqs, Dispatch(r) PROVE AnswerInv'
  <1>1. /\ pc[r] = "dispatch"
        /\ UNCHANGED <<input, store, ops, queries, checks, governanceLog>>
        /\ pc = [o \in Reqs |-> pc[o]] /\ frames = [o \in Reqs |-> frames[o]]
        /\ thrown = [o \in Reqs |-> thrown[o]] /\ resp = [o \in Reqs |-> resp[o]]
        /\ ops = [o \in Reqs |-> ops[o]] /\ checks = [o \in Reqs |-> checks[o]]
        /\ AnswerOf(r)
    BY DEF Dispatch, handlerVars, RequestInv, PerRequest, AnswerInv
  <1>2. resp[r] = NoValue /\ thrown[r] = NoValue /\ store[r] # NoValue
    BY <1>1, NotDone DEF AnswerOf, StoreGiven, Served
  <1>3. Refuses(r)' = Refuses(r) /\ IdentityGiven(r)' = IdentityGiven(r)
    BY <1>1, Stable DEF Refuses, Body, Input
  <1>4. 422 # NoValue BY RequestAssumption
  <1>5. CASE Refuses(r)
    <2>1. /\ pc' = [pc EXCEPT ![r] = "done"] /\ frames' = frames
          /\ thrown' = [thrown EXCEPT ![r] = ActionValidationError]
          /\ resp' = [resp EXCEPT ![r] = 422]
          /\ ActionValidationError.class # "Plain" /\ ActionValidationError.status = 422
      BY <1>5 DEF Dispatch, HandlerErrorStatus, ActionValidationError, IntellibizError
    <2> HIDE DEF ActionValidationError
    <2>2. /\ OthersKeep(r) /\ pc'[r] = "done" /\ resp'[r] = 422
          /\ thrown'[r] = ActionValidationError
          /\ thrown' = [o \in Reqs |-> thrown'[o]] /\ resp' = [o \in Reqs |-> resp'[o]]
      <3>1. /\ thrown' = [o \in Reqs |-> thrown'[o]] /\ thrown'[r] = ActionValidationError
            /\ \A o \in Reqs \ {r} : thrown'[o] = thrown[o]
        BY <1>1, <2>1
      <3>2. /\ resp' = [o \in Reqs |-> resp'[o]] /\ resp'[r] = 422
            /\ \A o \in Reqs \ {r} : resp'[o] = resp[o]
        BY <1>1, <2>1
      <3>3. pc'[r] = "done" /\ \A o \in Reqs \ {r} : pc'[o] = pc[o]
        BY <1>1, <2>1
      <3>4. QED BY <1>1, <2>1, <3>1, <3>2, <3>3 DEF OthersKeep, OthersStay
    <2>3. AnswerOf(r)'
      BY <1>1, <1>2, <1>3, <1>4, <2>1, <2>2
         DEF AnswerOf, Counts, Answered, StoreGiven, Refused, Checked, Served
    <2>4. QED BY <1>1, <2>2, <2>3, OneAnswer
  <1>6. CASE ~Refuses(r)
    <2>1. pc' = [pc EXCEPT ![r] = "handler"] /\ UNCHANGED <<thrown, resp>>
      BY <1>6 DEF Dispatch
    <2>2. \A o \in Reqs \ {r} : frames'[o] = frames[o]
      BY <1>1, <1>6 DEF Dispatch, runWithContext
    <2>3. OthersKeep(r) /\ pc'[r] = "handler"
      BY <1>1, <2>1, <2>2 DEF OthersKeep, OthersStay
    <2>4. AnswerOf(r)'
      BY <1>1, <1>2, <1>3, <1>6, <2>1, <2>3
         DEF AnswerOf, Counts, Answered, StoreGiven, Refused, Checked, Served
    <2>5. QED BY <1>1, <2>1, <2>3, <2>4, OneAnswer
  <1>7. QED BY <1>5, <1>6

\* A handler runs in a request that was not refused: whatever operation it does, however
\* it ends.
LEMMA HandlerAnswer ==
    ASSUME RequestInv, AnswerInv, NEW r \in Reqs, InHandler(r), UNCHANGED <<input, store>>,
           OthersKeep(r),
           ops' = [o \in Reqs |-> ops'[o]], checks' = [o \in Reqs |-> checks'[o]],
           thrown' = [o \in Reqs |-> thrown'[o]], resp' = [o \in Reqs |-> resp'[o]],
           ops'[r] \in 0..MaxOps[r], Len(queries'[r]) <= ops'[r],
           \A c \in checks'[r] : c \in checks[r] \/ RightCheck(IdentityGiven(r).role, c),
           \/ pc'[r] = "handler" /\ resp'[r] = resp[r] /\ thrown'[r] = thrown[r]
           \/ pc'[r] = "done" /\ resp'[r] # NoValue /\ thrown'[r] = thrown[r]
           \/ /\ pc'[r] = "done" /\ resp'[r] = HandlerErrorStatus(thrown'[r])
              /\ thrown'[r].class # "Plain" => thrown'[r].status \in Nat,
           \/ UNCHANGED governanceLog
           \/ \E type \in RecordTypes : governanceLog' = Append(governanceLog, GovernanceRecord(r, type))
    PROVE  AnswerInv'
  <1>1. pc[r] = "handler" /\ AnswerOf(r) BY DEF InHandler, AnswerInv
  <1>2. resp[r] = NoValue /\ thrown[r] = NoValue BY <1>1, NotDone
  <1>3. /\ store[r] # NoValue /\ store[r] = IdentityGiven(r) /\ ~Refuses(r)
    BY <1>1 DEF AnswerOf, StoreGiven, Refused, Served
  <1>4. Refuses(r)' = Refuses(r) /\ IdentityGiven(r)' = IdentityGiven(r)
    BY Stable DEF Refuses, Body, Input
  <1>5. Counts(r)' BY DEF Counts
  <1>6. Answered(r)'
    <2>1. CASE pc'[r] = "handler" /\ resp'[r] = resp[r] /\ thrown'[r] = thrown[r]
      BY <1>2, <2>1 DEF Answered
    <2>2. CASE pc'[r] = "done" /\ resp'[r] # NoValue /\ thrown'[r] = thrown[r]
      BY <1>2, <2>2 DEF Answered
    <2>3. CASE /\ pc'[r] = "done" /\ resp'[r] = HandlerErrorStatus(thrown'[r])
               /\ thrown'[r].class # "Plain" => thrown'[r].status \in Nat
      <3>1. resp'[r] = IF thrown'[r].class = "Plain" THEN 500 ELSE thrown'[r].status
        BY <2>3 DEF HandlerErrorStatus
      <3>2. resp'[r] # NoValue BY <2>3, <3>1, RequestAssumption
      <3>3. QED BY <1>3, <2>3, <3>1, <3>2 DEF Answered
    <2>4. QED BY <2>1, <2>2, <2>3
  <1>7. StoreGiven(r)' BY <1>3, <1>4 DEF StoreGiven, Served
  <1>8. Refused(r)' BY <1>3, <1>4 DEF Refused
  <1>9. Checked(r)'
    <2>1. store'[r] # NoValue BY <1>3
    <2>2. \A c \in checks[r] : RightCheck(IdentityGiven(r).role, c) BY <1>1 DEF AnswerOf, Checked
    <2>3. \A c \in checks'[r] : RightCheck(IdentityGiven(r).role, c) BY <2>2
    <2>4. QED BY <1>4, <2>1, <2>3 DEF Checked
  <1>10. AnswerOf(r)' BY <1>5, <1>6, <1>7, <1>8, <1>9 DEF AnswerOf
  <1>11. QED BY <1>3, <1>10, OneAnswer

\* The variables that a step of one request updates for it alone.
LEMMA Shapes ==
    ASSUME RequestInv, AnswerInv
    PROVE  /\ pc = [o \in Reqs |-> pc[o]] /\ store = [o \in Reqs |-> store[o]]
           /\ frames = [o \in Reqs |-> frames[o]] /\ queries = [o \in Reqs |-> queries[o]]
           /\ thrown = [o \in Reqs |-> thrown[o]] /\ resp = [o \in Reqs |-> resp[o]]
           /\ ops = [o \in Reqs |-> ops[o]] /\ checks = [o \in Reqs |-> checks[o]]
  BY DEF RequestInv, PerRequest, AnswerInv

\* The check that a step makes, if it makes one, is right.
ChecksRightly(r) ==
    \/ UNCHANGED checks
    \/ \E c : /\ RightCheck(IdentityGiven(r).role, c)
             /\ checks' = [checks EXCEPT ![r] = @ \cup {c}]

LEMMA CheckShape ==
    ASSUME RequestInv, AnswerInv, NEW r \in Reqs, ChecksRightly(r)
    PROVE  /\ checks' = [o \in Reqs |-> checks'[o]]
           /\ \A o \in Reqs \ {r} : checks'[o] = checks[o]
           /\ \A c \in checks'[r] : c \in checks[r] \/ RightCheck(IdentityGiven(r).role, c)
  <1>1. checks = [o \in Reqs |-> checks[o]] BY Shapes
  <1>2. CASE UNCHANGED checks BY <1>1, <1>2
  <1>3. ASSUME NEW c, RightCheck(IdentityGiven(r).role, c),
               checks' = [checks EXCEPT ![r] = @ \cup {c}]
        PROVE  /\ checks' = [o \in Reqs |-> checks'[o]]
               /\ \A o \in Reqs \ {r} : checks'[o] = checks[o]
               /\ \A d \in checks'[r] : d \in checks[r] \/ RightCheck(IdentityGiven(r).role, d)
    <2>1. checks'[r] = checks[r] \cup {c} BY <1>1, <1>3
    <2>2. /\ checks' = [o \in Reqs |-> checks'[o]]
          /\ \A o \in Reqs \ {r} : checks'[o] = checks[o]
      BY <1>1, <1>3
    <2>3. QED BY <1>3, <2>1, <2>2
  <1>4. QED BY <1>2, <1>3 DEF ChecksRightly

LEMMA OpsShape ==
    ASSUME RequestInv, AnswerInv, NEW r \in Reqs, UNCHANGED ops \/ Operation(r)
    PROVE  /\ ops' = [o \in Reqs |-> ops'[o]]
           /\ \A o \in Reqs \ {r} : ops'[o] = ops[o]
           /\ ops'[r] \in 0..MaxOps[r] /\ Len(queries[r]) <= ops'[r]
           /\ Len(queries[r]) \in Nat
           /\ Operation(r) => Len(queries[r]) + 1 <= ops'[r]
  <1>1. ops = [o \in Reqs |-> ops[o]] BY Shapes
  <1>2. ops[r] \in 0..MaxOps[r] /\ Len(queries[r]) <= ops[r]
    BY DEF AnswerInv, AnswerOf, Counts
  <1>3. Len(queries[r]) \in Nat BY DEF RequestInv, OwnQueries
  <1>4. MaxOps[r] \in Nat BY RequestAssumption
  <1>5. CASE Operation(r)
    <2>1. ops' = [ops EXCEPT ![r] = @ + 1] /\ ops[r] < MaxOps[r] BY <1>5 DEF Operation
    <2>2. ops'[r] = ops[r] + 1 BY <1>1, <2>1
    <2>3. QED BY <1>1, <1>2, <1>3, <1>4, <2>1, <2>2
  <1>6. CASE ~Operation(r) BY <1>1, <1>2, <1>3, <1>6
  <1>7. QED BY <1>5, <1>6

\* The handler goes on after an operation, or after a called action returns.
LEMMA GoOnAnswer ==
    ASSUME RequestInv, AnswerInv, NEW r \in Reqs, InHandler(r),
           UNCHANGED <<input, store, pc, thrown, resp>>, ChecksRightly(r),
           \A o \in Reqs \ {r} : frames'[o] = frames[o],
           \/ UNCHANGED <<ops, queries>>
           \/ Operation(r) /\ UNCHANGED queries
           \/ Operation(r) /\ \E q : queries' = [queries EXCEPT ![r] = Append(@, q)],
           \/ UNCHANGED governanceLog
           \/ \E type \in RecordTypes : governanceLog' = Append(governanceLog, GovernanceRecord(r, type))
    PROVE  AnswerInv'
  <1>1. /\ thrown' = [o \in Reqs |-> thrown'[o]] /\ resp' = [o \in Reqs |-> resp'[o]]
        /\ queries = [o \in Reqs |-> queries[o]]
    BY Shapes
  <1>2. /\ queries[r] \in Seq(QueryOf(r)) BY DEF RequestInv, OwnQueries
  <1>3. \A o \in Reqs \ {r} : queries'[o] = queries[o] BY <1>1
  <1>4. Len(queries'[r]) <= ops'[r]
    <2>1. CASE UNCHANGED queries BY <2>1, OpsShape
    <2>2. ASSUME NEW q, Operation(r), queries' = [queries EXCEPT ![r] = Append(@, q)]
          PROVE  Len(queries'[r]) <= ops'[r]
      <3>1. queries'[r] = Append(queries[r], q) BY <1>1, <2>2
      <3>2. Len(Append(queries[r], q)) = Len(queries[r]) + 1 BY <1>2
      <3>3. QED BY <2>2, <3>1, <3>2, OpsShape
    <2>3. QED BY <2>1, <2>2
  <1>5. OthersKeep(r) BY <1>3, OpsShape, CheckShape DEF OthersKeep, OthersStay
  <1>6. pc'[r] = "handler" BY DEF InHandler
  <1>7. QED BY <1>1, <1>4, <1>5, <1>6, OpsShape, CheckShape, HandlerAnswer

\* The handler ends with an error.
LEMMA FailAnswer ==
    ASSUME RequestInv, AnswerInv, NEW r \in Reqs, InHandler(r), NEW err, Fail(r, err),
           err.class # "Plain" => err.status \in Nat,
           UNCHANGED <<input, store, queries, governanceLog>>, ChecksRightly(r),
           UNCHANGED ops \/ Operation(r)
    PROVE  AnswerInv'
  <1>1. /\ pc' = [pc EXCEPT ![r] = "done"] /\ thrown' = [thrown EXCEPT ![r] = err]
        /\ frames' = [frames EXCEPT ![r] = <<>>]
    BY DEF Fail
  <1>2. resp' = [resp EXCEPT ![r] = HandlerErrorStatus(err)] BY DEF Fail
  <1>3. /\ resp' = [o \in Reqs |-> resp'[o]] /\ resp'[r] = HandlerErrorStatus(err)
        /\ \A o \in Reqs \ {r} : resp'[o] = resp[o]
    BY <1>2, Shapes
  <1>4. /\ pc'[r] = "done" /\ \A o \in Reqs \ {r} : pc'[o] = pc[o] BY <1>1, Shapes
  <1>5. /\ thrown' = [o \in Reqs |-> thrown'[o]] /\ thrown'[r] = err
        /\ \A o \in Reqs \ {r} : thrown'[o] = thrown[o]
    BY <1>1, Shapes
  <1>6. \A o \in Reqs \ {r} : frames'[o] = frames[o] BY <1>1, Shapes
  <1>7. OthersKeep(r)
    BY <1>3, <1>4, <1>5, <1>6, OpsShape, CheckShape DEF OthersKeep, OthersStay
  <1>8. QED BY <1>3, <1>4, <1>5, <1>7, OpsShape, CheckShape, HandlerAnswer

LEMMA RequireAnswer ==
    ASSUME RequestInv, AnswerInv, NEW r \in Reqs, Require(r) PROVE AnswerInv'
  <1> DEFINE role == IdentityGiven(r).role
             answer(ps, all) == IF all THEN canAll(role, ps) ELSE canAny(role, ps)
             check(ps, all) == [permissions |-> ps, all |-> all, answer |-> answer(ps, all)]
  <1>1. Operation(r) /\ InHandler(r) /\ UNCHANGED <<input, store, queries, governanceLog>>
    BY DEF Require, Operation
  <1>2. getContext(r).role = role BY <1>1, Context
  <1>3. PICK ps \in PermissionSets, all \in BOOLEAN :
          /\ checks' = [checks EXCEPT ![r] = @ \cup {check(ps, all)}]
          /\ IF answer(ps, all) THEN UNCHANGED <<pc, thrown, resp, frames>>
             ELSE Fail(r, ForbiddenError)
    BY <1>2 DEF Require
  <1>4. RightCheck(role, check(ps, all))
    BY CanAgrees DEF RightCheck, canAll, canAny
  <1>5. ChecksRightly(r) BY <1>3, <1>4 DEF ChecksRightly
  <1>6. CASE UNCHANGED <<pc, thrown, resp, frames>> BY <1>1, <1>5, <1>6, GoOnAnswer
  <1>7. CASE Fail(r, ForbiddenError)
    <2>1. ForbiddenError.status \in Nat BY DEF ForbiddenError, DomainError
    <2>2. QED BY <1>1, <1>5, <1>7, <2>1, FailAnswer
  <1>8. QED BY <1>3, <1>6, <1>7

LEMMA OperationAnswer ==
    ASSUME RequestInv, AnswerInv, NEW r \in Reqs,
           \/ Sql(r) \/ Sudo(r) \/ SudoSql(r) \/ Raw(r)
           \/ GetActiveUser(r) \/ CallAction(r) \/ ActionReturns(r) \/ SetStatus(r)
    PROVE  AnswerInv'
  <1>1. InHandler(r)
    BY DEF Sql, Sudo, SudoSql, Raw, GetActiveUser, CallAction, ActionReturns, SetStatus, Operation
  <1>2. UNCHANGED <<input, store>> /\ ChecksRightly(r)
    BY DEF Sql, Sudo, SudoSql, Raw, GetActiveUser, CallAction, ActionReturns, SetStatus,
           ChecksRightly
  <1>3. CASE Sql(r) \/ SudoSql(r)
    <2>1. /\ Operation(r) /\ \E q : queries' = [queries EXCEPT ![r] = Append(@, q)]
          /\ UNCHANGED <<pc, thrown, resp, frames, governanceLog>>
      BY <1>3 DEF Sql, SudoSql, Built
    <2>2. QED BY <1>1, <1>2, <2>1, GoOnAnswer
  <1>4. CASE Raw(r)
    <2>1. /\ Operation(r) /\ \E q : queries' = [queries EXCEPT ![r] = Append(@, q)]
          /\ UNCHANGED <<pc, thrown, resp, frames>>
          /\ recordGovernance(r, "GOVERNANCE_RAW_QUERY")
      BY <1>4 DEF Raw, Built
    <2>2. \E type \in RecordTypes : governanceLog' = Append(governanceLog, GovernanceRecord(r, type))
      BY <1>1, <2>1, Recorded DEF RecordTypes
    <2>3. QED BY <1>1, <1>2, <2>1, <2>2, GoOnAnswer
  <1>5. CASE Sudo(r)
    <2>1. /\ Operation(r) /\ UNCHANGED <<pc, thrown, resp, frames, queries>>
          /\ recordGovernance(r, "GOVERNANCE_SUDO_ACCESS")
      BY <1>5 DEF Sudo
    <2>2. \E type \in RecordTypes : governanceLog' = Append(governanceLog, GovernanceRecord(r, type))
      BY <1>1, <2>1, Recorded DEF RecordTypes
    <2>3. QED BY <1>1, <1>2, <2>1, <2>2, GoOnAnswer
  <1>6. CASE GetActiveUser(r)
    <2>1. Operation(r) /\ UNCHANGED <<queries, governanceLog>> BY <1>6 DEF GetActiveUser
    <2>2. UNCHANGED <<pc, thrown, resp, frames>> \/ Fail(r, UnauthenticatedError)
      BY <1>6 DEF GetActiveUser
    <2>3. UnauthenticatedError.status \in Nat BY DEF UnauthenticatedError, DomainError
    <2>4. CASE UNCHANGED <<pc, thrown, resp, frames>> BY <1>1, <1>2, <2>1, <2>4, GoOnAnswer
    <2>5. CASE Fail(r, UnauthenticatedError) BY <1>1, <1>2, <2>1, <2>3, <2>5, FailAnswer
    <2>6. QED BY <2>2, <2>4, <2>5
  <1>7. CASE CallAction(r)
    <2>1. Operation(r) /\ UNCHANGED <<queries, governanceLog>> BY <1>7 DEF CallAction
    <2>2. \/ frames' = runWithContext(frames, r, getContext(r)) /\ UNCHANGED <<pc, thrown, resp>>
          \/ Fail(r, ActionValidationError)
      BY <1>7 DEF CallAction
    <2>3. ActionValidationError.status \in Nat BY DEF ActionValidationError, IntellibizError
    <2>4. CASE frames' = runWithContext(frames, r, getContext(r)) /\ UNCHANGED <<pc, thrown, resp>>
      <3>1. \A o \in Reqs \ {r} : frames'[o] = frames[o] BY <2>4, Shapes DEF runWithContext
      <3>2. QED BY <1>1, <1>2, <2>1, <2>4, <3>1, GoOnAnswer
    <2>5. CASE Fail(r, ActionValidationError) BY <1>1, <1>2, <2>1, <2>3, <2>5, FailAnswer
    <2>6. QED BY <2>2, <2>4, <2>5
  <1>8. CASE ActionReturns(r)
    <2>1. /\ UNCHANGED <<pc, thrown, resp, ops, queries, governanceLog>>
          /\ frames' = [frames EXCEPT ![r] = Front(@)]
      BY <1>8 DEF ActionReturns
    <2>2. \A o \in Reqs \ {r} : frames'[o] = frames[o] BY <2>1, Shapes
    <2>3. QED BY <1>1, <1>2, <2>1, <2>2, GoOnAnswer
  <1>9. CASE SetStatus(r)
    <2>1. Operation(r) /\ UNCHANGED <<pc, thrown, resp, frames, queries, governanceLog>>
      BY <1>9 DEF SetStatus
    <2>2. QED BY <1>1, <1>2, <2>1, GoOnAnswer
  <1>10. QED BY <1>3, <1>4, <1>5, <1>6, <1>7, <1>8, <1>9

LEMMA EndAnswer ==
    ASSUME RequestInv, AnswerInv, NEW r \in Reqs, Throw(r) \/ Return(r) PROVE AnswerInv'
  <1>1. /\ InHandler(r) /\ UNCHANGED <<input, store, ops, queries, governanceLog>>
        /\ ChecksRightly(r)
    BY DEF Throw, Return, ChecksRightly
  <1>2. CASE Throw(r)
    <2>1. PICK err \in ErrorsOf[r] : Fail(r, err) BY <1>2 DEF Throw
    <2>2. err.class # "Plain" => err.status \in Nat BY RequestAssumption
    <2>3. QED BY <1>1, <2>1, <2>2, FailAnswer
  <1>3. CASE Return(r)
    <2>1. PICK result \in ResultsOf[r] :
            resp' = [resp EXCEPT ![r] = IF override[r] # NoValue THEN override[r]
                                        ELSE InferredStatus(Input(r).method, result)]
      BY <1>3 DEF Return
    <2>2. result \in {"undefined", "string", "object"} BY RequestAssumption
    <2>3. InferredStatus(Input(r).method, result) \in Nat BY <2>2 DEF InferredStatus
    <2>4. /\ pc' = [pc EXCEPT ![r] = "done"] /\ frames' = [frames EXCEPT ![r] = <<>>]
          /\ UNCHANGED thrown
      BY <1>3 DEF Return
    <2>5. /\ resp' = [o \in Reqs |-> resp'[o]] /\ resp'[r] # NoValue
          /\ \A o \in Reqs \ {r} : resp'[o] = resp[o]
      BY <2>1, <2>3, Shapes, RequestAssumption
    <2>6. pc'[r] = "done" /\ thrown' = [o \in Reqs |-> thrown'[o]] BY <2>4, Shapes
    <2>7. OthersKeep(r)
      BY <1>1, <2>4, <2>5, Shapes, OpsShape, CheckShape DEF OthersKeep, OthersStay
    <2>8. QED BY <1>1, <2>4, <2>5, <2>6, <2>7, OpsShape, CheckShape, HandlerAnswer
  <1>4. QED BY <1>2, <1>3

-----------------------------------------------------------------------------
(* The theorems *)

(***************************************************************************)
(* In every reachable state each request runs in its own context, and its  *)
(* queries and records carry what its own input determines.                *)
(***************************************************************************)
THEOREM RequestInvariant == Spec => []RequestInv
  <1>1. Init => RequestInv
    <2> SUFFICES ASSUME Init PROVE RequestInv
      OBVIOUS
    <2>1. PerRequest BY DEF Init, PerRequest, PCs
    <2>2. OwnStore BY DEF Init, OwnStore, Served
    <2>3. OwnFrames /\ OwnQueries
      <3>1. \A S : <<>> \in Seq(S) OBVIOUS
      <3>2. QED BY <3>1 DEF Init, OwnFrames, OwnQueries
    <2>4. Trail
      <3>1. governanceLog \in Seq(GovernanceRecords) /\ DOMAIN governanceLog = {} BY DEF Init
      <3>2. \A r \in Reqs : /\ \A type : RecordsOf(r, type) = {}
                            /\ \A kind : QueriesOf(r, kind) = {}
                            /\ ~sudo[r]
        BY <3>1 DEF Init, RecordsOf, QueriesOf
      <3>3. QED BY <3>1, <3>2 DEF Trail
    <2>5. QED BY <2>1, <2>2, <2>3, <2>4 DEF RequestInv
  <1>2. RequestInv /\ [Next]_vars => RequestInv'
    <2> SUFFICES ASSUME RequestInv, [Next]_vars PROVE RequestInv'
      OBVIOUS
    <2>1. CASE UNCHANGED vars
      <3>1. UNCHANGED <<pc, input, store, frames, sudo, queries, governanceLog>>
        BY <2>1 DEF vars
      <3>2. PerRequest' /\ OwnStore' /\ OwnFrames' /\ OwnQueries'
        BY <3>1, Stable DEF RequestInv, PerRequest, OwnStore, OwnFrames, OwnQueries
      <3>3. (\A r, type : RecordsOf(r, type)' = RecordsOf(r, type))
            /\ (\A r, kind : QueriesOf(r, kind)' = QueriesOf(r, kind))
        BY <3>1 DEF RecordsOf, QueriesOf
      <3>4. Trail' BY <3>1, <3>3, Stable DEF RequestInv, Trail
      <3>5. QED BY <3>2, <3>4 DEF RequestInv
    <2>2. ASSUME NEW r \in Reqs, Arrive(r) \/ Verified(r) \/ Dispatch(r) PROVE RequestInv'
      BY <2>2, ArriveInv, VerifiedInv, DispatchInv
    <2>3. ASSUME NEW r \in Reqs, HandlerStep(r) PROVE RequestInv'
      BY <2>3, SqlInv, SudoInv, SudoSqlInv, RawInv, QuietOperationInv, CallActionInv,
         ActionReturnsInv, ReturnInv DEF HandlerStep
    <2>4. QED BY <2>1, <2>2, <2>3 DEF Next, Serve
  <1>3. QED BY <1>1, <1>2, PTL DEF Spec

(***************************************************************************)
(* However requests interleave, a query that sql builds is for the tenant  *)
(* that the documented order gives the request whose handler builds it.    *)
(***************************************************************************)
THEOREM OwnTenantOnly == Spec => []QueriesAreForOwnTenant
  <1>1. RequestInv => QueriesAreForOwnTenant
    <2> SUFFICES ASSUME RequestInv, NEW r \in Reqs, NEW i \in DOMAIN queries[r],
                        queries[r][i].kind = "sql"
                 PROVE  queries[r][i].q.tenantId = DocumentedTenant(r)
      BY DEF QueriesAreForOwnTenant
    <2>1. queries[r][i] \in QueryOf(r) BY DEF RequestInv, OwnQueries
    <2>2. PICK stmt \in StatementsOf[r] : queries[r][i].q = sql(stmt, DocumentedTenant(r))
      BY <2>1 DEF QueryOf
    <2>3. sql(stmt, DocumentedTenant(r)).tenantId = DocumentedTenant(r) BY DEF sql
    <2>4. QED BY <2>2, <2>3
  <1>2. QED BY <1>1, RequestInvariant, PTL

(***************************************************************************)
(* Every raw query has its record and every sudo query was recorded before *)
(* it ran, each under the tenant and the user of its own request.          *)
(***************************************************************************)
THEOREM TrailIsComplete == Spec => []BypassLeavesTrail
  <1>1. RequestInv => BypassLeavesTrail
    <2> SUFFICES ASSUME RequestInv, NEW r \in Reqs
                 PROVE  /\ Cardinality(RecordsOf(r, "GOVERNANCE_RAW_QUERY"))
                              = Cardinality(QueriesOf(r, "raw"))
                        /\ QueriesOf(r, "sudo") # {} => RecordsOf(r, "GOVERNANCE_SUDO_ACCESS") # {}
                        /\ \A i \in DOMAIN governanceLog :
                              governanceLog[i].traceId = r =>
                                 /\ governanceLog[i].tenantId = store[r].tenantId
                                 /\ governanceLog[i].userId = store[r].userId
      BY DEF BypassLeavesTrail
    <2>1. /\ Cardinality(RecordsOf(r, "GOVERNANCE_RAW_QUERY")) = Cardinality(QueriesOf(r, "raw"))
          /\ QueriesOf(r, "sudo") # {} => RecordsOf(r, "GOVERNANCE_SUDO_ACCESS") # {}
      BY DEF RequestInv, Trail
    <2>2. ASSUME NEW i \in DOMAIN governanceLog, governanceLog[i].traceId = r
          PROVE  /\ governanceLog[i].tenantId = store[r].tenantId
                 /\ governanceLog[i].userId = store[r].userId
      <3>1. governanceLog[i] \in GovernanceRecords BY DEF RequestInv, Trail
      <3>2. store[r] = IdentityGiven(r) BY <2>2 DEF RequestInv, Trail
      <3>3. PICK type \in RecordTypes : governanceLog[i] = GovernanceRecord(r, type)
        BY <2>2, <3>1 DEF GovernanceRecords, GovernanceRecord
      <3>4. QED BY <3>2, <3>3 DEF GovernanceRecord
    <2>3. QED BY <2>1, <2>2
  <1>2. QED BY <1>1, RequestInvariant, PTL

\* In every reachable state each request has been told what its input calls for.
LEMMA AnswerInvariant == Spec => []AnswerInv
  <1>1. Init => AnswerInv
    <2> SUFFICES ASSUME Init PROVE AnswerInv
      OBVIOUS
    <2>1. /\ ops = [r \in Reqs |-> ops[r]] /\ checks = [r \in Reqs |-> checks[r]]
          /\ thrown = [r \in Reqs |-> thrown[r]] /\ resp = [r \in Reqs |-> resp[r]]
          /\ \A r \in Reqs : input[r] \in InputsOf[r]
          /\ DOMAIN governanceLog = {}
      BY DEF Init
    <2>2. ASSUME NEW r \in Reqs PROVE AnswerOf(r)
      <3>1. /\ pc[r] = "new" /\ store[r] = NoValue /\ frames[r] = <<>> /\ ops[r] = 0
            /\ queries[r] = <<>> /\ checks[r] = {} /\ thrown[r] = NoValue /\ resp[r] = NoValue
        BY DEF Init
      <3>2. Counts(r)
        <4>1. MaxOps[r] \in Nat BY RequestAssumption
        <4>2. Len(<<>>) = 0 OBVIOUS
        <4>3. QED BY <3>1, <4>1, <4>2 DEF Counts
      <3>3. QED BY <3>1, <3>2 DEF AnswerOf, Answered, StoreGiven, Refused, Checked, Served
    <2>3. QED BY <2>1, <2>2 DEF AnswerInv
  <1>2. RequestInv /\ AnswerInv /\ [Next]_vars => AnswerInv'
    <2> SUFFICES ASSUME RequestInv, AnswerInv, [Next]_vars PROVE AnswerInv'
      OBVIOUS
    <2>1. CASE UNCHANGED vars
      <3>1. /\ UNCHANGED <<pc, input, store, frames, ops>>
            /\ UNCHANGED <<queries, checks, thrown, resp, governanceLog>>
        BY <2>1 DEF vars
      <3>2. \A r : Refuses(r)' = Refuses(r) BY <3>1 DEF Refuses, Body, Input
      <3>3. ASSUME NEW r \in Reqs PROVE AnswerOf(r)'
        <4>1. AnswerOf(r) BY DEF AnswerInv
        <4>2. IdentityGiven(r)' = IdentityGiven(r) BY <3>1, Stable
        <4>3. QED BY <3>1, <3>2, <4>1, <4>2
                  DEF AnswerOf, Counts, Answered, StoreGiven, Refused, Checked
      <3>4. QED BY <3>1, <3>2, <3>3 DEF AnswerInv
    <2>2. ASSUME NEW r \in Reqs, Arrive(r) \/ Serve(r) PROVE AnswerInv'
      BY <2>2, ArriveAnswer, VerifiedAnswer, DispatchAnswer, RequireAnswer, OperationAnswer,
         EndAnswer DEF Serve, HandlerStep
    <2>3. QED BY <2>1, <2>2 DEF Next
  <1>3. QED BY <1>1, <1>2, RequestInvariant, PTL DEF Spec

\* The two resolvers about a request whose input the kernel has resolved.
LEMMA Resolvers ==
    ASSUME NEW r, HasSecret,
           Input(r).tenantHeader = NoValue /\ ClaimsOf(Input(r).token) = NoValue =>
              /\ Input(r).host # <<>>
              /\ DocumentedTenant(r) \notin {"system"} \cup ReservedLabels
    PROVE  resolveIdentity(Input(r), Input(r).strict).tenantId = DocumentedTenant(r)
  <1> DEFINE host == Input(r).host
  <1>1. ClaimsGiven(r) = ClaimsOf(Input(r).token) BY DEF ClaimsGiven
  <1>2. CASE Input(r).tenantHeader # NoValue BY <1>2, TenantInOrder DEF resolveIdentity
  <1>3. CASE Input(r).tenantHeader = NoValue /\ ClaimsOf(Input(r).token) # NoValue
    BY <1>1, <1>3, TenantInOrder DEF resolveIdentity
  <1>4. CASE Input(r).tenantHeader = NoValue /\ ClaimsOf(Input(r).token) = NoValue
    <2>1. HostTenant(host) # NoValue /\ DocumentedTenant(r) = HostTenant(host)
      BY <1>1, <1>4, TenantInOrder DEF resolveHost
    <2> HIDE DEF host
    <2>2. HostTenant(host) = Head(host) /\ Len(host) >= 3 BY <2>1 DEF HostTenant
    <2>3. host # <<>>
      <3>1. Len(<<>>) = 0 OBVIOUS
      <3>2. QED BY <2>2, <3>1
    <2>4. ResolverHostTenant(host) = Head(host)
      BY <1>4, <2>1, <2>2, <2>3 DEF ResolverHostTenant
    <2>5. QED BY <1>4, <2>1, <2>2, <2>4 DEF resolveIdentity, host
  <1>5. QED BY <1>2, <1>3, <1>4

(***************************************************************************)
(* What a request is told is right, for any number of requests with any    *)
(* inputs: a refused body has had no effect and an error keeps its status; *)
(* bit masks and the Rust registry agree about every role and permission,  *)
(* and so do the two resolvers, where the header or the token decides, or  *)
(* a Host header whose first label is a tenant to both.                    *)
(***************************************************************************)
THEOREM AnswersHold == Spec => []AnswersAreRight
  <1>1. RequestInv /\ AnswerInv => AnswersAreRight
    <2> SUFFICES ASSUME RequestInv, AnswerInv PROVE AnswersAreRight
      OBVIOUS
    <2>1. TypeOK
      <3>1. ASSUME NEW r \in Reqs
            PROVE  /\ input[r] \in InputsOf[r] /\ Input(r).method \in Verbs
                   /\ ops[r] \in 0..MaxOps[r]
                   /\ Len(queries[r]) <= MaxOps[r]
                   /\ (pc[r] = "done") <=> (resp[r] # NoValue)
                   /\ sudo[r] \in BOOLEAN
        <4>1. input[r] \in InputsOf[r] /\ AnswerOf(r) BY DEF AnswerInv
        <4>2. Input(r).method \in Verbs BY <4>1, RequestAssumption DEF Input
        <4>3. MaxOps[r] \in Nat /\ Len(queries[r]) \in Nat
          BY RequestAssumption DEF RequestInv, OwnQueries
        <4>4. QED BY <4>1, <4>2, <4>3 DEF AnswerOf, Counts, Answered, RequestInv, PerRequest
      <3>2. \A i \in DOMAIN governanceLog : governanceLog[i].traceId \in Reqs
        <4>1. \A i \in DOMAIN governanceLog : governanceLog[i] \in GovernanceRecords
          BY DEF RequestInv, Trail
        <4>2. QED BY <4>1 DEF GovernanceRecords, GovernanceRecord
      <3>3. QED BY <3>1, <3>2 DEF TypeOK, RequestInv, PerRequest
    <2>2. InvalidInputHasNoEffect
      BY DEF InvalidInputHasNoEffect, AnswerInv, AnswerOf, Refused, Refuses
    <2>3. HandlerErrorsKeepTheirStatus
      BY DEF HandlerErrorsKeepTheirStatus, AnswerInv, AnswerOf, Answered
    <2>4. ChecksAgreeWithRust
      <3> SUFFICES ASSUME NEW r \in Reqs, NEW c \in checks[r]
                   PROVE  RightCheck(store[r].role, c)
        BY DEF ChecksAgreeWithRust, RightCheck
      <3>1. AnswerOf(r) BY DEF AnswerInv
      <3>2. store[r] = IdentityGiven(r) BY <3>1 DEF AnswerOf, Checked, StoreGiven
      <3>3. QED BY <3>1, <3>2 DEF AnswerOf, Checked
    <2>5. ResolversAgree
      <3> SUFFICES ASSUME NEW r \in Reqs, store[r] # NoValue, HasSecret,
                          Input(r).tenantHeader = NoValue /\ ClaimsOf(Input(r).token) = NoValue =>
                             /\ Input(r).host # <<>>
                             /\ store[r].tenantId \notin {"system"} \cup ReservedLabels
                   PROVE  resolveIdentity(Input(r), Input(r).strict).tenantId = store[r].tenantId
        BY DEF ResolversAgree
      <3>1. store[r] = IdentityGiven(r) BY DEF AnswerInv, AnswerOf, StoreGiven
      <3>2. store[r].tenantId = DocumentedTenant(r) BY <3>1 DEF IdentityGiven
      <3>3. QED BY <3>2, Resolvers
    <2>6. QED BY <2>1, <2>2, <2>3, <2>4, <2>5 DEF AnswersAreRight
  <1>2. QED BY <1>1, RequestInvariant, AnswerInvariant, PTL

-----------------------------------------------------------------------------
(* What a query selects *)

\* The clauses of a text, each WHERE of them with a first branch.
Text(text) ==
    /\ text \in Seq(ToSet(text))
    /\ \A i \in DOMAIN text :
          IsWhere(text[i]) => text[i].or # <<>> /\ text[i].or \in Seq(ToSet(text[i].or))

\* A set of numbers that has one has a least one.
LEMMA MinIsIn ==
    ASSUME NEW I \in SUBSET Nat, I # {}
    PROVE  Min(I) \in I /\ \A y \in I : Min(I) <= y
  <1> DEFINE R == OpToRel(<, Nat)
  <1>1. \A y, z \in Nat : y < z => <<y, z>> \in R BY Zenon DEF OpToRel
  <1>2. IsWellFoundedOn(R, Nat) BY NatLessThanWellFounded, Zenon
  <1> HIDE DEF R
  <1>3. PICK x \in I : \A y \in I : ~(<<y, x>> \in R) BY <1>2, WFMin
  <1>4. \A y \in I : ~(y < x) BY <1>1, <1>3
  <1>5. \A y \in I : x <= y BY <1>4
  <1>6. \A a, b \in I : (a <= b /\ b <= a) => a = b OBVIOUS
  <1>7. QED BY <1>3, <1>5, <1>6 DEF Min

\* What the first WHERE and the first tail of a text are.
LEMMA FirstClauses ==
    ASSUME NEW S, NEW text \in Seq(S)
    PROVE  LET w == SelectInSeq(text, IsWhere)
               t == SelectInSeq(text, IsTail)
           IN  /\ w # 0 => w \in DOMAIN text /\ IsWhere(text[w])
               /\ w = 0 => \A i \in DOMAIN text : ~IsWhere(text[i])
               /\ t # 0 => t \in DOMAIN text /\ IsTail(text[t])
               /\ t = 0 => \A i \in DOMAIN text : ~IsTail(text[i])
  <1> DEFINE W == {i \in 1..Len(text) : IsWhere(text[i])}
             T == {i \in 1..Len(text) : IsTail(text[i])}
  <1>1. DOMAIN text = 1..Len(text) /\ Len(text) \in Nat OBVIOUS
  <1>2. W \in SUBSET Nat /\ T \in SUBSET Nat BY <1>1
  <1>3. /\ SelectInSeq(text, IsWhere) = IF W # {} THEN Min(W) ELSE 0
        /\ SelectInSeq(text, IsTail) = IF T # {} THEN Min(T) ELSE 0
    BY Zenon DEF SelectInSeq
  <1>4. (W # {} => Min(W) \in W) /\ (T # {} => Min(T) \in T)
    <2> HIDE DEF W, T
    <2>1. QED BY <1>2, MinIsIn
  <1>5. \A i \in W : i \in DOMAIN text /\ i # 0 /\ IsWhere(text[i]) BY <1>1
  <1>6. \A i \in T : i \in DOMAIN text /\ i # 0 /\ IsTail(text[i]) BY <1>1
  <1>7. /\ W = {} => \A i \in DOMAIN text : ~IsWhere(text[i])
        /\ T = {} => \A i \in DOMAIN text : ~IsTail(text[i])
    BY <1>1
  <1> HIDE DEF W, T
  <1>8. QED BY <1>3, <1>4, <1>5, <1>6, <1>7

\* q is the text with e at position t.
PutAt(q, text, t, e) ==
    /\ DOMAIN q \subseteq Nat
    /\ t \in DOMAIN q /\ q[t] = e
    /\ \A i \in DOMAIN q : \/ i = t
                           \/ i < t /\ i \in DOMAIN text /\ q[i] = text[i]
                           \/ i > t /\ i - 1 \in DOMAIN text /\ q[i] = text[i - 1]

LEMMA InsertedAt ==
    ASSUME NEW S, NEW text \in Seq(S), NEW t \in DOMAIN text, NEW e
    PROVE  PutAt(InsertAt(text, t, e), text, t, e)
  <1> DEFINE U == S \cup {e}
             front == SubSeq(text, 1, t - 1)
             one == <<e>>
             back == SubSeq(text, t, Len(text))
             q == InsertAt(text, t, e)
  <1>1. /\ front \in Seq(U) /\ Len(front) = t - 1 /\ t \in Nat
        /\ \A i \in 1..(t - 1) : i \in DOMAIN text /\ front[i] = text[i]
    OBVIOUS
  <1>2. /\ back \in Seq(U) /\ Len(back) \in Nat
        /\ \A i \in 1..Len(back) : t + i - 1 \in DOMAIN text /\ back[i] = text[t + i - 1]
    OBVIOUS
  <1>3. one \in Seq(U) /\ Len(one) = 1 /\ one[1] = e
    OBVIOUS
  <1>4. q = front \o one \o back BY Zenon DEF InsertAt
  <1> HIDE DEF U, front, one, back, q
  <1>5. /\ DOMAIN q = 1..(t + Len(back))
        /\ \A i \in 1..(t - 1) : q[i] = front[i]
        /\ q[t] = e
        /\ \A i \in 1..Len(back) : q[t + i] = back[i]
    <2>1. /\ DOMAIN q = 1..(Len(front) + Len(one) + Len(back))
          /\ \A i \in 1..Len(front) : q[i] = front[i]
          /\ \A i \in 1..Len(one) : q[Len(front) + i] = one[i]
          /\ \A i \in 1..Len(back) : q[Len(front) + Len(one) + i] = back[i]
      <3> DEFINE abc == front \o one \o back
      <3>1. front \in Seq(U) /\ one \in Seq(U) /\ back \in Seq(U) BY <1>1, <1>2, <1>3
      <3>2. DOMAIN abc = 1..(Len(front) + Len(one) + Len(back)) BY <3>1
      <3>3. \A i \in 1..Len(front) : abc[i] = front[i] BY <3>1
      <3>4. \A i \in 1..Len(one) : abc[Len(front) + i] = one[i] BY <3>1
      <3>5. \A i \in 1..Len(back) : abc[Len(front) + Len(one) + i] = back[i] BY <3>1
      <3>6. q = abc BY <1>4
      <3> HIDE DEF abc
      <3>7. QED BY <3>2, <3>3, <3>4, <3>5, <3>6, Zenon
    <2>2. 1 \in 1..Len(one) /\ (t - 1) + 1 = t BY <1>1, <1>3
    <2>3. q[t] = e BY <1>1, <1>3, <2>1, <2>2
    <2>4. DOMAIN q = 1..(t + Len(back)) BY <1>1, <1>2, <1>3, <2>1
    <2>7. Len(front) + Len(one) = t BY <1>1, <1>3
    <2>8. \A i \in 1..Len(back) : q[Len(front) + Len(one) + i] = back[i] BY <2>1
    <2>5. \A i \in 1..Len(back) : q[t + i] = back[i]
      <3> HIDE DEF q
      <3>1. QED BY <2>7, <2>8
    <2>6. QED BY <1>1, <2>1, <2>3, <2>4, <2>5
  <1>6. ASSUME NEW i \in DOMAIN q
        PROVE  \/ i = t
               \/ i < t /\ i \in DOMAIN text /\ q[i] = text[i]
               \/ i > t /\ i - 1 \in DOMAIN text /\ q[i] = text[i - 1]
    <2>1. i \in Nat /\ i > 0 /\ i <= t + Len(back) BY <1>1, <1>2, <1>5
    <2>2. CASE i < t
      <3>1. i \in 1..(t - 1) BY <1>1, <2>1, <2>2
      <3>2. QED BY <1>1, <1>5, <2>2, <3>1
    <2>3. CASE i > t
      <3>1. i - t \in 1..Len(back) /\ t + (i - t) = i /\ t + (i - t) - 1 = i - 1
        BY <1>1, <1>2, <2>1, <2>3
      <3>2. QED BY <1>2, <1>5, <2>3, <3>1
    <2>4. QED BY <1>1, <2>1, <2>2, <2>3
  <1>7. DOMAIN q \subseteq Nat /\ t \in DOMAIN q BY <1>1, <1>2, <1>5
  <1>8. QED BY <1>5, <1>6, <1>7 DEF q, PutAt

\* A clause put into a text, or after it, is the only one that is new.
LEMMA Inserted ==
    ASSUME NEW S, NEW text \in Seq(S), NEW t \in DOMAIN text, NEW e
    PROVE  LET q == InsertAt(text, t, e)
           IN  /\ \A i \in DOMAIN q : q[i] = e \/ \E j \in DOMAIN text : q[i] = text[j]
               /\ \E i \in DOMAIN q : q[i] = e
  <1> DEFINE q == InsertAt(text, t, e)
  <1>1. PutAt(q, text, t, e) BY InsertedAt
  <1> HIDE DEF q
  <1>2. t \in DOMAIN q /\ q[t] = e BY <1>1 DEF PutAt
  <1>3. \A i \in DOMAIN q : q[i] = e \/ \E j \in DOMAIN text : q[i] = text[j]
    BY <1>1 DEF PutAt
  <1>4. QED BY <1>2, <1>3 DEF q

LEMMA Added ==
    ASSUME NEW S, NEW text \in Seq(S), NEW e
    PROVE  LET q == Append(text, e)
           IN  /\ \A i \in DOMAIN q : q[i] = e \/ \E j \in DOMAIN text : q[i] = text[j]
               /\ \E i \in DOMAIN q : q[i] = e
  OBVIOUS

\* A filter of its own, put into a text that has no WHERE, decides alone in its scope.
LEMMA OwnFilter ==
    ASSUME NEW text, NEW q, NEW arm, NEW row, NEW filter, NEW scope,
           \A i \in DOMAIN text : ~IsWhere(text[i]),
           \A i \in DOMAIN q :
              q[i] = Where(scope, <<filter>>) \/ \E j \in DOMAIN text : q[i] = text[j],
           \E i \in DOMAIN q : q[i] = Where(scope, <<filter>>)
    PROVE  SelectsIn(q, arm, row) <=> (scope \in arm => InBranch(row, filter))
  <1> DEFINE F == Where(scope, <<filter>>)
  <1>1. IsWhere(F) /\ F.or = <<filter>> /\ F.scope = scope BY DEF IsWhere, Where
  <1>2. ToSet(F.or) = {filter} BY <1>1 DEF ToSet
  <1> HIDE DEF F
  <1>3. \A i \in DOMAIN q : IsWhere(q[i]) => q[i] = F BY DEF F
  <1>4. \E i \in DOMAIN q : q[i] = F BY DEF F
  <1>5. QED BY <1>1, <1>2, <1>3, <1>4 DEF SelectsIn

\* The first WHERE with its first branch narrowed: its scope selects a row that it
\* selected if the row passes the filter or a later branch.
LEMMA Narrowed ==
    ASSUME NEW text, Text(text), NEW w, w = SelectInSeq(text, IsWhere), w # 0,
           w \in DOMAIN text, IsWhere(text[w]), NEW filter, NEW arm, NEW row
    PROVE  LET q == ReplaceAt(text, w,
                        Where(text[w].scope, [text[w].or EXCEPT ![1] = @ \cup filter]))
           IN  SelectsIn(q, arm, row) <=>
                  /\ SelectsIn(text, arm, row)
                  /\ text[w].scope \in arm => InBranch(row, filter) \/ InLaterBranch(text, row)
  <1> DEFINE old == text[w].or
             scope == text[w].scope
             new == [old EXCEPT ![1] = @ \cup filter]
             q == ReplaceAt(text, w, Where(scope, new))
  <1>1. Len(old) \in Nat /\ Len(old) > 0 /\ DOMAIN old = 1..Len(old)
    <2>1. old # <<>> /\ \E S : old \in Seq(S) BY Zenon DEF Text
    <2> HIDE DEF old
    <2>2. QED BY <2>1
  <1>2. /\ DOMAIN new = DOMAIN old /\ new[1] = old[1] \cup filter
        /\ \A k \in DOMAIN old : k # 1 => new[k] = old[k]
    BY <1>1
  <1>3. /\ DOMAIN q = DOMAIN text
        /\ q[w] = Where(scope, new)
        /\ \A i \in DOMAIN text : i # w => q[i] = text[i]
    <2>1. \E S : text \in Seq(S) BY DEF Text
    <2>2. /\ DOMAIN [text EXCEPT ![w] = Where(scope, new)] = DOMAIN text
          /\ q = [text EXCEPT ![w] = Where(scope, new)]
      BY DEF ReplaceAt
    <2> HIDE DEF new, scope
    <2>3. QED BY <2>2
  <1>4. IsWhere(q[w]) /\ q[w].or = new /\ q[w].scope = scope BY <1>3 DEF IsWhere, Where
  <1> DEFINE Some(or) == \E b \in ToSet(or) : InBranch(row, b)
             Later == InLaterBranch(text, row)
  <1>5. \A or : Some(or) <=> \E k \in DOMAIN or : InBranch(row, or[k]) BY DEF ToSet
  <1>6. Later <=> \E k \in 2..Len(old) : InBranch(row, old[k]) BY DEF InLaterBranch
  <1>7. text[w].scope = scope /\ text[w].or = old OBVIOUS
  <1> HIDE DEF old, new, scope, q, Later
  <1>8. InBranch(row, new[1]) <=> InBranch(row, old[1]) /\ InBranch(row, filter)
    BY <1>2 DEF InBranch
  <1>9. 1 \in DOMAIN old /\ \A k \in DOMAIN old : k = 1 \/ k \in 2..Len(old) BY <1>1
  <1>10. \A k \in 2..Len(old) : k \in DOMAIN old /\ k # 1 BY <1>1
  <1>11. Some(new) <=> Some(old) /\ (InBranch(row, filter) \/ Later)
    <2> HIDE DEF Some
    <2>1. ASSUME Some(new) PROVE Some(old) /\ (InBranch(row, filter) \/ Later)
      <3>1. PICK k \in DOMAIN old : InBranch(row, new[k]) BY <1>2, <1>5, <2>1
      <3>2. CASE k = 1 BY <1>5, <1>8, <3>1, <3>2
      <3>3. CASE k # 1
        <4>1. InBranch(row, old[k]) /\ k \in 2..Len(old) BY <1>2, <1>9, <3>1, <3>3
        <4>2. QED BY <1>5, <1>6, <4>1
      <3>4. QED BY <3>2, <3>3
    <2>2. ASSUME Later PROVE Some(new)
      <3>1. PICK k \in 2..Len(old) : InBranch(row, old[k]) BY <1>6, <2>2
      <3>2. k \in DOMAIN old /\ new[k] = old[k] BY <1>2, <1>10
      <3>3. QED BY <1>2, <1>5, <3>1, <3>2
    <2>3. ASSUME Some(old), InBranch(row, filter) PROVE Some(new)
      <3>1. PICK k \in DOMAIN old : InBranch(row, old[k]) BY <1>5, <2>3
      <3>2. CASE k = 1 BY <1>2, <1>5, <1>8, <2>3, <3>1, <3>2
      <3>3. CASE k # 1 BY <1>2, <1>5, <3>1, <3>3
      <3>4. QED BY <3>2, <3>3
    <2>4. QED BY <2>1, <2>2, <2>3
  <1> DEFINE Others ==
               \A i \in DOMAIN text :
                  i # w /\ IsWhere(text[i]) /\ text[i].scope \in arm => Some(text[i].or)
  <1>12. SelectsIn(text, arm, row) <=> (scope \in arm => Some(old)) /\ Others
    <2>1. SelectsIn(text, arm, row) <=>
            \A i \in DOMAIN text : IsWhere(text[i]) /\ text[i].scope \in arm => Some(text[i].or)
      BY DEF SelectsIn
    <2> HIDE DEF Some
    <2>2. QED BY <1>7, <2>1
  <1>13. SelectsIn(q, arm, row) <=> (scope \in arm => Some(new)) /\ Others
    <2>1. SelectsIn(q, arm, row) <=>
            \A i \in DOMAIN q : IsWhere(q[i]) /\ q[i].scope \in arm => Some(q[i].or)
      BY DEF SelectsIn
    <2> HIDE DEF Some
    <2>2. QED BY <1>3, <1>4, <2>1
  <1> HIDE DEF Some, Others
  <1>14. SelectsIn(q, arm, row) <=>
            SelectsIn(text, arm, row) /\ (scope \in arm => InBranch(row, filter) \/ Later)
    BY <1>11, <1>12, <1>13
  <1>15. QED BY <1>14 DEF q, new, old, scope, Later

\* The filter passes the live rows of the tenant, and is what the planner injects.
LEMMA FilterPasses ==
    ASSUME NEW tenant, NEW row \in Rows({tenant, "other"})
    PROVE  /\ InBranch(row, {OrgIs(tenant), NotDeleted}) <=> row.org = tenant /\ ~row.deleted
           /\ injected_filters(TRUE, tenant) = {OrgIs(tenant), NotDeleted}
  <1>1. row.deleted \in BOOLEAN
        /\ \A c \in row.holds : c = <<"status", "active">> \/ c = <<"total", "high">>
    BY DEF Rows
  <1>2. OrgIs(tenant) # NotDeleted /\ (OrgIs(tenant) = OrgIs(row.org) <=> tenant = row.org)
    BY DEF OrgIs, NotDeleted
  <1>3. OrgIs(tenant) \notin row.holds /\ NotDeleted \notin row.holds
        /\ NotDeleted # OrgIs(row.org)
    BY <1>1 DEF OrgIs, NotDeleted
  <1>4. Satisfies(row, OrgIs(tenant)) <=> row.org = tenant BY <1>2, <1>3 DEF Satisfies
  <1>5. Satisfies(row, NotDeleted) <=> ~row.deleted BY <1>3 DEF Satisfies
  <1>6. QED BY <1>4, <1>5 DEF InBranch, injected_filters

\* What each arm of the injected text selects.
LEMMA Injected ==
    ASSUME NEW stmt, Text(stmt.text), stmt.select, ~stmt.mentionsOrgId,
           NEW tenant, NEW arm, NEW row
    PROVE  SelectsIn(injectFilters(stmt, tenant), arm, row) <=>
              /\ SelectsIn(stmt.text, arm, row)
              /\ FilteredScope(stmt) \in arm =>
                    InBranch(row, {OrgIs(tenant), NotDeleted}) \/ InLaterBranch(stmt.text, row)
  <1> DEFINE text == stmt.text
             filter == {OrgIs(tenant), NotDeleted}
             w == SelectInSeq(text, IsWhere)
             t == SelectInSeq(text, IsTail)
             scope == FilteredScope(stmt)
             q == injectFilters(stmt, tenant)
  <1>1. q = IF w # 0 THEN ReplaceAt(text, w,
                              Where(text[w].scope, [text[w].or EXCEPT ![1] = @ \cup filter]))
            ELSE IF t # 0 THEN InsertAt(text, t, Where(text[t].scope, <<filter>>))
            ELSE Append(text, Where(stmt.end, <<filter>>))
    BY Zenon DEF injectFilters
  <1>2. /\ w # 0 => w \in DOMAIN text /\ IsWhere(text[w])
        /\ w = 0 => \A i \in DOMAIN text : ~IsWhere(text[i])
        /\ t # 0 => t \in DOMAIN text
    BY FirstClauses DEF Text
  <1>3. scope = IF w # 0 THEN text[w].scope ELSE IF t # 0 THEN text[t].scope ELSE stmt.end
    BY Zenon DEF FilteredScope
  <1>4. w = 0 => ~InLaterBranch(text, row) BY DEF InLaterBranch
  <1>5. Text(text) /\ w = SelectInSeq(text, IsWhere) /\ \E S : text \in Seq(S) BY DEF Text
  <1> HIDE DEF w, t, q, filter, scope, text
  <1>6. CASE w # 0
    <2>1. q = ReplaceAt(text, w,
                 Where(text[w].scope, [text[w].or EXCEPT ![1] = @ \cup filter]))
      BY <1>1, <1>6
    <2>2. scope = text[w].scope BY <1>3, <1>6
    <2>3. SelectsIn(q, arm, row) <=>
             /\ SelectsIn(text, arm, row)
             /\ scope \in arm => InBranch(row, filter) \/ InLaterBranch(text, row)
      BY <1>2, <1>5, <1>6, <2>1, <2>2, Narrowed
    <2>4. QED BY <2>3 DEF q, filter, scope, text
  <1>7. CASE w = 0
    <2>1. /\ \A i \in DOMAIN q :
                q[i] = Where(scope, <<filter>>) \/ \E j \in DOMAIN text : q[i] = text[j]
          /\ \E i \in DOMAIN q : q[i] = Where(scope, <<filter>>)
      <3>1. CASE t # 0
        <4>1. q = InsertAt(text, t, Where(scope, <<filter>>)) BY <1>1, <1>3, <1>7, <3>1
        <4>2. QED BY <1>2, <1>5, <3>1, <4>1, Inserted
      <3>2. CASE t = 0
        <4>1. q = Append(text, Where(scope, <<filter>>)) BY <1>1, <1>3, <1>7, <3>2
        <4>2. QED BY <1>5, <4>1, Added
      <3>3. QED BY <3>1, <3>2
    <2>2. SelectsIn(q, arm, row) <=> (scope \in arm => InBranch(row, filter))
      BY <1>2, <1>7, <2>1, OwnFilter
    <2>3. SelectsIn(text, arm, row) BY <1>2, <1>7 DEF SelectsIn
    <2>4. QED BY <1>4, <1>7, <2>2, <2>3 DEF q, filter, scope, text
  <1>8. QED BY <1>6, <1>7

\* A request that has built a query works with the store that its input determines.
Issued ==
    \A r \in Reqs : queries[r] # <<>> =>
        pc[r] \in {"handler", "done"} /\ store[r] = IdentityGiven(r)

LEMMA HandlerSteps ==
    ASSUME NEW r \in Reqs, HandlerStep(r)
    PROVE  /\ pc[r] = "handler" /\ UNCHANGED <<input, store>>
           /\ pc' = pc \/ pc' = [pc EXCEPT ![r] = "done"]
           /\ queries' = queries \/ \E q : queries' = [queries EXCEPT ![r] = q]
  BY DEF HandlerStep, Sql, Sudo, SudoSql, Raw, Require, GetActiveUser, CallAction, ActionReturns,
         SetStatus, Throw, Return, Operation, InHandler, Fail, Built

LEMMA EarlySteps ==
    ASSUME NEW r \in Reqs, Arrive(r) \/ Verified(r) \/ Dispatch(r)
    PROVE  /\ pc[r] \in {"new", "verifying", "dispatch"} /\ UNCHANGED <<input, queries>>
           /\ \E to : pc' = [pc EXCEPT ![r] = to]
           /\ store' = store \/ \E s : store' = [store EXCEPT ![r] = s]
  BY DEF Arrive, Verified, Dispatch, SetStore, handlerVars

LEMMA IssuedStep == ASSUME RequestInv, Issued, [Next]_vars PROVE Issued'
  <1>1. CASE UNCHANGED vars
    <2>1. UNCHANGED <<pc, input, store, queries>> BY <1>1 DEF vars
    <2>2. QED BY <2>1, Stable DEF Issued
  <1>2. ASSUME NEW r \in Reqs, Arrive(r) \/ Serve(r) PROVE Issued'
    <2>1. /\ pc = [o \in Reqs |-> pc[o]] /\ store = [o \in Reqs |-> store[o]]
          /\ queries = [o \in Reqs |-> queries[o]]
      BY DEF RequestInv, PerRequest
    <2>2. UNCHANGED input BY <1>2, HandlerSteps, EarlySteps DEF Serve
    <2>3. \A o : IdentityGiven(o)' = IdentityGiven(o) BY <2>2, Stable
    <2>4. ASSUME NEW o \in Reqs, o # r
          PROVE  pc'[o] = pc[o] /\ store'[o] = store[o] /\ queries'[o] = queries[o]
      <3>1. CASE HandlerStep(r) BY <2>1, <2>4, <3>1, HandlerSteps
      <3>2. CASE Arrive(r) \/ Verified(r) \/ Dispatch(r) BY <2>1, <2>4, <3>2, EarlySteps
      <3>3. QED BY <1>2, <3>1, <3>2 DEF Serve
    <2>5. queries'[r] # <<>> => pc'[r] \in {"handler", "done"} /\ store'[r] = IdentityGiven(r)
      <3>1. CASE HandlerStep(r)
        <4>1. store[r] = IdentityGiven(r)
          BY <3>1, HandlerSteps DEF RequestInv, OwnStore, Served
        <4>2. QED BY <2>1, <3>1, <4>1, HandlerSteps
      <3>2. CASE Arrive(r) \/ Verified(r) \/ Dispatch(r)
        <4>1. queries[r] = <<>> BY <3>2, EarlySteps DEF Issued
        <4>2. QED BY <3>2, <4>1, EarlySteps
      <3>3. QED BY <1>2, <3>1, <3>2 DEF Serve
    <2>6. QED BY <2>3, <2>4, <2>5 DEF Issued
  <1>3. QED BY <1>1, <1>2 DEF Next

LEMMA IssuedInvariant == Spec => []Issued
  <1>1. Init => Issued BY DEF Init, Issued
  <1>2. QED BY <1>1, IssuedStep, RequestInvariant, PTL DEF Spec

(***************************************************************************)
(* For any text of clauses, in any scopes, that does not mention org_id:   *)
(* the SELECT that sql builds of it for any request has, of the arm where  *)
(* the filter lands, exactly the rows that the author asked for and that   *)
(* are live and the request's own or pass a later OR branch; and of every  *)
(* other arm all the rows that the author asked for.                       *)
(***************************************************************************)
THEOREM SelectsConfined == Spec => []SelectsAreFiltered
  <1>1. RequestInv /\ Issued => SelectsAreFiltered
    <2> SUFFICES ASSUME RequestInv, Issued,
                        NEW r \in Reqs, NEW i \in DOMAIN queries[r],
                        queries[r][i].kind = "sql",
                        queries[r][i].stmt.select, ~queries[r][i].stmt.mentionsOrgId,
                        NEW row \in Rows({store[r].tenantId, "other"})
                 PROVE  LET tenant == store[r].tenantId
                            stmt == queries[r][i].stmt
                            new == queries[r][i].q.text
                            Own == row.org = tenant /\ ~row.deleted
                        IN  /\ Selects(new, stmt.arms, row) <=>
                                 \E arm \in stmt.arms :
                                    /\ SelectsIn(stmt.text, arm, row)
                                    /\ FilteredScope(stmt) \in arm =>
                                          Own \/ InLaterBranch(stmt.text, row)
                            /\ InBranch(row, injected_filters(TRUE, tenant)) <=> Own
      BY DEF SelectsAreFiltered
    <2> DEFINE tenant == store[r].tenantId
               stmt == queries[r][i].stmt
               Own == row.org = tenant /\ ~row.deleted
    <2>1. queries[r][i] \in QueryOf(r) BY DEF RequestInv, OwnQueries
    <2>2. stmt \in StatementsOf[r] /\ queries[r][i].q = sql(stmt, DocumentedTenant(r))
      BY <2>1 DEF QueryOf
    <2>3. queries[r] # <<>> OBVIOUS
    <2>4. tenant = DocumentedTenant(r)
      <3>1. store[r] = IdentityGiven(r) BY <2>3 DEF Issued
      <3>2. IdentityGiven(r).tenantId = DocumentedTenant(r) BY DEF IdentityGiven
      <3>3. QED BY <3>1, <3>2
    <2>5. queries[r][i].q.text = injectFilters(stmt, tenant) BY <2>2, <2>4 DEF sql
    <2>6. Text(stmt.text)
      <3> DEFINE text == stmt.text
      <3>1. /\ text \in Seq(ToSet(text))
            /\ \A clause \in ToSet(text) :
                  IsWhere(clause) => clause.or # <<>> /\ clause.or \in Seq(ToSet(clause.or))
        BY <2>2, StatementAssumption
      <3>2. \A k \in DOMAIN text : text[k] \in ToSet(text) BY DEF ToSet
      <3> HIDE DEF text
      <3>3. Text(text) BY <3>1, <3>2 DEF Text
      <3>4. QED BY <3>3 DEF text
    <2>7. /\ InBranch(row, {OrgIs(tenant), NotDeleted}) <=> Own
          /\ injected_filters(TRUE, tenant) = {OrgIs(tenant), NotDeleted}
      BY FilterPasses
    <2>8. stmt.select /\ ~stmt.mentionsOrgId OBVIOUS
    <2> HIDE DEF tenant, stmt, Own
    <2>9. \A arm : SelectsIn(injectFilters(stmt, tenant), arm, row) <=>
                      /\ SelectsIn(stmt.text, arm, row)
                      /\ FilteredScope(stmt) \in arm => Own \/ InLaterBranch(stmt.text, row)
      BY <2>6, <2>7, <2>8, Injected
    <2>10. Selects(injectFilters(stmt, tenant), stmt.arms, row) <=>
              \E arm \in stmt.arms :
                 /\ SelectsIn(stmt.text, arm, row)
                 /\ FilteredScope(stmt) \in arm => Own \/ InLaterBranch(stmt.text, row)
      BY <2>9 DEF Selects
    <2>11. QED BY <2>5, <2>7, <2>10 DEF tenant, stmt, Own
  <1>2. QED BY <1>1, RequestInvariant, IssuedInvariant, PTL

-----------------------------------------------------------------------------
(* How a template is put together *)

\* Induction over the natural numbers, for a set of them.
LEMMA EveryNumber ==
    ASSUME NEW P, 0 \in P, \A n \in Nat : n \in P => n + 1 \in P
    PROVE  \A n \in Nat : n \in P
  <1> DEFINE R == OpToRel(<, Nat)
             B == Nat \ P
  <1>1. \A y, z \in Nat : y < z => <<y, z>> \in R BY Zenon DEF OpToRel
  <1>2. IsWellFoundedOn(R, Nat) BY NatLessThanWellFounded, Zenon
  <1> HIDE DEF R
  <1>3. SUFFICES ASSUME B # {} PROVE FALSE OBVIOUS
  <1>4. PICK x \in B : \A y \in B : ~(<<y, x>> \in R) BY <1>2, <1>3, WFMin
  <1>5. x \in Nat /\ x # 0 OBVIOUS
  <1>6. x - 1 \in Nat /\ x - 1 < x /\ (x - 1) + 1 = x BY <1>5
  <1>7. x - 1 \notin B BY <1>1, <1>4, <1>5, <1>6
  <1>8. QED BY <1>6, <1>7

\* g tells what has been put together of each set of the positions in values.
IsFold(g, values, S) ==
    g = [s \in S |-> IF s = {} THEN EmptyFragment
                     ELSE LET i == Max(s) IN Interpolate(g[s \ {i}], values[i])]

LEMMA CompileUnfolds ==
    ASSUME NEW values
    PROVE  Compile(values) =
             (CHOOSE g : IsFold(g, values, SUBSET (DOMAIN values)))[DOMAIN values]
  BY Zenon DEF Compile, FoldLeft, MapThenFoldSet, IsFold

LEMMA MaxOfFirst ==
    ASSUME NEW n \in Nat, NEW s \in SUBSET (1..n), n \in s
    PROVE  Max(s) = n
  <1>1. \A y \in s : n >= y OBVIOUS
  <1>2. \A x \in s : (\A y \in s : x >= y) => x = n OBVIOUS
  <1>3. QED BY <1>1, <1>2 DEF Max

\* There is such a g, whatever the values are.
LEMMA FoldDefined ==
    ASSUME NEW values, NEW n \in Nat
    PROVE  \E g : IsFold(g, values, SUBSET (1..n))
  <1> DEFINE P == {k \in Nat : \E g : IsFold(g, values, SUBSET (1..k))}
  <1>1. 0 \in P
    <2> DEFINE g == [s \in {{}} |-> EmptyFragment]
    <2>1. SUBSET (1..0) = {{}} OBVIOUS
    <2>2. g = [s \in {{}} |-> IF s = {} THEN EmptyFragment
                              ELSE LET i == Max(s) IN Interpolate(g[s \ {i}], values[i])]
      OBVIOUS
    <2> HIDE DEF g
    <2>3. IsFold(g, values, SUBSET (1..0)) BY <2>1, <2>2 DEF IsFold
    <2>4. QED BY <2>3
  <1>2. ASSUME NEW k \in Nat, k \in P PROVE k + 1 \in P
    <2>1. PICK g : IsFold(g, values, SUBSET (1..k)) BY <1>2
    <2> DEFINE Old == SUBSET (1..k)
               New == SUBSET (1..(k + 1))
               Rest(s) == s \ {Max(s)}
               Put(s, f) == Interpolate(f, values[Max(s)])
               h == [s \in New |-> IF k + 1 \in s THEN Put(s, g[Rest(s)]) ELSE g[s]]
    <2>2. \A s \in New : /\ k + 1 \notin s => s \in Old
                         /\ k + 1 \in s => Rest(s) \in Old /\ s # {}
      <3> SUFFICES ASSUME NEW s \in New
                   PROVE  /\ k + 1 \notin s => s \in Old
                          /\ k + 1 \in s => Rest(s) \in Old /\ s # {}
        OBVIOUS
      <3>1. k + 1 \in s => Max(s) = k + 1 BY MaxOfFirst
      <3> HIDE DEF Rest
      <3>2. k + 1 \in s => Rest(s) = s \ {k + 1} BY <3>1 DEF Rest
      <3>3. \A i \in s : i \in 1..(k + 1) OBVIOUS
      <3>4. \A i \in 1..(k + 1) : i # k + 1 => i \in 1..k OBVIOUS
      <3>5. k + 1 \notin s => s \in Old BY <3>3, <3>4
      <3>6. s \ {k + 1} \in Old BY <3>3, <3>4
      <3>7. QED BY <3>2, <3>5, <3>6
    <2>3. \A s \in Old : s \in New /\ k + 1 \notin s /\ Rest(s) \in Old
      <3> SUFFICES ASSUME NEW s \in Old PROVE s \in New /\ k + 1 \notin s /\ Rest(s) \in Old
        OBVIOUS
      <3>1. \A i \in s : i \in 1..k OBVIOUS
      <3>2. \A i \in 1..k : i \in 1..(k + 1) /\ i # k + 1 OBVIOUS
      <3>3. s \in New /\ k + 1 \notin s BY <3>1, <3>2
      <3>4. Rest(s) \in Old BY <3>1
      <3>5. QED BY <3>3, <3>4
    <2>4. \A f, S : IsFold(f, values, S) <=>
             f = [s \in S |-> IF s = {} THEN EmptyFragment ELSE Put(s, f[Rest(s)])]
      BY Zenon DEF IsFold
    <2> HIDE DEF Old, New, Rest, Put
    <2>5. g = [s \in Old |-> IF s = {} THEN EmptyFragment ELSE Put(s, g[Rest(s)])]
      BY <2>1, <2>4 DEF Old
    <2>6. \A s \in Old : h[s] = g[s] BY <2>3
    <2>7. \A s \in New : h[s] = IF s = {} THEN EmptyFragment ELSE Put(s, h[Rest(s)])
      <3> SUFFICES ASSUME NEW s \in New
                   PROVE  h[s] = IF s = {} THEN EmptyFragment ELSE Put(s, h[Rest(s)])
        OBVIOUS
      <3>1. CASE k + 1 \in s
        <4>1. h[s] = Put(s, g[Rest(s)]) /\ Rest(s) \in Old /\ s # {} BY <2>2, <3>1
        <4> HIDE DEF h
        <4>2. QED BY <2>6, <4>1
      <3>2. CASE k + 1 \notin s
        <4>1. s \in Old /\ h[s] = g[s] BY <2>2, <3>2
        <4> HIDE DEF h
        <4>2. g[s] = IF s = {} THEN EmptyFragment ELSE Put(s, g[Rest(s)]) BY <2>5, <4>1
        <4>3. h[Rest(s)] = g[Rest(s)] BY <2>3, <2>6, <4>1
        <4>4. QED BY <4>1, <4>2, <4>3
      <3>3. QED BY <3>1, <3>2
    <2>8. h = [s \in New |-> IF s = {} THEN EmptyFragment ELSE Put(s, h[Rest(s)])]
      <3> DEFINE m == [s \in New |-> IF s = {} THEN EmptyFragment ELSE Put(s, h[Rest(s)])]
      <3>1. \A s \in New : h[s] = m[s]
        <4> HIDE DEF h
        <4>1. QED BY <2>7
      <3>2. QED BY <3>1
    <2>9. IsFold(h, values, New)
      <3> HIDE DEF h
      <3>1. QED BY <2>4, <2>8
    <2>10. QED BY <2>9 DEF New
  <1> HIDE DEF P
  <1>3. n \in P BY <1>1, <1>2, EveryNumber
  <1>4. QED BY <1>3 DEF P

\* T tells what has been put together after each of the first n values.
Steps(T, values, n) ==
    /\ T[0] = EmptyFragment
    /\ \A k \in 1..n : T[k] = Interpolate(T[k - 1], values[k])

LEMMA CompileSteps ==
    ASSUME NEW S, NEW values \in Seq(S)
    PROVE  \E T : Steps(T, values, Len(values)) /\ T[Len(values)] = Compile(values)
  <1> DEFINE n == Len(values)
             g == CHOOSE g : IsFold(g, values, SUBSET (1..n))
             T == [k \in 0..n |-> g[1..k]]
  <1>1. n \in Nat /\ DOMAIN values = 1..n OBVIOUS
  <1>2. Compile(values) = g[1..n] BY <1>1, CompileUnfolds
  <1>3. IsFold(g, values, SUBSET (1..n)) BY <1>1, FoldDefined
  <1> HIDE DEF n, g
  <1>4. g[{}] = EmptyFragment BY <1>3 DEF IsFold
  <1>5. ASSUME NEW k \in 1..n PROVE g[1..k] = Interpolate(g[1..(k - 1)], values[k])
    <2> DEFINE s == 1..k
    <2>1. s \in SUBSET (1..n) /\ s # {} /\ s \in SUBSET (1..k) /\ k \in s /\ k \in Nat BY <1>1
    <2>2. s \ {k} = 1..(k - 1) BY <1>1
    <2> HIDE DEF s
    <2>3. Max(s) = k BY <2>1, MaxOfFirst
    <2>4. g[s] = Interpolate(g[s \ {Max(s)}], values[Max(s)]) BY <1>3, <2>1, Zenon DEF IsFold
    <2>5. QED BY <2>2, <2>3, <2>4 DEF s
  <1>6. T[0] = EmptyFragment
    <2>1. 1..0 = {} OBVIOUS
    <2>2. 0 \in 0..n BY <1>1
    <2>3. QED BY <1>4, <2>1, <2>2
  <1>7. ASSUME NEW k \in 1..n PROVE T[k] = Interpolate(T[k - 1], values[k])
    <2>1. k \in 0..n /\ k - 1 \in 0..n BY <1>1
    <2>2. T[k] = g[1..k] /\ T[k - 1] = g[1..(k - 1)] BY <2>1
    <2> HIDE DEF T
    <2>3. QED BY <1>5, <2>2
  <1>8. T[n] = Compile(values) BY <1>1, <1>2
  <1> HIDE DEF T
  <1>9. QED BY <1>6, <1>7, <1>8 DEF Steps, n

\* The offsets of the values are defined, one for each of them.
LEMMA OffsetsAdd ==
    ASSUME NEW S, NEW values \in Seq(S), NEW n \in Nat
    PROVE  /\ values # <<>> => Offsets(values, n)[1] = n
           /\ \A k \in 2..Len(values) :
                 Offsets(values, n)[k] = Offsets(values, n)[k - 1] + ParamsOf(values[k - 1])
  <1> DEFINE l == Len(values)
             Is(b, m) == b = [k \in 1..m |-> IF k = 1 THEN n
                                             ELSE b[k - 1] + ParamsOf(values[k - 1])]
             P == {m \in Nat : \E b : Is(b, m)}
             o == CHOOSE b : Is(b, l)
  <1>1. l \in Nat /\ (values # <<>> => l > 0) OBVIOUS
  <1>2. 0 \in P
    <2> DEFINE b == <<>>
    <2>1. 1..0 = {} OBVIOUS
    <2>2. b = [k \in 1..0 |-> IF k = 1 THEN n ELSE b[k - 1] + ParamsOf(values[k - 1])]
      BY <2>1
    <2>3. QED BY <2>2
  <1>3. ASSUME NEW m \in Nat, m \in P PROVE m + 1 \in P
    <2>1. PICK b : Is(b, m) BY <1>3
    <2> DEFINE more(f, k) == IF k = 1 THEN n ELSE f[k - 1] + ParamsOf(values[k - 1])
               c == [k \in 1..(m + 1) |-> more(b, k)]
    <2>2. \A k \in 1..m : c[k] = b[k]
      <3>1. \A k \in 1..m : b[k] = more(b, k) BY <2>1
      <3> HIDE DEF more
      <3>2. \A k \in 1..m : k \in 1..(m + 1) OBVIOUS
      <3>3. QED BY <3>1, <3>2
    <2>3. \A k \in 1..(m + 1) : k # 1 => k - 1 \in 1..m OBVIOUS
    <2>4. \A k \in 1..(m + 1) : more(b, k) = more(c, k)
      <3> HIDE DEF c
      <3>1. QED BY <2>2, <2>3
    <2>5. c = [k \in 1..(m + 1) |-> more(c, k)]
      <3> DEFINE d == [k \in 1..(m + 1) |-> more(c, k)]
      <3> HIDE DEF more
      <3>1. \A k \in 1..(m + 1) : c[k] = d[k] BY <2>4
      <3>2. QED BY <3>1
    <2> HIDE DEF c
    <2>6. Is(c, m + 1) BY <2>5
    <2>7. QED BY <2>6
  <1> HIDE DEF P
  <1>4. l \in P BY <1>1, <1>2, <1>3, EveryNumber
  <1>5. Is(o, l) BY <1>4 DEF P
  <1>6. Offsets(values, n) = o BY Zenon DEF Offsets
  <1> HIDE DEF o, l
  <1>7. l > 0 => o[1] = n BY <1>1, <1>5
  <1>8. \A k \in 2..l : o[k] = o[k - 1] + ParamsOf(values[k - 1])
    <2>1. \A k \in 2..l : k \in 1..l /\ k # 1 BY <1>1
    <2>2. QED BY <1>5, <2>1
  <1>9. QED BY <1>1, <1>6, <1>7, <1>8 DEF l

\* What is put together holds the numbers after n.
Holds(f, n, m) == WellFormed(f, n) /\ Len(f.params) = m /\ m \in Nat

\* A well formed fragment whose numbers follow goes behind.
LEMMA InlineHolds ==
    ASSUME NEW n \in Nat, NEW m \in Nat, NEW text, Holds(text, n, m),
           NEW f, WellFormed(f, n + m)
    PROVE  Holds(Inline(text, f), n, m + Len(f.params))
  <1> DEFINE j == Len(f.params)
             P == text.params
             Q == f.params
             A == text.placeholders
             B == [i \in DOMAIN f.placeholders |-> f.placeholders[i] + m]
  <1>1. j \in Nat /\ Q = [i \in 1..j |-> (n + m) + i] /\ f.placeholders = [i \in 1..j |-> i]
    BY DEF WellFormed
  <1>2. P = [i \in 1..m |-> n + i] /\ A = [i \in 1..m |-> i] /\ Len(P) = m
    BY DEF WellFormed, Holds
  <1>3. B = [i \in 1..j |-> m + i] BY <1>1
  <1>4. Inline(text, f) = [placeholders |-> A \o B, params |-> P \o Q]
    BY <1>2, Zenon DEF Inline
  <1> HIDE DEF j, P, Q, A, B
  <1>5. P \in Seq(Int) /\ Q \in Seq(Int) /\ A \in Seq(Int) /\ B \in Seq(Int)
        /\ Len(P) = m /\ Len(Q) = j /\ Len(A) = m /\ Len(B) = j
    BY <1>1, <1>2, <1>3
  <1>6. P \o Q = [i \in 1..(m + j) |-> n + i]
    BY <1>1, <1>2, <1>5
  <1>7. A \o B = [i \in 1..(m + j) |-> i]
    BY <1>1, <1>2, <1>3, <1>5
  <1>8. Len(P \o Q) = m + j /\ m + j \in Nat
    <2>1. m \in Nat /\ j \in Nat /\ P \in Seq(Int) /\ Q \in Seq(Int) BY <1>1, <1>5
    <2>2. Len(P \o Q) = Len(P) + Len(Q) BY <2>1
    <2>3. QED BY <1>5, <2>1, <2>2
  <1>9. Holds([placeholders |-> A \o B, params |-> P \o Q], n, m + j)
    BY <1>6, <1>7, <1>8 DEF Holds, WellFormed
  <1>10. QED BY <1>4, <1>9 DEF j

LEMMA BindHolds ==
    ASSUME NEW n \in Nat, NEW m \in Nat, NEW text, Holds(text, n, m), NEW v, v = n + m + 1
    PROVE  Holds(Bind(text, v), n, m + 1)
  <1> DEFINE P == text.params
             A == text.placeholders
  <1>1. P = [i \in 1..m |-> n + i] /\ A = [i \in 1..m |-> i] /\ Len(P) = m
    BY DEF WellFormed, Holds
  <1>2. Bind(text, v) = [placeholders |-> Append(A, m + 1), params |-> Append(P, v)]
    BY <1>1, Zenon DEF Bind
  <1> HIDE DEF P, A
  <1>3. P \in Seq(Int) /\ A \in Seq(Int) /\ Len(P) = m /\ Len(A) = m BY <1>1
  <1>4. Append(P, v) = [i \in 1..(m + 1) |-> n + i] BY <1>1, <1>3
  <1>5. Append(A, m + 1) = [i \in 1..(m + 1) |-> i] BY <1>1, <1>3
  <1>6. Len(Append(P, v)) = m + 1 /\ m + 1 \in Nat BY <1>3
  <1> DEFINE ps == Append(P, v)
             as == Append(A, m + 1)
  <1> HIDE DEF ps, as
  <1>7. Holds([placeholders |-> as, params |-> ps], n, m + 1)
    BY <1>4, <1>5, <1>6 DEF Holds, WellFormed, ps, as
  <1>8. QED BY <1>2, <1>7 DEF ps, as

\* Numbered values give a text with the numbers that follow n, and so a fragment that
\* numbered values may hold.
LEMMA Compiles ==
    ASSUME NEW S, NEW values \in Seq(S), NEW n \in Nat, Numbered(values, n)
    PROVE  WellFormed(Compile(values), n)
  <1> DEFINE l == Len(values)
             o == Offsets(values, n)
  <1>1. l \in Nat /\ DOMAIN values = 1..l OBVIOUS
  <1>2. PICK T : Steps(T, values, l) /\ T[l] = Compile(values) BY CompileSteps
  <1>3. \A k \in 1..l : IF values[k].fragment THEN WellFormed(values[k].of, o[k])
                        ELSE values[k].of = o[k] + 1
    BY <1>1, Zenon DEF Numbered
  <1>4. /\ l > 0 => o[1] = n
        /\ \A k \in 2..l : o[k] = o[k - 1] + ParamsOf(values[k - 1])
    BY <1>1, OffsetsAdd
  <1> HIDE DEF l, o
  <1> DEFINE P == {k \in Nat : k <= l =>
                     \E m \in Nat : Holds(T[k], n, m) /\ (k < l => o[k + 1] = n + m)}
  <1>5. 0 \in P
    <2>1. T[0] = EmptyFragment BY <1>2 DEF Steps
    <2>2. Holds(EmptyFragment, n, 0)
      <3>1. [i \in 1..0 |-> n + i] = <<>> /\ [i \in 1..0 |-> i] = <<>> OBVIOUS
      <3>2. EmptyFragment.params = <<>> /\ EmptyFragment.placeholders = <<>> /\ Len(<<>>) = 0
        BY DEF EmptyFragment
      <3>3. QED BY <3>1, <3>2 DEF Holds, WellFormed
    <2>3. 0 < l => o[0 + 1] = n + 0 BY <1>1, <1>4
    <2>4. QED BY <2>1, <2>2, <2>3
  <1>6. ASSUME NEW k \in Nat, k \in P PROVE k + 1 \in P
    <2> SUFFICES ASSUME k + 1 <= l
                 PROVE  \E m \in Nat : /\ Holds(T[k + 1], n, m)
                                       /\ k + 1 < l => o[(k + 1) + 1] = n + m
      OBVIOUS
    <2> DEFINE c == k + 1
               v == values[c]
    <2>1. c \in 1..l /\ c - 1 = k /\ k <= l /\ k < l BY <1>1
    <2>2. PICK m \in Nat : Holds(T[k], n, m) /\ o[c] = n + m BY <1>6, <2>1
    <2>3. T[c] = Interpolate(T[k], v) BY <1>2, <2>1 DEF Steps
    <2>4. c < l => o[c + 1] = o[c] + ParamsOf(v)
      <3>1. c < l => c + 1 \in 2..l /\ (c + 1) - 1 = c BY <1>1, <2>1
      <3>2. QED BY <1>4, <3>1
    <2>5. IF v.fragment THEN WellFormed(v.of, o[c]) ELSE v.of = o[c] + 1 BY <1>3, <2>1
    <2> HIDE DEF c, v
    <2>6. Holds(T[c], n, m + ParamsOf(v)) /\ m + ParamsOf(v) \in Nat
      <3>1. CASE v.fragment
        <4>1. WellFormed(v.of, n + m) BY <2>2, <2>5, <3>1
        <4>2. Holds(Inline(T[k], v.of), n, m + Len(v.of.params)) BY <2>2, <4>1, InlineHolds
        <4>3. Len(v.of.params) \in Nat BY <4>1 DEF WellFormed
        <4>4. ParamsOf(v) = Len(v.of.params) /\ T[c] = Inline(T[k], v.of)
          BY <2>3, <3>1, Zenon DEF ParamsOf, Interpolate
        <4>5. QED BY <4>2, <4>3, <4>4
      <3>2. CASE ~v.fragment
        <4>1. v.of = n + m + 1 BY <2>2, <2>5, <3>2
        <4>2. Holds(Bind(T[k], v.of), n, m + 1) BY <2>2, <4>1, BindHolds
        <4>3. ParamsOf(v) = 1 /\ T[c] = Bind(T[k], v.of)
          BY <2>3, <3>2, Zenon DEF ParamsOf, Interpolate
        <4>4. QED BY <4>2, <4>3
      <3>3. QED BY <3>1, <3>2
    <2> DEFINE more == m + ParamsOf(v)
    <2>7. ParamsOf(v) \in Int /\ more \in Nat
      <3>1. ParamsOf(v) \in Int
        <4>1. CASE v.fragment BY <2>5, <4>1 DEF ParamsOf, WellFormed
        <4>2. CASE ~v.fragment BY <4>2 DEF ParamsOf
        <4>3. QED BY <4>1, <4>2
      <3>2. QED BY <2>6, <3>1
    <2>8. c < l => o[c + 1] = n + more BY <2>2, <2>4, <2>7
    <2>9. Holds(T[c], n, more) BY <2>6
    <2> HIDE DEF more
    <2>10. QED BY <2>7, <2>8, <2>9 DEF c
  <1> HIDE DEF P
  <1>7. l \in P BY <1>1, <1>5, <1>6, EveryNumber
  <1>8. \E m \in Nat : Holds(T[l], n, m) BY <1>1, <1>7 DEF P
  <1>9. QED BY <1>2, <1>8 DEF Holds

-----------------------------------------------------------------------------
(* The clauses of what sql builds stay in order *)

\* The three keywords, each with its rank.
LEMMA RankIs ==
    ASSUME NEW clause, clause.keyword \in ToSet(ClauseOrder)
    PROVE  /\ Rank(clause) \in 1..3
           /\ IsWhere(clause) <=> Rank(clause) = 2
           /\ IsTail(clause) <=> Rank(clause) = 3
  <1>1. /\ ClauseOrder[1] = "FROM" /\ ClauseOrder[2] = "WHERE" /\ ClauseOrder[3] = "TAIL"
        /\ DOMAIN ClauseOrder = 1..3
    BY DEF ClauseOrder
  <1>2. \E k \in 1..3 : ClauseOrder[k] = clause.keyword BY <1>1 DEF ToSet
  <1>3. Rank(clause) \in 1..3 /\ ClauseOrder[Rank(clause)] = clause.keyword BY <1>2 DEF Rank
  <1> DEFINE k == Rank(clause)
  <1>4. k \in 1..3 /\ ClauseOrder[k] = clause.keyword BY <1>3
  <1> HIDE DEF k
  <1>5. k = 1 \/ k = 2 \/ k = 3 BY <1>4
  <1>6. /\ IsWhere(clause) <=> k = 2
        /\ IsTail(clause) <=> k = 3
    BY <1>1, <1>4, <1>5 DEF IsWhere, IsTail
  <1>7. QED BY <1>4, <1>6 DEF k

\* The rank of a clause is that of its keyword.
LEMMA RankOfKeyword ==
    ASSUME NEW c, NEW d, c.keyword = d.keyword
    PROVE  Rank(c) = Rank(d)
  BY DEF Rank

\* A WHERE put before the clauses of its scope of a higher rank, and after those of a
\* lower one.
LEMMA PutInOrder ==
    ASSUME NEW S, NEW text \in Seq(S), InOrder(text), NEW t \in Nat, NEW q, NEW e,
           \A i \in DOMAIN text : Rank(text[i]) \in 1..3,
           \A i \in DOMAIN text :
              text[i].scope = e.scope => /\ i < t => Rank(text[i]) < 2
                                         /\ i >= t => Rank(text[i]) > 2,
           Rank(e) = 2, PutAt(q, text, t, e)
    PROVE  InOrder(q)
  <1> SUFFICES ASSUME NEW j \in DOMAIN q, NEW k \in DOMAIN q, j < k, q[j].scope = q[k].scope
               PROVE  Rank(q[j]) < Rank(q[k])
    BY DEF InOrder
  <1>1. /\ j \in Nat /\ k \in Nat /\ DOMAIN text = 1..Len(text) /\ Len(text) \in Nat
        /\ DOMAIN q \subseteq Nat /\ q[t] = e
        /\ \A i \in DOMAIN q : \/ i = t
                               \/ i < t /\ i \in DOMAIN text /\ q[i] = text[i]
                               \/ i > t /\ i - 1 \in DOMAIN text /\ q[i] = text[i - 1]
    BY DEF PutAt
  <1>2. ASSUME NEW i \in DOMAIN q, q[i].scope = e.scope
        PROVE  /\ i < t => Rank(q[i]) < 2
               /\ i = t => Rank(q[i]) = 2
               /\ i > t => Rank(q[i]) > 2
               /\ Rank(q[i]) \in 1..3
    <2>1. CASE i = t BY <1>1, <2>1
    <2>2. CASE i < t
      <3>1. i \in DOMAIN text /\ q[i] = text[i] /\ i \in Nat BY <1>1, <2>2
      <3>2. QED BY <1>2, <2>2, <3>1
    <2>3. CASE i > t
      <3>1. i - 1 \in DOMAIN text /\ q[i] = text[i - 1] /\ i \in Nat BY <1>1, <2>3
      <3>2. i - 1 >= t BY <2>3, <3>1
      <3>3. QED BY <1>2, <2>3, <3>1, <3>2
    <2>4. i \in Nat BY <1>1
    <2>5. QED BY <2>1, <2>2, <2>3, <2>4
  <1>3. CASE j < t /\ k < t BY <1>1, <1>3 DEF InOrder
  <1>4. CASE j > t /\ k > t
    <2>1. j - 1 \in DOMAIN text /\ k - 1 \in DOMAIN text /\ j - 1 < k - 1 BY <1>1, <1>4
    <2>2. q[j] = text[j - 1] /\ q[k] = text[k - 1] BY <1>1, <1>4
    <2>3. QED BY <2>1, <2>2 DEF InOrder
  <1>5. CASE j < t /\ k > t
    <2>1. /\ j \in DOMAIN text /\ k - 1 \in DOMAIN text /\ j < k - 1
          /\ q[j] = text[j] /\ q[k] = text[k - 1]
      BY <1>1, <1>5
    <2>2. QED BY <2>1 DEF InOrder
  <1>6. CASE j = t \/ k = t
    <2> DEFINE a == Rank(q[j])
               b == Rank(q[k])
    <2>1. q[j].scope = e.scope /\ q[k].scope = e.scope BY <1>1, <1>6
    <2>2. /\ j < t => a < 2
          /\ j = t => a = 2
          /\ k > t => b > 2
          /\ k = t => b = 2
          /\ a \in 1..3 /\ b \in 1..3
      BY <1>2, <2>1
    <2> HIDE DEF a, b
    <2>3. a < b BY <1>1, <1>6, <2>2
    <2>4. QED BY <2>3 DEF a, b
  <1>7. QED BY <1>1, <1>3, <1>4, <1>5, <1>6

\* A text with its first WHERE narrowed keeps its keywords and scopes.
LEMMA NarrowedInOrder ==
    ASSUME NEW text, NEW w \in DOMAIN text, IsWhere(text[w]), NEW or, InOrder(text)
    PROVE  InOrder(ReplaceAt(text, w, Where(text[w].scope, or)))
  <1> DEFINE e == Where(text[w].scope, or)
             q == ReplaceAt(text, w, e)
  <1>1. e.keyword = text[w].keyword /\ e.scope = text[w].scope BY DEF Where, IsWhere
  <1> HIDE DEF e
  <1>2. DOMAIN q = DOMAIN text /\ \A i \in DOMAIN text : q[i] = IF i = w THEN e ELSE text[i]
    <2>1. q = [text EXCEPT ![w] = e] \/ q = [i \in DOMAIN text |-> IF i = w THEN e ELSE text[i]]
      BY DEF ReplaceAt
    <2>2. QED BY <2>1
  <1> HIDE DEF q
  <1>3. \A i \in DOMAIN q : Rank(q[i]) = Rank(text[i]) /\ q[i].scope = text[i].scope
    <2>1. Rank(e) = Rank(text[w]) BY <1>1, RankOfKeyword
    <2>2. QED BY <1>1, <1>2, <2>1
  <1>4. InOrder(q) BY <1>2, <1>3 DEF InOrder
  <1>5. QED BY <1>4 DEF q, e

\* The text that sql builds is in order when the author's is.
LEMMA InjectedInOrder ==
    ASSUME NEW stmt, NEW S, stmt.text \in Seq(S), InOrder(stmt.text), NEW tenant,
           \A i \in DOMAIN stmt.text : stmt.text[i].keyword \in ToSet(ClauseOrder)
    PROVE  InOrder(injectFilters(stmt, tenant))
  <1> DEFINE text == stmt.text
             filter == {OrgIs(tenant), NotDeleted}
             w == SelectInSeq(text, IsWhere)
             t == SelectInSeq(text, IsTail)
             F == Where(IF t # 0 THEN text[t].scope ELSE stmt.end, <<filter>>)
             q == injectFilters(stmt, tenant)
  <1>1. \/ q = text
        \/ q = IF w # 0 THEN ReplaceAt(text, w,
                                Where(text[w].scope, [text[w].or EXCEPT ![1] = @ \cup filter]))
               ELSE IF t # 0 THEN InsertAt(text, t, Where(text[t].scope, <<filter>>))
               ELSE Append(text, Where(stmt.end, <<filter>>))
    BY Zenon DEF injectFilters
  <1>2. /\ w # 0 => w \in DOMAIN text /\ IsWhere(text[w])
        /\ w = 0 => \A i \in DOMAIN text : ~IsWhere(text[i])
        /\ t # 0 => t \in DOMAIN text /\ IsTail(text[t])
        /\ t = 0 => \A i \in DOMAIN text : ~IsTail(text[i])
    BY FirstClauses
  <1>3. Rank(F) = 2 /\ (t # 0 => F.scope = text[t].scope)
    <2>1. F.keyword = "WHERE" /\ (t # 0 => F.scope = text[t].scope) BY DEF Where
    <2> HIDE DEF F
    <2>2. F.keyword \in ToSet(ClauseOrder) BY <2>1 DEF ToSet, ClauseOrder
    <2>3. QED BY <2>1, <2>2, RankIs DEF IsWhere
  <1>4. \A i \in DOMAIN text : /\ Rank(text[i]) \in 1..3
                               /\ IsWhere(text[i]) <=> Rank(text[i]) = 2
                               /\ IsTail(text[i]) <=> Rank(text[i]) = 3
    BY RankIs
  <1>5. text \in Seq(S) /\ DOMAIN text = 1..Len(text) /\ Len(text) \in Nat /\ InOrder(text) OBVIOUS
  <1>6. /\ t # 0 => F = Where(text[t].scope, <<filter>>)
        /\ t = 0 => F = Where(stmt.end, <<filter>>)
    OBVIOUS
  <1> HIDE DEF w, t, q, F, text, filter
  <1>7. CASE q = text BY <1>5, <1>7 DEF q
  <1>8. CASE w # 0 /\ q # text
    <2>1. q = ReplaceAt(text, w, Where(text[w].scope, [text[w].or EXCEPT ![1] = @ \cup filter]))
      BY <1>1, <1>8
    <2>2. InOrder(q) BY <1>2, <1>5, <1>8, <2>1, NarrowedInOrder
    <2>3. QED BY <2>2 DEF q
  <1>9. CASE w = 0 /\ t # 0 /\ q # text
    <2>1. q = InsertAt(text, t, F) /\ t \in DOMAIN text BY <1>1, <1>2, <1>6, <1>9
    <2>2. Rank(text[t]) = 3 /\ t \in Nat /\ F.scope = text[t].scope BY <1>2, <1>3, <1>4, <1>5, <1>9
    <2>3. \A i \in DOMAIN text :
             text[i].scope = F.scope => /\ i < t => Rank(text[i]) < 2
                                        /\ i >= t => Rank(text[i]) > 2
      <3> SUFFICES ASSUME NEW i \in DOMAIN text, text[i].scope = F.scope
                   PROVE  /\ i < t => Rank(text[i]) < 2
                          /\ i >= t => Rank(text[i]) > 2
        OBVIOUS
      <3>1. i \in Nat /\ Rank(text[i]) \in 1..3 /\ Rank(text[i]) # 2 BY <1>2, <1>4, <1>5, <1>9
      <3>2. i < t => Rank(text[i]) < Rank(text[t]) BY <1>5, <2>1, <2>2 DEF InOrder
      <3>3. i > t => Rank(text[t]) < Rank(text[i]) BY <1>5, <2>1, <2>2 DEF InOrder
      <3> DEFINE a == Rank(text[i])
      <3>4. a \in 1..3 /\ a # 2 /\ (i < t => a < 3) /\ (i > t => 3 < a) /\ (i = t => a = 3)
        BY <2>2, <3>1, <3>2, <3>3
      <3> HIDE DEF a
      <3>5. (i < t => a < 2) /\ (i >= t => a > 2) BY <2>2, <3>1, <3>4
      <3>6. QED BY <3>5 DEF a
    <2>4. PutAt(q, text, t, F) BY <1>5, <2>1, InsertedAt
    <2>5. InOrder(q) BY <1>3, <1>4, <1>5, <2>2, <2>3, <2>4, PutInOrder
    <2>6. QED BY <2>5 DEF q
  <1>10. CASE w = 0 /\ t = 0 /\ q # text
    <2> DEFINE n == Len(text) + 1
    <2>1. q = Append(text, F) BY <1>1, <1>6, <1>10
    <2>2. PutAt(q, text, n, F) BY <1>5, <2>1 DEF PutAt
    <2>3. n \in Nat /\ \A i \in DOMAIN text : i \in Nat /\ i < n BY <1>5
    <2> HIDE DEF n
    <2>4. \A i \in DOMAIN text :
             text[i].scope = F.scope => /\ i < n => Rank(text[i]) < 2
                                        /\ i >= n => Rank(text[i]) > 2
      <3> SUFFICES ASSUME NEW i \in DOMAIN text PROVE Rank(text[i]) < 2 BY <2>3
      <3>1. Rank(text[i]) \in 1..3 /\ Rank(text[i]) # 2 /\ Rank(text[i]) # 3
        BY <1>2, <1>4, <1>10
      <3>2. QED BY <3>1
    <2>5. InOrder(q) BY <1>3, <1>4, <1>5, <2>2, <2>3, <2>4, PutInOrder
    <2>6. QED BY <2>5 DEF q
  <1>11. QED BY <1>1, <1>7, <1>8, <1>9, <1>10

(***************************************************************************)
(* Beside the rows it selects, every query that sql builds has its         *)
(* placeholders numbered in the order of the text, each for the parameter  *)
(* that was given there, however fragments are nested in it, and the       *)
(* clauses of each scope in the order SQL asks for if the author's are.    *)
(***************************************************************************)
THEOREM QueriesSound == Spec => []QueriesAreSound
  <1>1. RequestInv => QueriesAreWellFormed
    <2> SUFFICES ASSUME RequestInv,
                        NEW r \in Reqs, NEW i \in DOMAIN queries[r],
                        queries[r][i].kind = "sql"
                 PROVE  WellFormed(queries[r][i].q, 0) /\ InOrder(queries[r][i].q.text)
      BY DEF QueriesAreWellFormed
    <2> DEFINE q == queries[r][i].q
               tenant == DocumentedTenant(r)
    <2>1. queries[r][i] \in QueryOf(r) BY DEF RequestInv, OwnQueries
    <2>2. PICK stmt \in StatementsOf[r] : q = sql(stmt, tenant) BY <2>1 DEF QueryOf
    <2>3. /\ q.text = injectFilters(stmt, tenant)
          /\ q.placeholders = Compile(stmt.values).placeholders
          /\ q.params = Compile(stmt.values).params
      BY <2>2 DEF sql
    <2> HIDE DEF q, tenant
    <2>4. WellFormed(q, 0)
      <3>1. stmt.values \in Seq(ToSet(stmt.values)) /\ Numbered(stmt.values, 0)
        BY StatementAssumption
      <3>2. WellFormed(Compile(stmt.values), 0) BY <3>1, Compiles
      <3>3. QED BY <2>3, <3>2 DEF WellFormed
    <2>5. InOrder(q.text)
      <3>1. stmt.text \in Seq(ToSet(stmt.text)) /\ InOrder(stmt.text)
        BY StatementAssumption
      <3>2. \A clause \in ToSet(stmt.text) : clause.keyword \in ToSet(ClauseOrder)
        BY StatementAssumption
      <3>3. \A k \in DOMAIN stmt.text : stmt.text[k].keyword \in ToSet(ClauseOrder)
        <4>1. \A k \in DOMAIN stmt.text : stmt.text[k] \in ToSet(stmt.text) BY DEF ToSet
        <4>2. QED BY <3>2, <4>1
      <3>4. InOrder(injectFilters(stmt, tenant)) BY <3>1, <3>3, InjectedInOrder
      <3>5. QED BY <2>3, <3>4
    <2>6. QED BY <2>4, <2>5 DEF q
  <1>2. SelectsAreFiltered /\ QueriesAreWellFormed => QueriesAreSound BY DEF QueriesAreSound
  <1>3. QED BY <1>1, <1>2, RequestInvariant, SelectsConfined, PTL

-----------------------------------------------------------------------------
(* The test kit *)

\* The entries of the gateway's history with this method.
CountIn(entries, method) == Cardinality({i \in DOMAIN entries : entries[i].method = method})

LEMMA CountAppended ==
    ASSUME NEW S, NEW s \in Seq(S), NEW e \in S, NEW method
    PROVE  /\ CountIn(s, method) \in Nat
           /\ CountIn(Append(s, e), method) =
                CountIn(s, method) + (IF e.method = method THEN 1 ELSE 0)
  <1> DEFINE s2 == Append(s, e)
             n == Len(s) + 1
             old == {i \in DOMAIN s : s[i].method = method}
             new == {i \in DOMAIN s2 : s2[i].method = method}
  <1>1. /\ DOMAIN s2 = DOMAIN s \cup {n} /\ n \notin DOMAIN s
        /\ s2[n] = e /\ \A i \in DOMAIN s : s2[i] = s[i]
    BY Appended
  <1>2. IsFiniteSet(old) /\ Cardinality(old) \in Nat BY Finite
  <1> HIDE DEF s2, n
  <1>3. CASE e.method = method
    <2>1. new = old \cup {n} /\ n \notin old BY <1>1, <1>3
    <2>2. Cardinality(new) = Cardinality(old) + 1 BY <1>2, <2>1, FS_AddElement
    <2>3. QED BY <1>2, <1>3, <2>2 DEF CountIn, s2
  <1>4. CASE e.method # method
    <2>1. new = old BY <1>1, <1>4
    <2>2. CountIn(s2, method) = CountIn(s, method) BY <2>1 DEF CountIn
    <2>3. CountIn(s, method) \in Nat BY <1>2 DEF CountIn
    <2>4. QED BY <1>4, <2>2, <2>3 DEF s2
  <1>5. QED BY <1>3, <1>4

LEMMA Joined ==
    ASSUME NEW S, NEW a \in Seq(S), NEW b \in Seq(S)
    PROVE  /\ a \o b \in Seq(S) /\ Len(a \o b) = Len(a) + Len(b)
           /\ \A k \in 1..Len(a) : (a \o b)[k] = a[k]
           /\ \A k \in 1..Len(b) : (a \o b)[Len(a) + k] = b[k]
  <1>1. a \o b \in Seq(S) OBVIOUS
  <1>2. Len(a \o b) = Len(a) + Len(b) OBVIOUS
  <1>3. \A k \in 1..Len(a) : (a \o b)[k] = a[k] OBVIOUS
  <1>4. \A k \in 1..Len(b) : (a \o b)[Len(a) + k] = b[k] OBVIOUS
  <1>5. QED BY <1>1, <1>2, <1>3, <1>4

\* What is left when an element is taken out is in the order it was in.
LEMMA RemovedAt ==
    ASSUME NEW S, NEW s \in Seq(S), NEW i \in DOMAIN s
    PROVE  LET t == RemoveAt(s, i)
           IN  /\ t \in Seq(S) /\ Len(t) = Len(s) - 1
               /\ \A k \in DOMAIN t : k < i => t[k] = s[k]
               /\ \A k \in DOMAIN t : k >= i => t[k] = s[k + 1]
  <1> DEFINE a == SubSeq(s, 1, i - 1)
             b == SubSeq(s, i + 1, Len(s))
  <1>1. i \in 1..Len(s) /\ Len(s) \in Nat OBVIOUS
  <1>2. a \in Seq(S) /\ Len(a) = i - 1 /\ \A k \in 1..(i - 1) : a[k] = s[k]
    BY <1>1
  <1>3. b \in Seq(S) /\ Len(b) = Len(s) - i /\ \A k \in 1..(Len(s) - i) : b[k] = s[i + k]
    BY <1>1
  <1>4. RemoveAt(s, i) = a \o b BY DEF RemoveAt
  <1> HIDE DEF a, b
  <1> DEFINE ab == a \o b
  <1>10. a \in Seq(S) /\ b \in Seq(S) BY <1>2, <1>3
  <1>11. Len(a) = i - 1 /\ Len(b) = Len(s) - i BY <1>2, <1>3
  <1>5. /\ ab \in Seq(S) /\ Len(ab) = Len(a) + Len(b)
        /\ \A k \in 1..Len(a) : ab[k] = a[k]
        /\ \A k \in 1..Len(b) : ab[Len(a) + k] = b[k]
    BY <1>10, Joined
  <1> HIDE DEF ab
  <1>6. Len(ab) = Len(s) - 1 BY <1>1, <1>5, <1>11
  <1>7. ASSUME NEW k \in 1..(Len(s) - 1)
        PROVE  (k < i => ab[k] = s[k]) /\ (k >= i => ab[k] = s[k + 1])
    <2>1. CASE k < i
      <3>1. k \in 1..(i - 1) BY <1>1, <1>7, <2>1
      <3>2. ab[k] = a[k] /\ a[k] = s[k] BY <1>2, <1>5, <1>11, <3>1
      <3>3. ~(k >= i) BY <1>1, <2>1
      <3>4. QED BY <3>2, <3>3
    <2>2. CASE k >= i
      <3> DEFINE m == k - i + 1
      <3>7. k \in Nat /\ i \in Nat /\ Len(s) \in Nat /\ k <= Len(s) - 1 /\ i <= k
        BY <1>1, <1>7, <2>2
      <3>8. m \in 1..(Len(s) - i) /\ (i - 1) + m = k /\ i + m = k + 1 BY <3>7
      <3>1. m \in 1..Len(b) /\ Len(a) + m = k /\ i + m = k + 1
        <4> HIDE DEF m
        <4>1. QED BY <1>11, <3>8
      <3> HIDE DEF m
      <3>2. ab[Len(a) + m] = b[m] BY <1>5, <3>1
      <3>3. b[m] = s[i + m] BY <1>3, <3>1
      <3>4. ab[k] = s[k + 1] BY <3>1, <3>2, <3>3
      <3>5. ~(k < i) BY <1>1, <2>2
      <3>6. QED BY <3>4, <3>5
    <2>3. QED BY <1>1, <2>1, <2>2
  <1>8. DOMAIN ab = 1..(Len(s) - 1) BY <1>1, <1>5, <1>6
  <1>9. QED BY <1>4, <1>5, <1>6, <1>7, <1>8 DEF ab

LEMMA Replaced ==
    ASSUME NEW S, NEW s \in Seq(S), NEW n \in DOMAIN s, NEW x \in S
    PROVE  LET t == [s EXCEPT ![n] = x]
           IN  /\ t \in Seq(S) /\ Len(t) = Len(s) /\ t[n] = x
               /\ \A i \in DOMAIN s \ {n} : t[i] = s[i]
  <1> DEFINE t == [s EXCEPT ![n] = x]
  <1>1. t \in Seq(S) OBVIOUS
  <1>2. Len(t) = Len(s) OBVIOUS
  <1>3. t[n] = x /\ \A i \in DOMAIN s \ {n} : t[i] = s[i] OBVIOUS
  <1>4. QED BY <1>1, <1>2, <1>3

\* An appended element that is then replaced.
PutLast(s, e, x) == [Append(s, e) EXCEPT ![Len(s) + 1] = x]

LEMMA ReplacedLast ==
    ASSUME NEW S, NEW s \in Seq(S), NEW e \in S, NEW x \in S
    PROVE  PutLast(s, e, x) = Append(s, x)
  <1> DEFINE u == Append(s, e)
             t == [u EXCEPT ![Len(s) + 1] = x]
  <1>1. /\ u \in Seq(S) /\ Len(u) = Len(s) + 1 /\ Len(s) + 1 \in DOMAIN u
        /\ \A i \in 1..Len(s) : u[i] = s[i] /\ i \in DOMAIN u \ {Len(s) + 1}
    OBVIOUS
  <1> HIDE DEF u
  <1>2. /\ t \in Seq(S) /\ Len(t) = Len(u) /\ t[Len(s) + 1] = x
        /\ \A i \in DOMAIN u \ {Len(s) + 1} : t[i] = u[i]
    BY <1>1, Replaced
  <1> HIDE DEF t
  <1>3. t = Append(s, x) BY <1>1, <1>2
  <1>4. QED BY <1>3 DEF t, u, PutLast

-----------------------------------------------------------------------------
(* The mock gateway *)

Pending == {"resolves", "rejects", "failing", "succeeding"}

Entries ==
    [ method : {"charge", "refund"}, call : Charges \cup {NoValue},
      result : Charges \cup {NoValue}, error : BOOLEAN ]

Gateways ==
    [ history : Seq(Entries), nextResult : BOOLEAN, nextError : BOOLEAN,
      handler : {"none", "failNextN", "override"}, remaining : Nat, failing : Nat, begun : Nat,
      charges : Nat, refunds : Nat, spied : BOOLEAN, spyCalls : Nat ]

Ids == (Int \X Nat) \cup {NoValue}

\* The calls of charge() that a gateway in its n-th epoch may know of.
CallsIn(n) == [verdict : Verdicts, id : Ids, epoch : 0..n, nth : Nat]

GatewayShape ==
    /\ gateway \in Gateways
    /\ gateway.remaining <= gateway.failing
    /\ epoch \in 0..MaxResets
    /\ call \in [Charges -> CallsIn(epoch)]

\* A call waits once, until its handler is done.
WaitingOnce ==
    /\ waiting \in Seq(Charges)
    /\ \A i \in DOMAIN waiting : call[waiting[i]].verdict \in Pending
    /\ \A i, k \in DOMAIN waiting : waiting[i] = waiting[k] => i = k

\* A call whose handler runs has an entry, unless the gateway was reset meanwhile.
HasEntry(c) == \E k \in DOMAIN gateway.history : gateway.history[k].call = c

PendingHaveEntries ==
    \A c \in Charges :
        (call[c].verdict \in Pending /\ call[c].epoch = epoch) => HasEntry(c)

\* Where the results stand.
ResultsFiled ==
    \A i \in DOMAIN gateway.history :
        LET e == gateway.history[i]
        IN  e.result # NoValue =>
              /\ call[e.result].verdict # "idle"
              /\ \/ e.result = e.call
                 \/ call[e.result].epoch < epoch
                 \/ \E k \in 1..(i - 1) : gateway.history[k].call = e.result

LostByReset == \A c \in Charges : call[c].verdict = "lost" => call[c].epoch < epoch

\* The ids that this epoch has given are numbered up to its charges.
IdsNumbered ==
    \A c \in Charges :
        (call[c].id # NoValue /\ call[c].epoch = epoch) => call[c].id[2] <= gateway.charges

\* How many charges failNextN will fail still.
FailuresLeft ==
    gateway.handler = "failNextN" =>
        gateway.remaining = IF gateway.begun <= gateway.failing
                            THEN gateway.failing - gateway.begun ELSE 0

GatewayInv ==
    /\ GatewayShape /\ WaitingOnce /\ CountersMatchHistory /\ PendingHaveEntries
    /\ ResultsFiled /\ LostByReset /\ IdsNumbered /\ PaymentIdsAreDistinct /\ FailuresLeft

\* A step that leaves the history, the counters and the calls alone.
LEMMA SetUpInv ==
    ASSUME GatewayInv, UNCHANGED <<call, waiting, epoch>>, gateway' \in Gateways,
           gateway'.history = gateway.history, gateway'.charges = gateway.charges,
           gateway'.refunds = gateway.refunds,
           gateway'.spied => gateway'.spyCalls <= gateway'.refunds,
           gateway'.remaining <= gateway'.failing,
           FailuresLeft'
    PROVE  GatewayInv'
  <1>1. GatewayShape' BY DEF GatewayInv, GatewayShape
  <1>2. WaitingOnce' BY DEF GatewayInv, WaitingOnce
  <1>3. CountersMatchHistory' BY DEF GatewayInv, CountersMatchHistory, Count
  <1>4. PendingHaveEntries' BY DEF GatewayInv, PendingHaveEntries, HasEntry
  <1>5. ResultsFiled' BY DEF GatewayInv, ResultsFiled
  <1>6. LostByReset' BY DEF GatewayInv, LostByReset
  <1>7. IdsNumbered' BY DEF GatewayInv, IdsNumbered
  <1>8. PaymentIdsAreDistinct' BY DEF GatewayInv, PaymentIdsAreDistinct
  <1>9. QED BY <1>1, <1>2, <1>3, <1>4, <1>5, <1>6, <1>7, <1>8 DEF GatewayInv

LEMMA FailuresSet ==
    ASSUME NEW g \in Gateways, NEW n \in Nat
    PROVE  [g EXCEPT !.handler = "failNextN", !.remaining = n, !.failing = n, !.begun = 0]
                \in Gateways
  BY DEF Gateways

LEMMA EntryAdded ==
    ASSUME NEW g \in Gateways, NEW n \in Nat, NEW m \in Nat, NEW s \in Seq(Entries)
    PROVE  /\ [g EXCEPT !.history = s, !.refunds = n, !.spyCalls = m] \in Gateways
           /\ [g EXCEPT !.history = s, !.charges = n, !.begun = m] \in Gateways
  <1>1. [g EXCEPT !.history = s, !.refunds = n, !.spyCalls = m] \in Gateways
    BY DEF Gateways
  <1>2. [g EXCEPT !.history = s, !.charges = n, !.begun = m] \in Gateways
    BY DEF Gateways
  <1>3. QED BY <1>1, <1>2

\* The calls that set the gateway up.
SettingUp ==
    \/ succeedNext \/ failNext \/ overrideCharge \/ spyRefund
    \/ \E n \in 0..2 : failNextN(n)

LEMMA SettingUpInv ==
    ASSUME GatewayInv, SettingUp
    PROVE  GatewayInv'
  <1> USE DEF SetUp, Gateways
  <1>1. gateway \in Gateways /\ gateway.remaining <= gateway.failing
        /\ (gateway.spied => gateway.spyCalls <= gateway.refunds)
    BY DEF GatewayInv, GatewayShape, CountersMatchHistory
  <1>2. FailuresLeft BY DEF GatewayInv
  <1>3. CASE succeedNext BY <1>1, <1>2, <1>3, SetUpInv DEF succeedNext, FailuresLeft
  <1>4. CASE failNext BY <1>1, <1>2, <1>4, SetUpInv DEF failNext, FailuresLeft
  <1>5. CASE overrideCharge BY <1>1, <1>2, <1>5, SetUpInv DEF overrideCharge, FailuresLeft
  <1>6. CASE spyRefund
    <2>1. gateway' \in Gateways BY <1>1, <1>6 DEF spyRefund
    <2>2. /\ gateway'.history = gateway.history /\ gateway'.charges = gateway.charges
          /\ gateway'.refunds = gateway.refunds /\ gateway'.spyCalls = 0
          /\ gateway'.remaining = gateway.remaining /\ gateway'.failing = gateway.failing
          /\ gateway'.begun = gateway.begun /\ gateway'.handler = gateway.handler
          /\ UNCHANGED <<call, waiting, epoch>>
      BY <1>1, <1>6 DEF spyRefund
    <2>3. gateway.refunds \in Nat BY <1>1
    <2>4. FailuresLeft' BY <1>2, <2>2 DEF FailuresLeft
    <2> HIDE DEF Gateways
    <2>5. QED BY <1>1, <2>1, <2>2, <2>3, <2>4, SetUpInv
  <1>7. ASSUME NEW n \in 0..2, failNextN(n) PROVE GatewayInv'
    <2> HIDE DEF Gateways
    <2>5. gateway' = [gateway EXCEPT !.handler = "failNextN", !.remaining = n,
                                     !.failing = n, !.begun = 0]
      BY <1>7 DEF failNextN
    <2>1. gateway' \in Gateways BY <1>1, <2>5, n \in Nat, FailuresSet
    <2>2. /\ gateway'.history = gateway.history /\ gateway'.charges = gateway.charges
          /\ gateway'.refunds = gateway.refunds /\ gateway'.spyCalls = gateway.spyCalls
          /\ gateway'.spied = gateway.spied
          /\ gateway'.remaining = n /\ gateway'.failing = n /\ gateway'.begun = 0
          /\ UNCHANGED <<call, waiting, epoch>>
      BY <1>1, <1>7 DEF failNextN, Gateways
    <2>3. FailuresLeft' BY <2>2 DEF FailuresLeft
    <2>4. QED BY <1>1, <2>1, <2>2, <2>3, SetUpInv
  <1>8. QED BY <1>3, <1>4, <1>5, <1>6, <1>7 DEF SettingUp

LEMMA RefundInv ==
    ASSUME GatewayInv, refund
    PROVE  GatewayInv'
  <1> DEFINE h == gateway.history
             e == Entry("refund", NoValue)
  <1>1. /\ gateway \in Gateways /\ h \in Seq(Entries) /\ gateway.remaining <= gateway.failing
        /\ gateway.refunds \in Nat /\ gateway.spyCalls \in Nat
    BY DEF GatewayInv, GatewayShape, Gateways
  <1>2. e \in Entries /\ e.method = "refund" /\ e.result = NoValue BY DEF Entry, Entries
  <1>3. /\ gateway' = [gateway EXCEPT !.history = Append(h, e), !.refunds = @ + 1,
                                      !.spyCalls = IF gateway.spied THEN @ + 1 ELSE @]
        /\ UNCHANGED <<call, waiting, setups, epoch>>
    BY DEF refund
  <1> HIDE DEF e
  <1>4. /\ Append(h, e) \in Seq(Entries)
        /\ DOMAIN Append(h, e) = DOMAIN h \cup {Len(h) + 1}
        /\ Append(h, e)[Len(h) + 1] = e
        /\ \A i \in DOMAIN h : Append(h, e)[i] = h[i]
    BY <1>1, <1>2, Appended
  <1> DEFINE calls == IF gateway.spied THEN gateway.spyCalls + 1 ELSE gateway.spyCalls
  <1>16. calls \in Nat BY <1>1
  <1>17. gateway' = [gateway EXCEPT !.history = Append(h, e), !.refunds = gateway.refunds + 1,
                                      !.spyCalls = calls]
    BY <1>3
  <1> HIDE DEF calls
  <1>18. gateway' \in Gateways BY <1>1, <1>4, <1>16, <1>17, gateway.refunds + 1 \in Nat, EntryAdded
  <1>5. /\ gateway'.history = Append(h, e)
        /\ gateway'.refunds = gateway.refunds + 1 /\ gateway'.charges = gateway.charges
        /\ gateway'.spied = gateway.spied
        /\ gateway'.spyCalls = calls
        /\ gateway'.remaining = gateway.remaining /\ gateway'.failing = gateway.failing
        /\ gateway'.begun = gateway.begun /\ gateway'.handler = gateway.handler
    BY <1>1, <1>17 DEF Gateways
  <1> HIDE DEF h
  <1>6. GatewayShape' BY <1>1, <1>3, <1>5, <1>18 DEF GatewayInv, GatewayShape
  <1>7. WaitingOnce' BY <1>3 DEF GatewayInv, WaitingOnce
  <1>8. CountersMatchHistory'
    <2>1. CountIn(Append(h, e), "charge") = CountIn(h, "charge")
      BY <1>1, <1>2, CountAppended
    <2>2. CountIn(Append(h, e), "refund") = CountIn(h, "refund") + 1
      BY <1>1, <1>2, CountAppended
    <2>3. \A m : Count(m) = CountIn(h, m) /\ Count(m)' = CountIn(Append(h, e), m)
      BY <1>5 DEF Count, CountIn, h
    <2>4. QED BY <1>1, <1>5, <2>1, <2>2, <2>3 DEF GatewayInv, CountersMatchHistory, calls
  <1>9. PendingHaveEntries'
    BY <1>3, <1>4, <1>5 DEF GatewayInv, PendingHaveEntries, HasEntry, h
  <1>10. ResultsFiled'
    <2>1. SUFFICES ASSUME NEW i \in DOMAIN gateway'.history, gateway'.history[i].result # NoValue
                   PROVE  LET x == gateway'.history[i]
                          IN  /\ call[x.result].verdict # "idle"
                              /\ \/ x.result = x.call
                                 \/ call[x.result].epoch < epoch
                                 \/ \E k \in 1..(i - 1) : gateway'.history[k].call = x.result
      BY <1>3 DEF ResultsFiled
    <2>2. CASE i = Len(h) + 1 
      <3>1. gateway'.history[i] = e BY <1>4, <1>5, <2>2
      <3>2. QED BY <1>2, <2>1, <3>1
    <2>3. CASE i \in DOMAIN h
      <3>1. gateway'.history[i] = h[i] BY <1>4, <1>5, <2>3
      <3>2. /\ call[h[i].result].verdict # "idle"
            /\ \/ h[i].result = h[i].call
               \/ call[h[i].result].epoch < epoch
               \/ \E k \in 1..(i - 1) : h[k].call = h[i].result
        BY <2>1, <2>3, <3>1 DEF GatewayInv, ResultsFiled, h
      <3>3. DOMAIN h = 1..Len(h) /\ Len(h) \in Nat BY <1>1 DEF h
      <3>4. \A k \in 1..(i - 1) : gateway'.history[k] = h[k] BY <1>4, <1>5, <2>3, <3>3
      <3>5. QED BY <3>1, <3>2, <3>4
    <2>4. QED BY <1>4, <1>5, <2>1, <2>2, <2>3
  <1>11. LostByReset' BY <1>3 DEF GatewayInv, LostByReset
  <1>12. IdsNumbered' BY <1>3, <1>5 DEF GatewayInv, IdsNumbered
  <1>13. PaymentIdsAreDistinct' BY <1>3 DEF GatewayInv, PaymentIdsAreDistinct
  <1>14. FailuresLeft' BY <1>5 DEF GatewayInv, FailuresLeft
  <1>15. QED BY <1>6, <1>7, <1>8, <1>9, <1>10, <1>11, <1>12, <1>13, <1>14 DEF GatewayInv

\* What each way through charge comes to: an entry, a number, and a verdict.
LEMMA ChargedInv ==
    ASSUME GatewayInv, NEW c \in Charges, call[c].verdict = "idle",
           NEW e \in Entries, e.method = "charge", e.call = c, e.result \in {NoValue, c},
           NEW made \in CallsIn(epoch), made.verdict \notin {"idle", "lost"}, made.epoch = epoch,
           made.id # NoValue => made.id[2] = gateway.charges + 1,
           gateway' \in Gateways, gateway'.history = Append(gateway.history, e),
           gateway'.charges = gateway.charges + 1, gateway'.refunds = gateway.refunds,
           gateway'.spied = gateway.spied, gateway'.spyCalls = gateway.spyCalls,
           gateway'.remaining <= gateway'.failing, FailuresLeft',
           call' = [call EXCEPT ![c] = made], UNCHANGED epoch,
           \/ waiting' = Append(waiting, c) /\ made.verdict \in Pending
           \/ waiting' = waiting /\ made.verdict \notin Pending
    PROVE  GatewayInv'
  <1> DEFINE h == gateway.history
             n == Len(h) + 1
  <1>1. /\ h \in Seq(Entries) /\ gateway.charges \in Nat /\ epoch \in Nat
        /\ call \in [Charges -> CallsIn(epoch)]
    BY DEF GatewayInv, GatewayShape, Gateways
  <1>2. /\ DOMAIN Append(h, e) = DOMAIN h \cup {n} /\ n \notin DOMAIN h
        /\ Append(h, e)[n] = e
        /\ \A i \in DOMAIN h : Append(h, e)[i] = h[i]
    BY <1>1, Appended
  <1>3. call'[c] = made /\ \A d \in Charges \ {c} : call'[d] = call[d]
    BY <1>1
  <1>4. gateway'.history = Append(h, e) OBVIOUS
  <1>5. Len(h) \in Nat /\ DOMAIN h = 1..Len(h) BY <1>1
  <1> HIDE DEF h, n
  <1>6. GatewayShape' BY <1>1 DEF GatewayInv, GatewayShape
  <1>7. WaitingOnce'
    <2>1. /\ waiting \in Seq(Charges)
          /\ \A i \in DOMAIN waiting : call[waiting[i]].verdict \in Pending /\ waiting[i] \in Charges
          /\ \A i, k \in DOMAIN waiting : waiting[i] = waiting[k] => i = k
      BY DEF GatewayInv, WaitingOnce
    <2>2. \A i \in DOMAIN waiting : waiting[i] # c /\ call'[waiting[i]].verdict \in Pending
      BY <1>3, <2>1 DEF Pending
    <2>3. CASE waiting' = waiting BY <2>1, <2>2, <2>3 DEF WaitingOnce
    <2>4. CASE waiting' = Append(waiting, c) /\ made.verdict \in Pending
      <3>1. /\ waiting' \in Seq(Charges)
            /\ DOMAIN waiting' = DOMAIN waiting \cup {Len(waiting) + 1}
            /\ waiting'[Len(waiting) + 1] = c
            /\ \A i \in DOMAIN waiting : waiting'[i] = waiting[i]
        BY <2>1, <2>4, Appended
      <3>2. QED BY <1>3, <2>1, <2>2, <2>4, <3>1 DEF WaitingOnce
    <2>5. QED BY <2>3, <2>4
  <1>8. CountersMatchHistory'
    <2>1. CountIn(Append(h, e), "charge") = CountIn(h, "charge") + 1
      BY <1>1, CountAppended
    <2>2. CountIn(Append(h, e), "refund") = CountIn(h, "refund")
      BY <1>1, CountAppended
    <2>3. \A m : Count(m) = CountIn(h, m) /\ Count(m)' = CountIn(Append(h, e), m)
      BY <1>4 DEF Count, CountIn, h
    <2>4. QED BY <1>1, <2>1, <2>2, <2>3 DEF GatewayInv, CountersMatchHistory
  <1>9. PendingHaveEntries'
    <2>1. ASSUME NEW d \in Charges, call'[d].verdict \in Pending, call'[d].epoch = epoch
          PROVE  \E k \in DOMAIN gateway'.history : gateway'.history[k].call = d
      <3>1. CASE d = c BY <1>2, <1>4, <3>1
      <3>2. CASE d # c
        <4>1. PICK k \in DOMAIN h : h[k].call = d
          BY <1>3, <2>1, <3>2 DEF GatewayInv, PendingHaveEntries, HasEntry, h
        <4>2. QED BY <1>2, <1>4, <4>1
      <3>3. QED BY <3>1, <3>2
    <2>2. QED BY <2>1 DEF PendingHaveEntries, HasEntry
  <1>10. ResultsFiled'
    <2>1. SUFFICES ASSUME NEW i \in DOMAIN gateway'.history, gateway'.history[i].result # NoValue
                   PROVE  LET x == gateway'.history[i]
                          IN  /\ call'[x.result].verdict # "idle"
                              /\ \/ x.result = x.call
                                 \/ call'[x.result].epoch < epoch
                                 \/ \E k \in 1..(i - 1) : gateway'.history[k].call = x.result
      BY DEF ResultsFiled
    <2>2. CASE i = n
      <3>1. gateway'.history[i] = e BY <1>2, <1>4, <2>2
      <3>2. e.result = c BY <2>1, <3>1
      <3>3. QED BY <1>3, <3>1, <3>2
    <2>3. CASE i \in DOMAIN h
      <3>1. gateway'.history[i] = h[i] /\ h[i] \in Entries BY <1>1, <1>2, <1>4, <2>3
      <3>2. h[i].result # NoValue /\ h[i].result \in Charges BY <2>1, <3>1 DEF Entries
      <3>3. /\ call[h[i].result].verdict # "idle"
            /\ \/ h[i].result = h[i].call
               \/ call[h[i].result].epoch < epoch
               \/ \E k \in 1..(i - 1) : h[k].call = h[i].result
        BY <2>3, <3>2 DEF GatewayInv, ResultsFiled, h
      <3>4. call'[h[i].result] = call[h[i].result] BY <1>3, <3>2, <3>3
      <3>5. \A k \in 1..(i - 1) : gateway'.history[k] = h[k] BY <1>2, <1>4, <1>5, <2>3
      <3>6. QED BY <3>1, <3>3, <3>4, <3>5
    <2>4. QED BY <1>2, <1>4, <2>2, <2>3
  <1>11. LostByReset' BY <1>3 DEF GatewayInv, LostByReset
  <1>12. \A d \in Charges : (call[d].id # NoValue /\ call[d].epoch = epoch) =>
            call[d].id[2] <= gateway.charges /\ call[d].id[2] \in Nat
    BY <1>1 DEF GatewayInv, IdsNumbered, CallsIn, Ids
  <1>13. IdsNumbered' BY <1>1, <1>3, <1>12 DEF IdsNumbered
  <1>14. PaymentIdsAreDistinct'
    <2>1. \A d \in Charges \ {c} :
             (call[d].id # NoValue /\ call[d].epoch = epoch) => call[d].id[2] < gateway.charges + 1
      BY <1>1, <1>12
    <2>2. \A d \in Charges \ {c} : (made.id # NoValue /\ made.id = call[d].id) => call[d].epoch # epoch
      BY <1>1, <2>1
    <2>3. QED BY <1>3, <2>2 DEF GatewayInv, PaymentIdsAreDistinct
  <1>15. QED
    BY <1>6, <1>7, <1>8, <1>9, <1>10, <1>11, <1>13, <1>14 DEF GatewayInv

ClockShape ==
    clock \in [ real : 0..MaxTime, offset : Int, frozenAt : (0..MaxTime) \cup {NoValue},
                installed : BOOLEAN ]

LEMMA TimeIsInt ==
    ASSUME ClockShape
    PROVE  virtualNow \in Int /\ DateNow \in Int
  BY TestKitAssumption DEF ClockShape, virtualNow, DateNow

LEMMA ChargeInv ==
    ASSUME GatewayInv, ClockShape, NEW c \in Charges, charge(c)
    PROVE  GatewayInv'
  <1> DEFINE h == gateway.history
             e == Entry("charge", c)
             g == Pushed(c)
             last == Len(g.history)
             begun == IF gateway.handler = "failNextN" THEN gateway.begun + 1 ELSE 0
  <1>1. /\ gateway \in Gateways /\ h \in Seq(Entries) /\ epoch \in Nat
        /\ gateway.remaining <= gateway.failing
        /\ gateway.charges \in Nat /\ gateway.begun \in Nat
        /\ gateway.remaining \in Nat /\ gateway.failing \in Nat
    BY DEF GatewayInv, GatewayShape, Gateways
  <1>2. e = [method |-> "charge", call |-> c, result |-> NoValue, error |-> FALSE] BY DEF Entry
  <1>3. e \in Entries BY DEF Entry, Entries
  <1>23. e.method = "charge" /\ e.call = c /\ e.result = NoValue BY <1>2
  <1>4. begun \in Nat BY <1>1
  <1>5. Append(h, e) \in Seq(Entries) BY <1>1, <1>3, Appended
  <1>6. g = [gateway EXCEPT !.history = Append(h, e), !.charges = gateway.charges + 1,
                            !.begun = begun]
    BY DEF Pushed
  <1> HIDE DEF begun, g
  <1>7. g \in Gateways BY <1>1, <1>4, <1>5, <1>6, gateway.charges + 1 \in Nat, EntryAdded
  <1>8. /\ g.history = Append(h, e) /\ g.charges = gateway.charges + 1 /\ g.begun = begun
        /\ g.refunds = gateway.refunds /\ g.spied = gateway.spied /\ g.spyCalls = gateway.spyCalls
        /\ g.remaining = gateway.remaining /\ g.failing = gateway.failing
        /\ g.handler = gateway.handler
    BY <1>1, <1>6 DEF Gateways
  <1>9. last = Len(h) + 1 BY <1>1, <1>3, <1>8
  <1>10. call[c].verdict = "idle" /\ UNCHANGED epoch BY DEF charge
  <1>11. ASSUME NEW verdict \in Verdicts, NEW id \in Ids
         PROVE  LET made == Record(verdict, id, g)
                IN  /\ made \in CallsIn(epoch) /\ made.verdict = verdict /\ made.id = id
                    /\ made.epoch = epoch
    BY <1>1, <1>4, <1>8 DEF Record, CallsIn
  <1>12. NoValue \in Ids BY DEF Ids
  <1>13. /\ defaultChargeResult(g) \in Ids
         /\ defaultChargeResult(g)[2] = gateway.charges + 1
    BY <1>1, <1>8, TimeIsInt DEF defaultChargeResult, Ids
  <1>14. \A f \in Gateways : f.remaining \in Nat /\ f.failing \in Nat BY DEF Gateways
  <1>15. ASSUME g.handler = "override", gateway' = g, waiting' = Append(waiting, c),
                NEW verdict \in {"resolves", "rejects"},
                call' = [call EXCEPT ![c] = Record(verdict, NoValue, g)]
         PROVE  GatewayInv'
    <2> DEFINE made == Record(verdict, NoValue, g)
    <2>1. /\ made \in CallsIn(epoch) /\ made.verdict = verdict /\ made.id = NoValue
          /\ made.epoch = epoch
      BY <1>11, <1>12, <1>15 DEF Verdicts
    <2>2. FailuresLeft' BY <1>15 DEF FailuresLeft
    <2>3. made.verdict \notin {"idle", "lost"} /\ made.verdict \in Pending
      BY <1>15, <2>1 DEF Pending
    <2>4. e.method = "charge" /\ e.call = c /\ e.result = NoValue BY <1>2
    <2>5. call' = [call EXCEPT ![c] = made] BY <1>15
    <2> HIDE DEF made, e
    <2>6. QED
      BY <1>1, <1>3, <1>7, <1>8, <1>10, <1>15, <2>1, <2>2, <2>3, <2>4, <2>5, ChargedInv
  <1>16. ASSUME g.handler = "failNextN", StillFails(g), gateway' = [g EXCEPT !.remaining = @ - 1],
                call' = [call EXCEPT ![c] = Record("failing", NoValue, g)],
                waiting' = Append(waiting, c)
         PROVE  GatewayInv'
    <2> DEFINE made == Record("failing", NoValue, g)
    <2>1. /\ made \in CallsIn(epoch) /\ made.verdict = "failing" /\ made.id = NoValue
          /\ made.epoch = epoch
      BY <1>11, <1>12 DEF Verdicts
    <2>2. gateway.remaining - 1 \in Nat BY <1>1, <1>8, <1>16 DEF StillFails
    <2>3. gateway' \in Gateways
      <3>1. gateway' = [g EXCEPT !.remaining = gateway.remaining - 1] BY <1>8, <1>16
      <3>2. QED BY <1>7, <2>2, <3>1 DEF Gateways
    <2>4. /\ gateway'.history = g.history /\ gateway'.charges = g.charges
          /\ gateway'.refunds = g.refunds /\ gateway'.spied = g.spied
          /\ gateway'.spyCalls = g.spyCalls /\ gateway'.remaining = gateway.remaining - 1
          /\ gateway'.failing = g.failing /\ gateway'.begun = g.begun
          /\ gateway'.handler = g.handler
      BY <1>7, <1>8, <1>16 DEF Gateways
    <2>5. gateway.begun + 1 <= gateway.failing /\ gateway.remaining = gateway.failing - gateway.begun
      BY <1>1, <1>8, <1>16, <2>2 DEF GatewayInv, FailuresLeft
    <2>6. begun = gateway.begun + 1 BY <1>8, <1>16 DEF begun
    <2>7. FailuresLeft' BY <1>1, <1>8, <2>4, <2>5, <2>6 DEF FailuresLeft
    <2>8. gateway'.remaining <= gateway'.failing BY <1>1, <1>8, <2>4
    <2>9. e.method = "charge" /\ e.call = c /\ e.result = NoValue BY <1>2
    <2>10. call' = [call EXCEPT ![c] = made] BY <1>16
    <2>11. made.verdict \notin {"idle", "lost"} /\ made.verdict \in Pending
      BY <2>1 DEF Pending
    <2>12. /\ gateway'.history = Append(gateway.history, e)
           /\ gateway'.charges = gateway.charges + 1 /\ gateway'.refunds = gateway.refunds
           /\ gateway'.spied = gateway.spied /\ gateway'.spyCalls = gateway.spyCalls
      BY <1>8, <2>4
    <2>13. waiting' = Append(waiting, c) BY <1>16
    <2> HIDE DEF made, e
    <2>14. QED
      BY <1>3, <1>10, <2>1, <2>3, <2>7, <2>8, <2>9, <2>10, <2>11, <2>12, <2>13, ChargedInv
  <1>17. ASSUME g.handler = "failNextN", ~StillFails(g), gateway' = g,
                call' = [call EXCEPT ![c] = Record("succeeding", defaultChargeResult(g), g)],
                waiting' = Append(waiting, c)
         PROVE  GatewayInv'
    <2> DEFINE id == defaultChargeResult(g)
               made == Record("succeeding", id, g)
    <2> HIDE DEF id
    <2>1. /\ made \in CallsIn(epoch) /\ made.verdict = "succeeding" /\ made.id = id
          /\ made.epoch = epoch
      BY <1>11, <1>13 DEF Verdicts, id
    <2>2. gateway.remaining = 0 BY <1>1, <1>8, <1>17 DEF StillFails
    <2>3. begun = gateway.begun + 1 BY <1>8, <1>17 DEF begun
    <2>4. ~(gateway.begun + 1 <= gateway.failing)
      BY <1>1, <1>8, <1>17, <2>2 DEF GatewayInv, FailuresLeft
    <2>5. FailuresLeft' BY <1>1, <1>8, <1>17, <2>2, <2>3, <2>4 DEF FailuresLeft
    <2>6. e.method = "charge" /\ e.call = c /\ e.result = NoValue BY <1>2
    <2>7. call' = [call EXCEPT ![c] = made] BY <1>17 DEF id
    <2>8. made.verdict \notin {"idle", "lost"} /\ made.verdict \in Pending
      BY <2>1 DEF Pending
    <2>9. made.id[2] = gateway.charges + 1 BY <1>13, <2>1 DEF id
    <2> HIDE DEF made, e
    <2>10. QED
      BY <1>1, <1>3, <1>7, <1>8, <1>10, <1>17, <2>1, <2>5, <2>6, <2>7, <2>8, <2>9, ChargedInv
  <1>18. ASSUME g.handler = "none", UNCHANGED waiting, NEW x \in Entries,
                x.method = "charge", x.call = c, x.result \in {NoValue, c},
                gateway' \in Gateways, gateway'.history = Append(h, x),
                gateway'.charges = g.charges, gateway'.refunds = g.refunds,
                gateway'.spied = g.spied, gateway'.spyCalls = g.spyCalls,
                gateway'.remaining = g.remaining, gateway'.failing = g.failing,
                gateway'.handler = g.handler,
                NEW verdict \in {"ok", "error"}, NEW id \in {NoValue, defaultChargeResult(g)},
                call' = [call EXCEPT ![c] = Record(verdict, id, g)]
         PROVE  GatewayInv'
    <2> DEFINE made == Record(verdict, id, g)
    <2>1. id \in Ids /\ (id # NoValue => id[2] = gateway.charges + 1) BY <1>12, <1>13, <1>18
    <2>2. /\ made \in CallsIn(epoch) /\ made.verdict = verdict /\ made.id = id
          /\ made.epoch = epoch
      BY <1>11, <1>18, <2>1 DEF Verdicts
    <2>3. FailuresLeft' BY <1>18 DEF FailuresLeft
    <2>4. made.verdict \notin {"idle", "lost"} /\ made.verdict \notin Pending
      BY <1>18, <2>2 DEF Pending
    <2>5. call' = [call EXCEPT ![c] = made] BY <1>18
    <2>6. /\ gateway'.history = Append(gateway.history, x) /\ gateway' \in Gateways
          /\ gateway'.charges = gateway.charges + 1 /\ gateway'.refunds = gateway.refunds
          /\ gateway'.spied = gateway.spied /\ gateway'.spyCalls = gateway.spyCalls
          /\ gateway'.remaining <= gateway'.failing
      BY <1>1, <1>8, <1>18
    <2>7. UNCHANGED waiting BY <1>18
    <2>8. x.method = "charge" /\ x.call = c /\ x.result \in {NoValue, c} BY <1>18
    <2>9. made.id # NoValue => made.id[2] = gateway.charges + 1 BY <2>1, <2>2
    <2> HIDE DEF made
    <2>10. QED
      BY <1>10, <2>2, <2>3, <2>4, <2>5, <2>6, <2>7, <2>8, <2>9, ChargedInv
  <1>19. \/ \E verdict \in {"resolves", "rejects"} :
               /\ g.handler = "override" /\ gateway' = g /\ waiting' = Append(waiting, c)
               /\ call' = [call EXCEPT ![c] = Record(verdict, NoValue, g)]
         \/ /\ g.handler = "failNextN" /\ StillFails(g)
            /\ gateway' = [g EXCEPT !.remaining = @ - 1]
            /\ call' = [call EXCEPT ![c] = Record("failing", NoValue, g)]
            /\ waiting' = Append(waiting, c)
         \/ /\ g.handler = "failNextN" /\ ~StillFails(g) /\ gateway' = g
            /\ call' = [call EXCEPT ![c] = Record("succeeding", defaultChargeResult(g), g)]
            /\ waiting' = Append(waiting, c)
         \/ /\ g.handler = "none" /\ UNCHANGED waiting
            /\ gateway' = [g EXCEPT !.nextError = FALSE, !.history[last].error = TRUE]
            /\ call' = [call EXCEPT ![c] = Record("error", NoValue, g)]
         \/ /\ g.handler = "none" /\ UNCHANGED waiting
            /\ gateway' = [g EXCEPT !.nextResult = FALSE, !.history[last].result = c]
            /\ \E id \in {NoValue, defaultChargeResult(g)} :
                  call' = [call EXCEPT ![c] = Record("ok", id, g)]
    BY DEF charge, g
  <1>20. ASSUME g.handler = "none", UNCHANGED waiting,
                gateway' = [g EXCEPT !.nextError = FALSE, !.history[last].error = TRUE],
                call' = [call EXCEPT ![c] = Record("error", NoValue, g)]
         PROVE  GatewayInv'
    <2> DEFINE x == [e EXCEPT !.error = TRUE]
    <2> HIDE DEF e
    <2>1. x \in Entries BY <1>3 DEF Entries
    <2>2. x \in Entries /\ x.method = "charge" /\ x.call = c /\ x.result = NoValue
      BY <1>3, <1>23, <2>1 DEF Entries
    <2>3. [g.history EXCEPT ![last] = [@ EXCEPT !.error = TRUE]] = Append(h, x)
      <3>1. g.history[last] = e BY <1>1, <1>3, <1>8, <1>9, Appended
      <3>2. [g.history EXCEPT ![last] = [@ EXCEPT !.error = TRUE]] = PutLast(h, e, x)
        BY <1>8, <1>9, <3>1 DEF PutLast
      <3> HIDE DEF x
      <3>3. PutLast(h, e, x) = Append(h, x)
        BY <1>1, <1>3, <2>2, ReplacedLast
      <3>4. QED BY <3>2, <3>3
    <2> HIDE DEF x
    <2>4. gateway' = [g EXCEPT !.nextError = FALSE, !.history = Append(h, x)]
      BY <1>20, <2>3
    <2>5. Append(h, x) \in Seq(Entries) BY <1>1, <2>2, Appended
    <2>6. gateway' \in Gateways BY <1>7, <2>4, <2>5 DEF Gateways
    <2>7. /\ gateway'.history = Append(h, x) /\ gateway'.charges = g.charges
          /\ gateway'.refunds = g.refunds /\ gateway'.spied = g.spied
          /\ gateway'.spyCalls = g.spyCalls /\ gateway'.remaining = g.remaining
          /\ gateway'.failing = g.failing /\ gateway'.handler = g.handler
      BY <1>7, <2>4 DEF Gateways
    <2>8. QED BY <1>18, <1>20, <2>2, <2>6, <2>7
  <1>21. ASSUME g.handler = "none", UNCHANGED waiting,
                gateway' = [g EXCEPT !.nextResult = FALSE, !.history[last].result = c],
                NEW id \in {NoValue, defaultChargeResult(g)},
                call' = [call EXCEPT ![c] = Record("ok", id, g)]
         PROVE  GatewayInv'
    <2> DEFINE x == [e EXCEPT !.result = c]
    <2> HIDE DEF e
    <2>1. x \in Entries BY <1>3 DEF Entries
    <2>2. x \in Entries /\ x.method = "charge" /\ x.call = c /\ x.result = c
      BY <1>3, <1>23, <2>1 DEF Entries
    <2>3. [g.history EXCEPT ![last] = [@ EXCEPT !.result = c]] = Append(h, x)
      <3>1. g.history[last] = e BY <1>1, <1>3, <1>8, <1>9, Appended
      <3>2. [g.history EXCEPT ![last] = [@ EXCEPT !.result = c]] = PutLast(h, e, x)
        BY <1>8, <1>9, <3>1 DEF PutLast
      <3> HIDE DEF x
      <3>3. PutLast(h, e, x) = Append(h, x)
        BY <1>1, <1>3, <2>2, ReplacedLast
      <3>4. QED BY <3>2, <3>3
    <2> HIDE DEF x
    <2>4. gateway' = [g EXCEPT !.nextResult = FALSE, !.history = Append(h, x)]
      BY <1>21, <2>3
    <2>5. Append(h, x) \in Seq(Entries) BY <1>1, <2>2, Appended
    <2>6. gateway' \in Gateways BY <1>7, <2>4, <2>5 DEF Gateways
    <2>7. /\ gateway'.history = Append(h, x) /\ gateway'.charges = g.charges
          /\ gateway'.refunds = g.refunds /\ gateway'.spied = g.spied
          /\ gateway'.spyCalls = g.spyCalls /\ gateway'.remaining = g.remaining
          /\ gateway'.failing = g.failing /\ gateway'.handler = g.handler
      BY <1>7, <2>4 DEF Gateways
    <2>8. QED BY <1>18, <1>21, <2>2, <2>6, <2>7
  <1>22. QED BY <1>15, <1>16, <1>17, <1>19, <1>20, <1>21

LEMMA HistoryPut ==
    ASSUME NEW g \in Gateways, NEW s \in Seq(Entries)
    PROVE  [g EXCEPT !.history = s] \in Gateways
  BY DEF Gateways

\* Two histories that differ at most in the last entry's result, which is that of c.
FiledLast(h, old, c) ==
    /\ Len(h) = Len(old)
    /\ \A k \in DOMAIN h : /\ h[k].method = old[k].method /\ h[k].call = old[k].call
                          /\ \/ h[k].result = old[k].result
                             \/ k = Len(h) /\ h[k].result = c

\* What the end of a handler comes to: a verdict, and perhaps a result at the last entry.
LEMMA SettledInv ==
    ASSUME GatewayInv, NEW i \in DOMAIN waiting,
           waiting' = RemoveAt(waiting, i), UNCHANGED epoch,
           NEW c \in Charges, c = waiting[i], NEW verdict \in {"ok", "error", "lost"},
           call' = [call EXCEPT ![c].verdict = verdict],
           verdict = "lost" => gateway.history = <<>>,
           NEW h \in Seq(Entries), gateway' = [gateway EXCEPT !.history = h],
           FiledLast(h, gateway.history, c)
    PROVE  GatewayInv'
  <1> DEFINE old == gateway.history
  <1>1. /\ gateway \in Gateways /\ old \in Seq(Entries) /\ epoch \in 0..MaxResets
        /\ call \in [Charges -> CallsIn(epoch)]
    BY DEF GatewayInv, GatewayShape, Gateways
  <1>19. /\ Len(h) = Len(old)
         /\ \A k \in DOMAIN h : /\ h[k].method = old[k].method /\ h[k].call = old[k].call
                               /\ \/ h[k].result = old[k].result
                                  \/ k = Len(h) /\ h[k].result = c
    BY DEF FiledLast
  <1>2. gateway' \in Gateways BY <1>1, HistoryPut
  <1>3. /\ gateway'.history = h /\ gateway'.charges = gateway.charges
        /\ gateway'.refunds = gateway.refunds /\ gateway'.spied = gateway.spied
        /\ gateway'.spyCalls = gateway.spyCalls /\ gateway'.remaining = gateway.remaining
        /\ gateway'.failing = gateway.failing /\ gateway'.begun = gateway.begun
        /\ gateway'.handler = gateway.handler
    BY <1>1 DEF Gateways
  <1>4. DOMAIN h = DOMAIN old /\ DOMAIN h = 1..Len(h) /\ Len(h) \in Nat BY <1>1, <1>19
  <1>5. call[c].verdict \in Pending BY DEF GatewayInv, WaitingOnce
  <1>6. /\ \A d \in Charges \ {c} : call'[d] = call[d]
        /\ call'[c].verdict = verdict /\ call'[c].id = call[c].id
        /\ call'[c].epoch = call[c].epoch
        /\ call' \in [Charges -> CallsIn(epoch)]
    <2>1. [call[c] EXCEPT !.verdict = verdict] \in CallsIn(epoch) BY <1>1 DEF CallsIn, Verdicts
    <2>2. call' = [call EXCEPT ![c] = [call[c] EXCEPT !.verdict = verdict]] BY <1>1
    <2>3. call[c] \in CallsIn(epoch) BY <1>1
    <2>4. QED BY <1>1, <2>1, <2>2, <2>3 DEF CallsIn
  <1>7. GatewayShape' BY <1>1, <1>2, <1>3, <1>6 DEF GatewayInv, GatewayShape
  <1>8. WaitingOnce'
    <2>1. waiting \in Seq(Charges) BY DEF GatewayInv, WaitingOnce
    <2>2. /\ waiting' \in Seq(Charges) /\ Len(waiting') = Len(waiting) - 1
          /\ \A k \in DOMAIN waiting' : k < i => waiting'[k] = waiting[k]
          /\ \A k \in DOMAIN waiting' : k >= i => waiting'[k] = waiting[k + 1]
      BY <2>1, RemovedAt
    <2>3. /\ i \in 1..Len(waiting) /\ Len(waiting) \in Nat
          /\ DOMAIN waiting = 1..Len(waiting) /\ DOMAIN waiting' = 1..(Len(waiting) - 1)
      BY <2>1, <2>2
    <2> DEFINE at(k) == IF k < i THEN k ELSE k + 1
    <2>4. \A k \in DOMAIN waiting' : /\ at(k) \in DOMAIN waiting /\ at(k) # i
                                     /\ waiting'[k] = waiting[at(k)]
      BY <2>2, <2>3
    <2>5. \A k, l \in DOMAIN waiting' : at(k) = at(l) => k = l BY <2>3
    <2> HIDE DEF at
    <2>6. \A k \in DOMAIN waiting' : waiting'[k] # c BY <2>4 DEF GatewayInv, WaitingOnce
    <2>7. \A k \in DOMAIN waiting' : call'[waiting'[k]].verdict \in Pending
      BY <1>6, <2>1, <2>2, <2>4, <2>6 DEF GatewayInv, WaitingOnce
    <2>8. \A k, l \in DOMAIN waiting' : waiting'[k] = waiting'[l] => k = l
      BY <2>4, <2>5 DEF GatewayInv, WaitingOnce
    <2>9. QED BY <2>2, <2>7, <2>8 DEF WaitingOnce
  <1>9. CountersMatchHistory'
    <2>1. \A m : {k \in DOMAIN h : h[k].method = m} = {k \in DOMAIN old : old[k].method = m}
      BY <1>4, <1>19
    <2>4. \A m : Count(m) = CountIn(old, m) /\ Count(m)' = CountIn(h, m)
      BY <1>3 DEF Count, CountIn
    <2>5. \A m : CountIn(h, m) = CountIn(old, m) BY <2>1 DEF CountIn
    <2>2. \A m : Count(m)' = Count(m) BY <2>4, <2>5
    <2>3. QED BY <1>3, <2>2 DEF GatewayInv, CountersMatchHistory
  <1>10. PendingHaveEntries'
    <2>1. \A d \in Charges : call'[d].verdict \in Pending => call'[d] = call[d]
      BY <1>6 DEF Pending
    <2>2. \A d : HasEntry(d)' <=> HasEntry(d) BY <1>3, <1>4, <1>19 DEF HasEntry
    <2>3. QED BY <2>1, <2>2 DEF GatewayInv, PendingHaveEntries
  <1>11. ResultsFiled'
    <2>1. SUFFICES ASSUME NEW k \in DOMAIN h, h[k].result # NoValue
                   PROVE  /\ call'[h[k].result].verdict # "idle"
                          /\ \/ h[k].result = h[k].call
                             \/ call'[h[k].result].epoch < epoch
                             \/ \E l \in 1..(k - 1) : h[l].call = h[k].result
      BY <1>3 DEF ResultsFiled
    <2>2. k \in 1..Len(h) /\ k \in DOMAIN old /\ h[k] \in Entries BY <1>4, <2>1
    <2>3. h[k].result \in Charges BY <2>1, <2>2 DEF Entries
    <2>4. \A d \in Charges : /\ call'[d].verdict # "idle" <=> call[d].verdict # "idle"
                             /\ call'[d].epoch = call[d].epoch
      BY <1>5, <1>6 DEF Pending
    <2>5. CASE h[k].result = old[k].result
      <3>1. /\ call[h[k].result].verdict # "idle"
            /\ \/ h[k].result = old[k].call
               \/ call[h[k].result].epoch < epoch
               \/ \E l \in 1..(k - 1) : old[l].call = h[k].result
        BY <2>1, <2>2, <2>5 DEF GatewayInv, ResultsFiled
      <3>2. \A l \in 1..(k - 1) : l \in DOMAIN h /\ h[l].call = old[l].call BY <1>4, <1>19, <2>2
      <3>3. h[k].call = old[k].call BY <1>19
      <3>4. QED BY <2>3, <2>4, <3>1, <3>2, <3>3
    <2>6. CASE k = Len(h) /\ h[k].result = c
      <3>1. call'[c].verdict # "idle" BY <1>6
      <3>2. CASE call[c].epoch = epoch
        <4>1. PICK l \in DOMAIN old : old[l].call = c
          BY <1>5, <3>2 DEF GatewayInv, PendingHaveEntries, HasEntry
        <4>2. h[l].call = c /\ l \in 1..Len(h) BY <1>4, <1>19, <4>1
        <4>3. l = k \/ l \in 1..(k - 1) BY <1>4, <2>6, <4>2
        <4>4. QED BY <2>6, <3>1, <4>2, <4>3
      <3>3. CASE call[c].epoch # epoch
        <4>1. call[c].epoch \in 0..epoch BY <1>1 DEF CallsIn
        <4>2. call[c].epoch < epoch BY <1>1, <3>3, <4>1
        <4>3. QED BY <1>6, <2>6, <3>1, <4>2
      <3>4. QED BY <3>2, <3>3
    <2>7. QED BY <1>19, <2>5, <2>6
  <1>12. LostByReset'
    <2>1. CASE verdict # "lost" BY <1>6, <2>1 DEF GatewayInv, LostByReset
    <2>2. CASE verdict = "lost"
      <3>1. ~HasEntry(c) BY <2>2 DEF HasEntry
      <3>2. call[c].epoch # epoch BY <1>5, <3>1 DEF GatewayInv, PendingHaveEntries
      <3>3. call[c].epoch \in 0..epoch BY <1>1 DEF CallsIn
      <3>4. call[c].epoch < epoch BY <1>1, <3>2, <3>3
      <3>5. QED BY <1>6, <3>4 DEF GatewayInv, LostByReset
    <2>3. QED BY <2>1, <2>2
  <1>13. \A d \in Charges : call'[d].id = call[d].id /\ call'[d].epoch = call[d].epoch BY <1>6
  <1>14. IdsNumbered' BY <1>3, <1>13 DEF GatewayInv, IdsNumbered
  <1>15. PaymentIdsAreDistinct' BY <1>13 DEF GatewayInv, PaymentIdsAreDistinct
  <1>16. FailuresLeft' BY <1>3 DEF GatewayInv, FailuresLeft
  <1>17. QED
    BY <1>7, <1>8, <1>9, <1>10, <1>11, <1>12, <1>14, <1>15, <1>16 DEF GatewayInv

LEMMA ResumeInv ==
    ASSUME GatewayInv, NEW i \in DOMAIN waiting, Resume(i)
    PROVE  GatewayInv'
  <1> DEFINE c == waiting[i]
             old == gateway.history
             n == Len(old)
  <1>1. /\ gateway \in Gateways /\ old \in Seq(Entries) /\ n \in Nat
        /\ call \in [Charges -> CallsIn(epoch)]
    BY DEF GatewayInv, GatewayShape, Gateways
  <1>2. c \in Charges BY DEF GatewayInv, WaitingOnce
  <1>3. waiting' = RemoveAt(waiting, i) /\ UNCHANGED epoch BY DEF Resume
  <1>4. gateway = [gateway EXCEPT !.history = old] BY <1>1 DEF Gateways
  <1>5. \/ \E verdict \in {"ok", "error", "lost"} :
             /\ call' = [call EXCEPT ![c].verdict = verdict]
             /\ UNCHANGED gateway /\ (verdict = "lost" => old = <<>>)
        \/ /\ call' = [call EXCEPT ![c].verdict = "ok"]
           /\ old # <<>>
           /\ gateway' = [gateway EXCEPT !.history[n].result = c]
    BY DEF Resume, ResultEntry
  <1> HIDE DEF c, n
  <1>6. ASSUME NEW verdict \in {"ok", "error", "lost"},
               call' = [call EXCEPT ![c].verdict = verdict], UNCHANGED gateway,
               verdict = "lost" => old = <<>>
        PROVE  GatewayInv'
    <2>1. gateway' = [gateway EXCEPT !.history = old] BY <1>4, <1>6
    <2>2. c = waiting[i] BY DEF c
    <2>3. FiledLast(old, old, c) BY DEF FiledLast
    <2>4. QED BY <1>1, <1>2, <1>3, <1>6, <2>1, <2>2, <2>3, SettledInv
  <1>7. ASSUME call' = [call EXCEPT ![c].verdict = "ok"], old # <<>>,
               gateway' = [gateway EXCEPT !.history[n].result = c]
        PROVE  GatewayInv'
    <2> DEFINE x == [old[n] EXCEPT !.result = c]
               h == [old EXCEPT ![n] = x]
    <2>1. n \in DOMAIN old BY <1>1, <1>7 DEF n
    <2>2. old[n] \in Entries BY <1>1, <2>1
    <2>3. x \in Entries /\ x.method = old[n].method /\ x.call = old[n].call /\ x.result = c
      BY <1>2, <2>2 DEF Entries
    <2>4. gateway' = [gateway EXCEPT !.history = h] BY <1>7
    <2> HIDE DEF x
    <2>5. /\ h \in Seq(Entries) /\ Len(h) = Len(old) /\ h[n] = x
          /\ \A k \in DOMAIN old \ {n} : h[k] = old[k]
      BY <1>1, <2>1, <2>3, Replaced
    <2>6. DOMAIN h = DOMAIN old OBVIOUS
    <2> HIDE DEF h
    <2>7. FiledLast(h, old, c) BY <2>3, <2>5, <2>6 DEF n, FiledLast
    <2>12. h \in Seq(Entries) BY <2>5
    <2>8. c = waiting[i] BY DEF c
    <2> DEFINE verdict == "ok"
    <2>9. verdict \in {"ok", "error", "lost"} /\ verdict # "lost" OBVIOUS
    <2>10. call' = [call EXCEPT ![c].verdict = verdict] BY <1>7
    <2> HIDE DEF verdict
    <2>11. QED BY <1>2, <1>3, <2>4, <2>7, <2>8, <2>9, <2>10, <2>12, SettledInv
  <1>8. QED BY <1>5, <1>6, <1>7

LEMMA ResetInv ==
    ASSUME GatewayInv, resetGateway
    PROVE  GatewayInv'
  <1>1. /\ epoch \in 0..MaxResets /\ call \in [Charges -> CallsIn(epoch)]
        /\ epoch < MaxResets /\ MaxResets \in Nat
        /\ gateway' = NewGateway /\ epoch' = epoch + 1 /\ UNCHANGED <<call, waiting>>
    BY TestKitAssumption DEF GatewayInv, GatewayShape, resetGateway
  <1>2. \A c \in Charges : call[c] \in CallsIn(epoch) /\ call[c].epoch \in 0..epoch
    BY <1>1 DEF CallsIn
  <1>3. \A c \in Charges : call'[c].epoch < epoch' BY <1>1, <1>2
  <1>4. /\ gateway'.history = <<>> /\ gateway'.charges = 0 /\ gateway'.refunds = 0
        /\ gateway'.spied = FALSE /\ gateway'.remaining = 0 /\ gateway'.failing = 0
        /\ gateway'.handler = "none"
    BY <1>1 DEF NewGateway
  <1>5. GatewayShape'
    <2>1. gateway' \in Gateways BY <1>1 DEF NewGateway, Gateways
    <2>2. \A c \in Charges : call[c] \in CallsIn(epoch + 1)
      <3>1. 0..epoch \subseteq 0..(epoch + 1) BY <1>1
      <3>2. QED BY <1>2, <3>1 DEF CallsIn
    <2>3. call' \in [Charges -> CallsIn(epoch')] BY <1>1, <2>2
    <2>4. epoch' \in 0..MaxResets BY <1>1
    <2>5. QED BY <1>4, <2>1, <2>3, <2>4 DEF GatewayShape
  <1>6. WaitingOnce' BY <1>1 DEF GatewayInv, WaitingOnce
  <1>7. CountersMatchHistory'
    <2>1. \A m : {k \in DOMAIN gateway'.history : gateway'.history[k].method = m} = {}
      BY <1>4
    <2>2. \A m : Count(m)' = 0 BY <2>1, FS_EmptySet DEF Count
    <2>3. QED BY <1>4, <2>2 DEF CountersMatchHistory
  <1>8. PendingHaveEntries' BY <1>1, <1>3 DEF PendingHaveEntries
  <1>9. ResultsFiled' BY <1>4 DEF ResultsFiled
  <1>10. LostByReset' BY <1>3 DEF LostByReset
  <1>11. IdsNumbered' BY <1>1, <1>3 DEF IdsNumbered
  <1>12. PaymentIdsAreDistinct' BY <1>1 DEF GatewayInv, PaymentIdsAreDistinct
  <1>13. FailuresLeft' BY <1>4 DEF FailuresLeft
  <1>14. QED
    BY <1>5, <1>6, <1>7, <1>8, <1>9, <1>10, <1>11, <1>12, <1>13 DEF GatewayInv

LEMMA GatewayStepInv ==
    ASSUME GatewayInv, ClockShape, GatewayStep
    PROVE  GatewayInv'
  <1>1. CASE SettingUp BY <1>1, SettingUpInv
  <1>2. CASE refund BY <1>2, RefundInv
  <1>3. CASE resetGateway BY <1>3, ResetInv
  <1>4. CASE \E c \in Charges : charge(c) BY <1>4, ChargeInv
  <1>5. CASE \E i \in DOMAIN waiting : Resume(i) BY <1>5, ResumeInv
  <1>6. QED BY <1>1, <1>2, <1>3, <1>4, <1>5 DEF GatewayStep, SettingUp

\* What the gateway promises of its results follows from where they stand.
LEMMA GatewayPromises ==
    ASSUME GatewayInv
    PROVE  ResultsMisfiledOnlyByOverlap
  BY DEF GatewayInv, ResultsFiled, LostByReset, ResultsMisfiledOnlyByOverlap

-----------------------------------------------------------------------------
(* The switches of mockPayments *)

Failures == [step : {"charge", "license"}, number : Nat]

\* The failures that are left are in the order of failOn, and after those given to the
\* same step.
Ordered(left, out) ==
    /\ \A i \in DOMAIN left : left[i].number < Len(out) + Len(left)
    /\ \A i \in DOMAIN out : out[i].number < Len(out) + Len(left)
    /\ \A i, k \in DOMAIN left : i < k => left[i].number < left[k].number
    /\ \A i \in DOMAIN out, k \in DOMAIN left :
         out[i].step = left[k].step => out[i].number < left[k].number
    /\ \A i, k \in DOMAIN out :
         (i < k /\ out[i].step = out[k].step) => out[i].number < out[k].number

SwitchShape ==
    /\ payments \in [nextFailure : BOOLEAN, nextSuccess : BOOLEAN, stepFailures : Seq(Failures)]
    /\ given \in Seq(Failures)

SwitchInv == SwitchShape /\ Ordered(payments.stepFailures, given)

LEMMA ElementsOf ==
    ASSUME NEW S, NEW s \in Seq(S)
    PROVE  \A i \in DOMAIN s : s[i] \in S
  OBVIOUS

LEMMA FailureQueued ==
    ASSUME NEW left \in Seq(Failures), NEW out \in Seq(Failures), Ordered(left, out),
           NEW x \in Failures, x.number = Len(out) + Len(left)
    PROVE  Append(left, x) \in Seq(Failures) /\ Ordered(Append(left, x), out)
  <1> DEFINE n == Len(left) + 1
             new == Append(left, x)
  <1>1. /\ new \in Seq(Failures) /\ Len(new) = n
        /\ DOMAIN new = DOMAIN left \cup {n}
        /\ new[n] = x /\ \A i \in DOMAIN left : new[i] = left[i]
    BY Appended
  <1>2. Len(left) \in Nat /\ Len(out) \in Nat /\ DOMAIN left = 1..Len(left) OBVIOUS
  <1>9. (\A i \in DOMAIN left : left[i] \in Failures) /\ (\A i \in DOMAIN out : out[i] \in Failures)
    BY ElementsOf
  <1>3. /\ \A i \in DOMAIN left : left[i] \in Failures /\ left[i].number \in Nat
        /\ \A i \in DOMAIN out : out[i] \in Failures /\ out[i].number \in Nat
    BY <1>9 DEF Failures
  <1> HIDE DEF new
  <1>4. \A i \in DOMAIN new : new[i].number < Len(out) + Len(new)
    BY <1>1, <1>2, <1>3 DEF Ordered
  <1>5. \A i \in DOMAIN out : out[i].number < Len(out) + Len(new)
    BY <1>1, <1>2, <1>3 DEF Ordered
  <1>6. \A i, k \in DOMAIN new : i < k => new[i].number < new[k].number
    <2>1. TAKE i, k \in DOMAIN new
    <2>2. CASE i \in DOMAIN left /\ k \in DOMAIN left BY <1>1, <2>2 DEF Ordered
    <2>3. CASE i \in DOMAIN left /\ k = n BY <1>1, <2>3 DEF Ordered
    <2>4. CASE i = n BY <1>1, <1>2, <2>4
    <2>5. QED BY <1>1, <2>1, <2>2, <2>3, <2>4
  <1>7. \A i \in DOMAIN out, k \in DOMAIN new :
           out[i].step = new[k].step => out[i].number < new[k].number
    <2>1. TAKE i \in DOMAIN out, k \in DOMAIN new
    <2>2. CASE k \in DOMAIN left BY <1>1, <2>2 DEF Ordered
    <2>3. CASE k = n BY <1>1, <2>3 DEF Ordered
    <2>4. QED BY <1>1, <2>1, <2>2, <2>3
  <1>8. QED BY <1>1, <1>4, <1>5, <1>6, <1>7 DEF Ordered, new

LEMMA FailureGiven ==
    ASSUME NEW left \in Seq(Failures), NEW out \in Seq(Failures), Ordered(left, out),
           NEW i \in DOMAIN left,
           \A k \in DOMAIN left : left[k].step = left[i].step => i <= k
    PROVE  /\ RemoveAt(left, i) \in Seq(Failures) /\ Append(out, left[i]) \in Seq(Failures)
           /\ Ordered(RemoveAt(left, i), Append(out, left[i]))
  <1> DEFINE rest == RemoveAt(left, i)
             x == left[i]
             n == Len(out) + 1
             new == Append(out, x)
             at(k) == IF k < i THEN k ELSE k + 1
  <1>1. /\ rest \in Seq(Failures) /\ Len(rest) = Len(left) - 1
        /\ \A k \in DOMAIN rest : k < i => rest[k] = left[k]
        /\ \A k \in DOMAIN rest : k >= i => rest[k] = left[k + 1]
    BY RemovedAt
  <1>2. /\ Len(left) \in Nat /\ Len(out) \in Nat /\ DOMAIN left = 1..Len(left)
        /\ DOMAIN out = 1..Len(out) /\ i \in 1..Len(left)
    OBVIOUS
  <1>17. (\A k \in DOMAIN left : left[k] \in Failures) /\ (\A k \in DOMAIN out : out[k] \in Failures)
    BY ElementsOf
  <1>3. /\ \A k \in DOMAIN left : left[k] \in Failures /\ left[k].number \in Nat
        /\ \A k \in DOMAIN out : out[k] \in Failures /\ out[k].number \in Nat
    BY <1>17 DEF Failures
  <1>4. x \in Failures BY <1>3
  <1>5. /\ new \in Seq(Failures) /\ Len(new) = n
        /\ DOMAIN new = DOMAIN out \cup {n} /\ n \notin DOMAIN out
        /\ new[n] = x /\ \A k \in DOMAIN out : new[k] = out[k]
    BY <1>4, Appended
  <1> HIDE DEF rest, new
  <1>6. DOMAIN rest = 1..(Len(left) - 1) BY <1>1, <1>2
  <1>7. \A k \in DOMAIN rest : at(k) \in DOMAIN left /\ at(k) # i /\ rest[k] = left[at(k)]
    BY <1>1, <1>2, <1>6
  <1>8. \A k, l \in DOMAIN rest : k < l => at(k) < at(l) BY <1>2, <1>6
  <1> HIDE DEF at
  <1>9. \A k \in DOMAIN rest : rest[k].step = x.step => x.number < rest[k].number
    <2>1. TAKE k \in DOMAIN rest
    <2>2. HAVE rest[k].step = x.step
    <2>3. at(k) \in DOMAIN left /\ at(k) # i /\ rest[k] = left[at(k)] BY <1>7, <2>1
    <2>4. i < at(k) BY <1>2, <2>2, <2>3
    <2>5. QED BY <2>3, <2>4 DEF Ordered
  <1>10. Len(new) + Len(rest) = Len(out) + Len(left) BY <1>1, <1>2, <1>5
  <1>11. \A k \in DOMAIN rest : rest[k].number < Len(new) + Len(rest)
    BY <1>7, <1>10 DEF Ordered
  <1>12. \A k \in DOMAIN new : new[k].number < Len(new) + Len(rest)
    BY <1>5, <1>10 DEF Ordered
  <1>13. \A k, l \in DOMAIN rest : k < l => rest[k].number < rest[l].number
    BY <1>7, <1>8 DEF Ordered
  <1>14. \A k \in DOMAIN new, l \in DOMAIN rest :
            new[k].step = rest[l].step => new[k].number < rest[l].number
    <2>1. TAKE k \in DOMAIN new, l \in DOMAIN rest
    <2>2. CASE k \in DOMAIN out BY <1>5, <1>7, <2>2 DEF Ordered
    <2>3. CASE k = n BY <1>5, <1>9, <2>3
    <2>4. QED BY <1>5, <2>1, <2>2, <2>3
  <1>15. \A k, l \in DOMAIN new :
            (k < l /\ new[k].step = new[l].step) => new[k].number < new[l].number
    <2>1. TAKE k, l \in DOMAIN new
    <2>2. CASE k \in DOMAIN out /\ l \in DOMAIN out BY <1>5, <2>2 DEF Ordered
    <2>3. CASE k \in DOMAIN out /\ l = n BY <1>5, <2>3 DEF Ordered
    <2>4. CASE k = n BY <1>2, <1>5, <2>4
    <2>5. QED BY <1>5, <2>1, <2>2, <2>3, <2>4
  <1>16. QED BY <1>1, <1>5, <1>11, <1>12, <1>13, <1>14, <1>15 DEF Ordered, rest, new

LEMMA PaymentStepInv ==
    ASSUME SwitchInv, PaymentStep
    PROVE  SwitchInv'
  <1> DEFINE left == payments.stepFailures
             Switches == [ nextFailure : BOOLEAN, nextSuccess : BOOLEAN,
                           stepFailures : Seq(Failures) ]
  <1>1. payments \in Switches /\ given \in Seq(Failures) /\ left \in Seq(Failures)
        /\ Ordered(left, given)
    BY DEF SwitchInv, SwitchShape
  <1>2. ASSUME NEW f \in Seq(Failures)
        PROVE  LET p == [payments EXCEPT !.stepFailures = f]
               IN  p \in Switches /\ p.stepFailures = f
    BY <1>1
  <1>3. CASE mockFailNext \/ mockSucceedNext \/ consumeFailure \/ consumeSuccess
    <2>1. payments' \in Switches /\ payments'.stepFailures = left /\ UNCHANGED given
      BY <1>1, <1>3 DEF mockFailNext, mockSucceedNext, consumeFailure, consumeSuccess
    <2>2. QED BY <1>1, <2>1 DEF SwitchInv, SwitchShape
  <1>4. ASSUME NEW step \in {"charge", "license"}, failOn(step) PROVE SwitchInv'
    <2> DEFINE x == [step |-> step, number |-> Len(given) + Len(left)]
    <2>1. x \in Failures /\ x.number = Len(given) + Len(left) BY <1>1 DEF Failures
    <2>2. payments' = [payments EXCEPT !.stepFailures = Append(left, x)] /\ UNCHANGED given
      BY <1>4 DEF failOn
    <2> HIDE DEF x
    <2>3. Append(left, x) \in Seq(Failures) /\ Ordered(Append(left, x), given)
      BY <1>1, <2>1, FailureQueued
    <2>4. payments' \in Switches /\ payments'.stepFailures = Append(left, x)
      BY <1>2, <2>2, <2>3
    <2>5. QED BY <1>1, <2>2, <2>3, <2>4 DEF SwitchInv, SwitchShape
  <1>5. ASSUME NEW step \in {"charge", "license"}, getStepFailure(step) PROVE SwitchInv'
    <2> DEFINE of == {k \in DOMAIN left : left[k].step = step}
               i == FailureIndex(step)
    <2>1. DOMAIN left \subseteq Nat /\ 0 \notin DOMAIN left BY <1>1
    <2>2. of # {} /\ i = Min(of) BY <1>5 DEF getStepFailure, FailureIndex
    <2>3. of \subseteq Nat BY <2>1
    <2> HIDE DEF of
    <2>4. Min(of) \in of /\ \A k \in of : Min(of) <= k BY <2>2, <2>3, MinIsIn
    <2> USE DEF of
    <2>5. i \in DOMAIN left /\ \A k \in DOMAIN left : left[k].step = left[i].step => i <= k
      BY <2>2, <2>4
    <2>6. /\ payments' = [payments EXCEPT !.stepFailures = RemoveAt(left, i)]
          /\ given' = Append(given, left[i])
      BY <1>5 DEF getStepFailure
    <2> HIDE DEF i, of
    <2>7. /\ RemoveAt(left, i) \in Seq(Failures) /\ Append(given, left[i]) \in Seq(Failures)
          /\ Ordered(RemoveAt(left, i), Append(given, left[i]))
      BY <1>1, <2>5, FailureGiven
    <2>8. payments' \in Switches /\ payments'.stepFailures = RemoveAt(left, i)
      BY <1>2, <2>6, <2>7
    <2>9. QED BY <2>6, <2>7, <2>8 DEF SwitchInv, SwitchShape
  <1>6. QED BY <1>3, <1>4, <1>5 DEF PaymentStep

LEMMA NoSwitchesInv ==
    ASSUME payments = NoSwitches, given = <<>>
    PROVE  SwitchInv
  BY DEF NoSwitches, SwitchInv, SwitchShape, Ordered

-----------------------------------------------------------------------------
(* The clock *)

\* A duration with a unit that the kit knows.
LEMMA DurationIsNat ==
    ASSUME NEW d \in Durations, parseDuration(d) # Failure
    PROVE  parseDuration(d) \in Nat
  <1>1. d[1] \in {0, 1, 2} BY DEF Durations
  <1>2. d[2] \in DOMAIN Units /\ parseDuration(d) = d[1] * Units[d[2]] BY DEF parseDuration
  <1> DEFINE n == d[1]
             u == Units[d[2]]
  <1>3. u \in Nat BY <1>2, TestKitAssumption
  <1> HIDE DEF u
  <1>4. 0 * u = 0 /\ 1 * u = u /\ 2 * u = u + u BY <1>3
  <1>5. CASE d[1] = 0 BY <1>2, <1>3, <1>4, <1>5 DEF u
  <1>6. CASE d[1] = 1 BY <1>2, <1>3, <1>4, <1>6 DEF u
  <1>7. CASE d[1] = 2 BY <1>2, <1>3, <1>4, <1>7 DEF u
  <1>8. QED BY <1>1, <1>5, <1>6, <1>7

Readings == [ real : 0..MaxTime, offset : Int, frozenAt : (0..MaxTime) \cup {NoValue},
              installed : BOOLEAN ]

LEMMA ClockSet ==
    ASSUME NEW r \in Readings, NEW x \in Int, NEW t \in (0..MaxTime) \cup {NoValue}
    PROVE  /\ [r EXCEPT !.installed = TRUE] \in Readings
           /\ [r EXCEPT !.offset = x] \in Readings
           /\ [r EXCEPT !.frozenAt = t] \in Readings
           /\ [r EXCEPT !.frozenAt = t, !.offset = x] \in Readings
           /\ [r EXCEPT !.offset = x, !.frozenAt = t] \in Readings
           /\ [r EXCEPT !.installed = FALSE, !.offset = x, !.frozenAt = t] \in Readings
  <1>1. [r EXCEPT !.installed = TRUE] \in Readings BY DEF Readings
  <1>2. [r EXCEPT !.offset = x] \in Readings BY DEF Readings
  <1>3. [r EXCEPT !.frozenAt = t] \in Readings BY DEF Readings
  <1>4. [r EXCEPT !.frozenAt = t, !.offset = x] \in Readings BY DEF Readings
  <1>5. [r EXCEPT !.offset = x, !.frozenAt = t] \in Readings BY DEF Readings
  <1>6. [r EXCEPT !.installed = FALSE, !.offset = x, !.frozenAt = t] \in Readings BY DEF Readings
  <1>7. QED BY <1>1, <1>2, <1>3, <1>4, <1>5, <1>6

LEMMA ClockSteps ==
    ASSUME ClockStep
    PROVE  /\ \/ Tick \/ installVirtualClock \/ restoreRealClock
              \/ \E d \in Durations : advance(d)
              \/ \E d \in Durations : advanceFromFrozen(d)
              \/ \E t \in 0..MaxTime : freeze(t)
           /\ UNCHANGED <<part, gatewayVars, paymentVars, ledger>>
  <1>1. \A t \in 0..1 : t \in 0..MaxTime BY TestKitAssumption
  <1>2. \/ Tick \/ installVirtualClock \/ restoreRealClock
        \/ \E d \in Durations : advance(d)
        \/ \E d \in Durations : advanceFromFrozen(d)
        \/ \E t \in 0..MaxTime : freeze(t)
    BY <1>1 DEF ClockStep
  <1>3. QED
    BY <1>2 DEF Tick, installVirtualClock, restoreRealClock, advance, advanceFromFrozen, freeze,
                SetClock

LEMMA ClockStepInv ==
    ASSUME ClockShape, ClockStep
    PROVE  ClockShape'
  <1>1. clock \in Readings BY DEF ClockShape, Readings
  <1>2. /\ MaxTime \in Nat /\ clock.real \in 0..MaxTime /\ clock.offset \in Int
        /\ clock.frozenAt \in (0..MaxTime) \cup {NoValue}
    BY <1>1, TestKitAssumption DEF Readings
  <1>3. SUFFICES clock' \in Readings BY DEF ClockShape, Readings
  <1>4. CASE Tick
    <2>1. clock.real + 1 \in 0..MaxTime BY <1>2, <1>4 DEF Tick
    <2>2. clock' = [clock EXCEPT !.real = clock.real + 1] BY <1>4 DEF Tick, SetClock
    <2>3. QED BY <1>1, <2>1, <2>2 DEF Readings
  <1>5. CASE installVirtualClock BY <1>1, <1>2, <1>5, ClockSet DEF installVirtualClock, SetClock
  <1>6. CASE restoreRealClock
    <2>1. clock' = [clock EXCEPT !.installed = FALSE, !.offset = 0, !.frozenAt = NoValue]
      BY <1>6 DEF restoreRealClock, SetClock
    <2>2. 0 \in Int /\ NoValue \in (0..MaxTime) \cup {NoValue} OBVIOUS
    <2>3. QED BY <1>1, <2>1, <2>2, ClockSet
  <1>7. ASSUME NEW d \in Durations, advance(d) PROVE clock' \in Readings
    <2> DEFINE x == clock.offset + parseDuration(d)
    <2>1. parseDuration(d) \in Nat BY <1>7, DurationIsNat DEF advance
    <2>2. x \in Int BY <1>2, <2>1
    <2>3. clock' = [clock EXCEPT !.offset = x] BY <1>7 DEF advance, SetClock
    <2> HIDE DEF x
    <2>4. QED BY <1>1, <1>2, <2>2, <2>3, ClockSet
  <1>8. ASSUME NEW d \in Durations, advanceFromFrozen(d) PROVE clock' \in Readings
    <2> DEFINE t == clock.frozenAt + parseDuration(d)
    <2>1. parseDuration(d) \in Nat BY <1>8, DurationIsNat DEF advanceFromFrozen
    <2>2. clock.frozenAt \in 0..MaxTime BY <1>2, <1>8 DEF advanceFromFrozen
    <2>3. t <= MaxTime BY <1>8 DEF advanceFromFrozen
    <2>4. t \in (0..MaxTime) \cup {NoValue} BY <1>2, <2>1, <2>2, <2>3
    <2>5. clock' = [clock EXCEPT !.frozenAt = t] BY <1>8 DEF advanceFromFrozen, SetClock
    <2> HIDE DEF t
    <2>6. QED BY <1>1, <1>2, <2>4, <2>5, ClockSet
  <1>9. ASSUME NEW t \in 0..MaxTime, freeze(t) PROVE clock' \in Readings
    <2> DEFINE x == t - clock.real
    <2>1. x \in Int BY <1>2
    <2>2. clock' = [clock EXCEPT !.frozenAt = t, !.offset = x] BY <1>9 DEF freeze, SetClock
    <2> HIDE DEF x
    <2>3. t \in (0..MaxTime) \cup {NoValue} OBVIOUS
    <2>4. QED BY <1>1, <2>1, <2>2, <2>3, ClockSet
  <1>10. QED BY <1>4, <1>5, <1>6, <1>7, <1>8, <1>9, ClockSteps

-----------------------------------------------------------------------------
(* The test ledger *)

\* What f says of the entries that are kept at the places in P, up to the n-th.
Keeps(f, s, P, n) ==
    f = [k \in 0..n |-> IF k = 0 THEN <<>>
                        ELSE IF k \in P THEN Append(f[k - 1], s[k]) ELSE f[k - 1]]

LEMMA KeepsAt ==
    ASSUME NEW f, NEW s, NEW P, NEW n \in Nat, Keeps(f, s, P, n)
    PROVE  /\ f[0] = <<>>
           /\ \A k \in 1..n : f[k] = IF k \in P THEN Append(f[k - 1], s[k]) ELSE f[k - 1]
  <1>1. f = [k \in 0..n |-> IF k = 0 THEN <<>>
                            ELSE IF k \in P THEN Append(f[k - 1], s[k]) ELSE f[k - 1]]
    BY Zenon DEF Keeps
  <1> DEFINE F(k) == IF k = 0 THEN <<>>
                     ELSE IF k \in P THEN Append(f[k - 1], s[k]) ELSE f[k - 1]
  <1>2. \A k \in 0..n : f[k] = F(k)
    <2> DEFINE g == [k \in 0..n |-> F(k)]
    <2>1. f = g BY <1>1
    <2>2. \A k \in 0..n : g[k] = F(k) OBVIOUS
    <2> HIDE DEF g, F
    <2>3. QED BY <2>1, <2>2
  <1>3. 0 \in 0..n /\ \A k \in 1..n : k \in 0..n /\ k # 0 OBVIOUS
  <1>4. f[0] = F(0) BY <1>2, <1>3
  <1>5. \A k \in 1..n : f[k] = F(k)
    <2> HIDE DEF F
    <2>1. QED BY <1>2, <1>3
  <1>6. QED BY <1>3, <1>4, <1>5

LEMMA KeepsExists ==
    ASSUME NEW s, NEW P, NEW n \in Nat
    PROVE  \E f : Keeps(f, s, P, n)
  <1> DEFINE Q == {k \in Nat : \E f : Keeps(f, s, P, k)}
  <1>1. 0 \in Q
    <2> DEFINE f == [k \in 0..0 |-> <<>>]
    <2>1. f = [k \in 0..0 |-> IF k = 0 THEN <<>>
                              ELSE IF k \in P THEN Append(f[k - 1], s[k]) ELSE f[k - 1]]
      OBVIOUS
    <2> HIDE DEF f
    <2>2. Keeps(f, s, P, 0) BY <2>1, Zenon DEF Keeps
    <2>3. QED BY <2>2
  <1>2. ASSUME NEW k \in Nat, k \in Q PROVE k + 1 \in Q
    <2>1. PICK g : Keeps(g, s, P, k) BY <1>2
    <2> DEFINE G(j) == IF j = 0 THEN <<>>
                       ELSE IF j \in P THEN Append(g[j - 1], s[j]) ELSE g[j - 1]
               h == [j \in 0..(k + 1) |-> IF j = k + 1 THEN G(j) ELSE g[j]]
               H(j) == IF j = 0 THEN <<>>
                       ELSE IF j \in P THEN Append(h[j - 1], s[j]) ELSE h[j - 1]
    <2>2. /\ g[0] = <<>>
          /\ \A j \in 1..k : g[j] = IF j \in P THEN Append(g[j - 1], s[j]) ELSE g[j - 1]
      BY <2>1, KeepsAt
    <2>3. \A j \in 0..k : h[j] = g[j] OBVIOUS
    <2>4. h[k + 1] = G(k + 1) OBVIOUS
    <2>5. h = [j \in 0..(k + 1) |-> h[j]] OBVIOUS
    <2> HIDE DEF h
    <2>6. \A j \in 0..(k + 1) : h[j] = H(j)
      <3>1. TAKE j \in 0..(k + 1)
      <3>2. CASE j = 0 BY <2>2, <2>3, <3>2
      <3>3. CASE j \in 1..k
        <4>1. j - 1 \in 0..k /\ j \in 0..k BY <3>3
        <4>2. h[j] = g[j] /\ h[j - 1] = g[j - 1] BY <2>3, <4>1
        <4>3. QED BY <2>2, <3>3, <4>2
      <3>4. CASE j = k + 1
        <4>1. k \in 0..k /\ (k + 1) - 1 = k OBVIOUS
        <4>2. h[k] = g[k] BY <2>3, <4>1
        <4>3. QED BY <2>4, <3>4, <4>1, <4>2
      <3>5. QED BY <3>1, <3>2, <3>3, <3>4
    <2>7. h = [j \in 0..(k + 1) |-> H(j)]
      <3> HIDE DEF H
      <3>1. QED BY <2>5, <2>6
    <2>8. Keeps(h, s, P, k + 1) BY <2>7, Zenon DEF Keeps
    <2>9. QED BY <2>8
  <1> HIDE DEF Q
  <1>3. n \in Q BY <1>1, <1>2, EveryNumber
  <1>4. QED BY <1>3 DEF Q

\* What is kept of the first entries depends on them and on the places among them only.
LEMMA KeepsSame ==
    ASSUME NEW f, NEW s, NEW P, NEW n \in Nat, Keeps(f, s, P, n),
           NEW g, NEW t, NEW R, NEW l \in Nat, Keeps(g, t, R, l), n <= l,
           \A k \in 1..n : s[k] = t[k] /\ (k \in P <=> k \in R)
    PROVE  f[n] = g[n]
  <1> DEFINE Q == {k \in Nat : k <= n => f[k] = g[k]}
  <1>1. /\ f[0] = <<>>
        /\ \A k \in 1..n : f[k] = IF k \in P THEN Append(f[k - 1], s[k]) ELSE f[k - 1]
    BY KeepsAt
  <1>2. /\ g[0] = <<>>
        /\ \A k \in 1..l : g[k] = IF k \in R THEN Append(g[k - 1], t[k]) ELSE g[k - 1]
    BY KeepsAt
  <1>3. 0 \in Q BY <1>1, <1>2
  <1>4. ASSUME NEW k \in Nat, k \in Q PROVE k + 1 \in Q
    <2>1. SUFFICES ASSUME k + 1 <= n PROVE f[k + 1] = g[k + 1] OBVIOUS
    <2>2. k + 1 \in 1..n /\ k + 1 \in 1..l /\ (k + 1) - 1 = k /\ k <= n BY <2>1
    <2>3. f[k] = g[k] BY <1>4, <2>2
    <2>4. s[k + 1] = t[k + 1] /\ (k + 1 \in P <=> k + 1 \in R) BY <2>2
    <2>5. f[k + 1] = IF k + 1 \in P THEN Append(f[k], s[k + 1]) ELSE f[k] BY <1>1, <2>2
    <2>6. g[k + 1] = IF k + 1 \in R THEN Append(g[k], t[k + 1]) ELSE g[k] BY <1>2, <2>2
    <2>7. QED BY <2>3, <2>4, <2>5, <2>6
  <1> HIDE DEF Q
  <1>5. n \in Q BY <1>3, <1>4, EveryNumber
  <1>6. QED BY <1>5 DEF Q

LEMMA EntriesKept ==
    ASSUME NEW s, NEW P, Len(s) \in Nat
    PROVE  \E f : Keeps(f, s, P, Len(s)) /\ EntriesAt(s, P) = f[Len(s)]
  <1> DEFINE n == Len(s)
             whole == CHOOSE f : f = [k \in 0..n |->
                    IF k = 0 THEN <<>>
                    ELSE IF k \in P THEN Append(f[k - 1], s[k]) ELSE f[k - 1]]
             c == CHOOSE f : Keeps(f, s, P, n)
  <1>1. EntriesAt(s, P) = whole[n] BY Zenon DEF EntriesAt
  <1>2. whole = c BY Zenon DEF Keeps
  <1> HIDE DEF whole
  <1>3. \E g : Keeps(g, s, P, n) BY KeepsExists
  <1>4. Keeps(c, s, P, n) BY <1>3, Zenon
  <1>5. QED BY <1>1, <1>2, <1>4

\* What EntriesAt gives of no entries, and of one more.
LEMMA EntriesAtNone ==
    ASSUME NEW P
    PROVE  EntriesAt(<<>>, P) = <<>>
  <1> DEFINE s == <<>>
  <1>1. Len(s) = 0 OBVIOUS
  <1> HIDE DEF s
  <1>2. PICK f : Keeps(f, s, P, Len(s)) /\ EntriesAt(s, P) = f[Len(s)] BY <1>1, EntriesKept
  <1>3. f[0] = <<>> BY <1>1, <1>2, KeepsAt
  <1>4. EntriesAt(s, P) = <<>> BY <1>1, <1>2, <1>3
  <1>5. QED BY <1>4 DEF s

LEMMA EntriesAtAppended ==
    ASSUME NEW S, NEW s \in Seq(S), NEW e \in S, NEW P, NEW R,
           \A k \in DOMAIN s : k \in P <=> k \in R
    PROVE  EntriesAt(Append(s, e), P) =
             IF Len(s) + 1 \in P THEN Append(EntriesAt(s, R), e) ELSE EntriesAt(s, R)
  <1> DEFINE t == Append(s, e)
             n == Len(s)
  <1>1. /\ Len(t) = n + 1 /\ n \in Nat /\ DOMAIN s = 1..n /\ t[n + 1] = e
        /\ \A k \in 1..n : t[k] = s[k]
    OBVIOUS
  <1> HIDE DEF t, n
  <1>2. PICK f : Keeps(f, s, R, n) /\ EntriesAt(s, R) = f[n] BY <1>1, EntriesKept DEF n
  <1>3. PICK g : Keeps(g, t, P, Len(t)) /\ EntriesAt(t, P) = g[Len(t)] BY <1>1, EntriesKept
  <1>4. Keeps(g, t, P, n + 1) /\ EntriesAt(t, P) = g[n + 1] BY <1>1, <1>3
  <1>5. f[n] = g[n]
    <2>1. n + 1 \in Nat /\ n <= n + 1 BY <1>1
    <2>2. \A k \in 1..n : s[k] = t[k] /\ (k \in R <=> k \in P) BY <1>1
    <2>3. Keeps(f, s, R, n) BY <1>2
    <2>4. Keeps(g, t, P, n + 1) BY <1>4
    <2>5. QED BY <1>1, <2>1, <2>2, <2>3, <2>4, KeepsSame
  <1>6. n + 1 \in Nat /\ n + 1 \in 1..(n + 1) /\ (n + 1) - 1 = n BY <1>1
  <1>7. g[n + 1] = IF n + 1 \in P THEN Append(g[n], t[n + 1]) ELSE g[n]
    BY <1>4, <1>6, KeepsAt
  <1>8. EntriesAt(t, P) = IF n + 1 \in P THEN Append(EntriesAt(s, R), e) ELSE EntriesAt(s, R)
    BY <1>1, <1>2, <1>4, <1>5, <1>7
  <1>9. QED BY <1>8 DEF t, n

LEMMA FilterAppended ==
    ASSUME NEW S, NEW s \in Seq(S), NEW e \in S, NEW filter
    PROVE  filterEntries(Append(s, e), filter) =
             IF Matches(e, filter) THEN Append(filterEntries(s, filter), e)
             ELSE filterEntries(s, filter)
  <1> DEFINE t == Append(s, e)
             n == Len(s) + 1
             P == {i \in DOMAIN t : Matches(t[i], filter)}
             R == {i \in DOMAIN s : Matches(s[i], filter)}
  <1>1. /\ DOMAIN t = DOMAIN s \cup {n} /\ n \notin DOMAIN s
        /\ t[n] = e /\ \A i \in DOMAIN s : t[i] = s[i]
    BY Appended
  <1> HIDE DEF t, n
  <1>2. \A i \in DOMAIN s : i \in P <=> i \in R BY <1>1
  <1>3. n \in P <=> Matches(e, filter) BY <1>1
  <1>4. filterEntries(t, filter) = EntriesAt(t, P) BY DEF filterEntries
  <1>5. filterEntries(s, filter) = EntriesAt(s, R) BY DEF filterEntries
  <1> HIDE DEF P, R
  <1>6. EntriesAt(t, P) = IF n \in P THEN Append(EntriesAt(s, R), e) ELSE EntriesAt(s, R)
    BY <1>2, EntriesAtAppended DEF t, n
  <1>7. QED BY <1>3, <1>4, <1>5, <1>6 DEF t

LEMMA WindowAppended ==
    ASSUME NEW S, NEW s \in Seq(S), NEW e \in S, NEW start, NEW end
    PROVE  getEntriesInWindow(Append(s, e), start, end) =
             IF e.timestamp >= start /\ e.timestamp <= end
             THEN Append(getEntriesInWindow(s, start, end), e)
             ELSE getEntriesInWindow(s, start, end)
  <1> DEFINE In(x) == x.timestamp >= start /\ x.timestamp <= end
             t == Append(s, e)
             n == Len(s) + 1
             P == {i \in DOMAIN t : In(t[i])}
             R == {i \in DOMAIN s : In(s[i])}
  <1>1. /\ DOMAIN t = DOMAIN s \cup {n} /\ n \notin DOMAIN s
        /\ t[n] = e /\ \A i \in DOMAIN s : t[i] = s[i]
    BY Appended
  <1>2. getEntriesInWindow(t, start, end) = EntriesAt(t, P) BY DEF getEntriesInWindow
  <1>3. getEntriesInWindow(s, start, end) = EntriesAt(s, R) BY DEF getEntriesInWindow
  <1> HIDE DEF t, n, In
  <1>4. \A i \in DOMAIN s : i \in P <=> i \in R BY <1>1
  <1>5. n \in P <=> In(e) BY <1>1
  <1> HIDE DEF P, R
  <1>6. EntriesAt(t, P) = IF n \in P THEN Append(EntriesAt(s, R), e) ELSE EntriesAt(s, R)
    BY <1>4, EntriesAtAppended DEF t, n
  <1>7. getEntriesInWindow(t, start, end) =
          IF In(e) THEN Append(getEntriesInWindow(s, start, end), e)
          ELSE getEntriesInWindow(s, start, end)
    BY <1>2, <1>3, <1>5, <1>6
  <1>8. QED BY <1>7 DEF t, In

LedgerEntries == [tenantId : {"acme", "beta"}, timestamp : Int]

\* What the two ways to filter give: entries of the ledger, the same by both.
FilteredAlike(entries) ==
    /\ \A f : filterEntries(entries, f) \in Seq(LedgerEntries)
    /\ \A t \in {"acme", "beta"}, s \in 0..1 :
         /\ getEntriesInWindow(entries, s, s) \in Seq(LedgerEntries)
         /\ filterEntries(entries, [tenantId |-> t, timestamp |-> s]) =
              filterEntries(getEntriesInWindow(entries, s, s), [tenantId |-> t])

LEMMA NoneFiltered == FilteredAlike(<<>>)
  <1>1. \A f : filterEntries(<<>>, f) = <<>> BY EntriesAtNone DEF filterEntries
  <1>2. \A s, t : getEntriesInWindow(<<>>, s, t) = <<>> BY EntriesAtNone DEF getEntriesInWindow
  <1>3. <<>> \in Seq(LedgerEntries) OBVIOUS
  <1>4. QED BY <1>1, <1>2, <1>3 DEF FilteredAlike

LEMMA OneMoreFiltered ==
    ASSUME NEW entries \in Seq(LedgerEntries), FilteredAlike(entries), NEW e \in LedgerEntries
    PROVE  FilteredAlike(Append(entries, e))
  <1> DEFINE more == Append(entries, e)
  <1>1. \A f : filterEntries(more, f) =
                 IF Matches(e, f) THEN Append(filterEntries(entries, f), e)
                 ELSE filterEntries(entries, f)
    BY FilterAppended
  <1>2. \A s, t : getEntriesInWindow(more, s, t) =
                    IF e.timestamp >= s /\ e.timestamp <= t
                    THEN Append(getEntriesInWindow(entries, s, t), e)
                    ELSE getEntriesInWindow(entries, s, t)
    BY WindowAppended
  <1> HIDE DEF more
  <1>3. \A f : filterEntries(more, f) \in Seq(LedgerEntries)
    <2>1. TAKE f
    <2>2. filterEntries(entries, f) \in Seq(LedgerEntries) BY DEF FilteredAlike
    <2>3. Append(filterEntries(entries, f), e) \in Seq(LedgerEntries) BY <2>2, Appended
    <2>4. QED BY <1>1, <2>2, <2>3
  <1>4. ASSUME NEW t \in {"acme", "beta"}, NEW s \in 0..1
        PROVE  /\ getEntriesInWindow(more, s, s) \in Seq(LedgerEntries)
               /\ filterEntries(more, [tenantId |-> t, timestamp |-> s]) =
                    filterEntries(getEntriesInWindow(more, s, s), [tenantId |-> t])
    <2> DEFINE w == getEntriesInWindow(entries, s, s)
               both == [tenantId |-> t, timestamp |-> s]
               one == [tenantId |-> t]
    <2>1. w \in Seq(LedgerEntries) /\ filterEntries(entries, both) = filterEntries(w, one)
      BY DEF FilteredAlike
    <2>2. e.timestamp \in Int BY DEF LedgerEntries
    <2>3. getEntriesInWindow(more, s, s) = IF e.timestamp = s THEN Append(w, e) ELSE w
      BY <1>2, <2>2
    <2>4. Matches(e, both) <=> (e.timestamp = s /\ Matches(e, one))
      <3>1. DOMAIN both = {"tenantId", "timestamp"} /\ both["tenantId"] = t
            /\ both["timestamp"] = s
        OBVIOUS
      <3>2. DOMAIN one = {"tenantId"} /\ one["tenantId"] = t OBVIOUS
      <3> HIDE DEF both, one
      <3>3. Matches(e, both) <=> (e["tenantId"] = t /\ e["timestamp"] = s) BY <3>1 DEF Matches
      <3>4. Matches(e, one) <=> e["tenantId"] = t BY <3>2 DEF Matches
      <3>5. e.timestamp = e["timestamp"] OBVIOUS
      <3>6. QED BY <3>3, <3>4, <3>5
    <2> HIDE DEF w, both, one
    <2>5. Append(w, e) \in Seq(LedgerEntries) BY <2>1, Appended
    <2>6. filterEntries(Append(w, e), one) =
            IF Matches(e, one) THEN Append(filterEntries(w, one), e) ELSE filterEntries(w, one)
      BY <2>1, FilterAppended
    <2>7. filterEntries(more, both) =
            IF Matches(e, both) THEN Append(filterEntries(entries, both), e)
            ELSE filterEntries(entries, both)
      BY <1>1
    <2>8. getEntriesInWindow(more, s, s) \in Seq(LedgerEntries) BY <2>1, <2>3, <2>5
    <2>9. filterEntries(more, both) = filterEntries(getEntriesInWindow(more, s, s), one)
      <3>1. CASE e.timestamp = s BY <2>1, <2>3, <2>4, <2>6, <2>7, <3>1
      <3>2. CASE e.timestamp # s BY <2>1, <2>3, <2>4, <2>7, <3>2
      <3>3. QED BY <3>1, <3>2
    <2>10. QED BY <2>8, <2>9 DEF both, one
  <1>5. QED BY <1>3, <1>4 DEF FilteredAlike, more

\* An entry's time is not after this time.
NotAfter(entries, time) == \A i \in DOMAIN entries : entries[i].timestamp <= time

LedgerInv ==
    /\ ledger \in Seq(LedgerEntries)
    /\ FilteredAlike(ledger)
    /\ rewound \in BOOLEAN
    /\ ~rewound => NotAfter(ledger, DateNow) /\ assertLedgerChronological(ledger)

\* The clock goes forward, or it is set.
LEMMA ClockGoesForward ==
    ASSUME ClockShape, ClockStep
    PROVE  /\ DateNow' \in Int
           /\ \/ DateNow' >= DateNow
              \/ /\ rewound'
                 /\ \/ \E t \in 0..MaxTime : freeze(t)
                    \/ installVirtualClock \/ restoreRealClock
           /\ rewound => rewound'
           /\ rewound \in BOOLEAN => rewound' \in BOOLEAN
  <1>1. ClockShape' BY ClockStepInv
  <1>2. DateNow' \in Int
    <2>1. DateNow' = IF clock'.installed
                     THEN IF clock'.frozenAt # NoValue THEN clock'.frozenAt
                          ELSE clock'.real + clock'.offset
                     ELSE clock'.real
      BY DEF DateNow, virtualNow
    <2>2. /\ clock'.real \in Int /\ clock'.offset \in Int
          /\ clock'.frozenAt # NoValue => clock'.frozenAt \in Int
      BY <1>1 DEF ClockShape
    <2>3. QED BY <2>1, <2>2
  <1>3. clock \in Readings BY DEF ClockShape, Readings
  <1>4. DateNow = IF clock.installed
                  THEN IF clock.frozenAt # NoValue THEN clock.frozenAt
                       ELSE clock.real + clock.offset
                  ELSE clock.real
    BY DEF DateNow, virtualNow
  <1>5. DateNow' = IF clock'.installed
                   THEN IF clock'.frozenAt # NoValue THEN clock'.frozenAt
                        ELSE clock'.real + clock'.offset
                   ELSE clock'.real
    BY DEF DateNow, virtualNow
  <1>6. /\ clock.real \in Int /\ clock.offset \in Int
        /\ clock.frozenAt # NoValue => clock.frozenAt \in Int
    BY <1>3 DEF Readings
  <1>7. CASE Tick
    <2>1. clock' = [clock EXCEPT !.real = clock.real + 1] /\ rewound' = (rewound \/ FALSE)
      BY <1>7 DEF Tick, SetClock
    <2>2. /\ clock'.real = clock.real + 1 /\ clock'.offset = clock.offset
          /\ clock'.frozenAt = clock.frozenAt /\ (clock'.installed <=> clock.installed)
      BY <1>3, <2>1 DEF Readings
    <2>3. DateNow' >= DateNow BY <1>4, <1>5, <1>6, <2>2
    <2>4. rewound => rewound' BY <2>1
    <2>5. rewound \in BOOLEAN => rewound' \in BOOLEAN BY <2>1
    <2>6. QED BY <1>2, <2>3, <2>4, <2>5
  <1>8. ASSUME NEW d \in Durations, advance(d)
        PROVE  /\ DateNow' >= DateNow
               /\ rewound => rewound'
               /\ rewound \in BOOLEAN => rewound' \in BOOLEAN
    <2> DEFINE x == clock.offset + parseDuration(d)
    <2>1. parseDuration(d) \in Nat BY <1>8, DurationIsNat DEF advance
    <2>2. x \in Int /\ x >= clock.offset BY <1>6, <2>1
    <2>3. clock' = [clock EXCEPT !.offset = x] /\ rewound' = (rewound \/ FALSE)
      BY <1>8 DEF advance, SetClock
    <2> HIDE DEF x
    <2>4. /\ clock'.real = clock.real /\ clock'.offset = x
          /\ clock'.frozenAt = clock.frozenAt /\ (clock'.installed <=> clock.installed)
      BY <1>3, <2>3 DEF Readings
    <2>5. DateNow' >= DateNow BY <1>4, <1>5, <1>6, <2>2, <2>4
    <2>6. rewound => rewound' BY <2>3
    <2>7. rewound \in BOOLEAN => rewound' \in BOOLEAN BY <2>3
    <2>8. QED BY <2>5, <2>6, <2>7
  <1>9. ASSUME NEW d \in Durations, advanceFromFrozen(d)
        PROVE  /\ DateNow' >= DateNow
               /\ rewound => rewound'
               /\ rewound \in BOOLEAN => rewound' \in BOOLEAN
    <2> DEFINE t == clock.frozenAt + parseDuration(d)
    <2>1. parseDuration(d) \in Nat BY <1>9, DurationIsNat DEF advanceFromFrozen
    <2>2. clock.frozenAt # NoValue BY <1>9 DEF advanceFromFrozen
    <2>3. t \in Int /\ t >= clock.frozenAt BY <1>6, <2>1, <2>2
    <2>4. clock' = [clock EXCEPT !.frozenAt = t] /\ rewound' = (rewound \/ FALSE)
      BY <1>9 DEF advanceFromFrozen, SetClock
    <2>9. t # NoValue BY <2>3, TestKitAssumption
    <2> HIDE DEF t
    <2>5. /\ clock'.real = clock.real /\ clock'.frozenAt = t
          /\ (clock'.installed <=> clock.installed)
      BY <1>3, <2>4 DEF Readings
    <2>6. DateNow' >= DateNow BY <1>4, <1>5, <1>6, <2>2, <2>3, <2>5, <2>9
    <2>7. rewound => rewound' BY <2>4
    <2>10. rewound \in BOOLEAN => rewound' \in BOOLEAN BY <2>4
    <2>8. QED BY <2>6, <2>7, <2>10
  <1>10. CASE (\E t \in 0..MaxTime : freeze(t)) \/ installVirtualClock \/ restoreRealClock
    <2>1. rewound' = (rewound \/ TRUE)
      BY <1>10 DEF freeze, installVirtualClock, restoreRealClock, SetClock
    <2>2. rewound' = TRUE BY <2>1
    <2>3. QED BY <1>2, <1>10, <2>2
  <1>11. QED BY <1>2, <1>7, <1>8, <1>9, <1>10, ClockSteps

LEMMA EmptyLedgerInv ==
    ASSUME ledger = <<>>, rewound = FALSE
    PROVE  LedgerInv
  <1>1. ledger \in Seq(LedgerEntries) OBVIOUS
  <1>2. FilteredAlike(ledger) BY NoneFiltered
  <1>3. NotAfter(ledger, DateNow) BY DEF NotAfter
  <1>4. assertLedgerChronological(ledger) BY DEF assertLedgerChronological
  <1>5. QED BY <1>1, <1>2, <1>3, <1>4 DEF LedgerInv

LEMMA LedgerStepInv ==
    ASSUME LedgerInv, ClockShape, LedgerStep
    PROVE  LedgerInv'
  <1>1. PICK tenant \in {"acme", "beta"} :
          ledger' = Append(ledger, [tenantId |-> tenant, timestamp |-> DateNow])
    BY DEF LedgerStep, recordTestLedgerEntry
  <1>2. UNCHANGED <<clock, rewound>> BY DEF LedgerStep, clockVars
  <1>3. DateNow \in Int BY TimeIsInt
  <1>4. DateNow' = DateNow BY <1>2 DEF DateNow, virtualNow
  <1> DEFINE e == [tenantId |-> tenant, timestamp |-> DateNow]
             n == Len(ledger) + 1
  <1>5. e \in LedgerEntries /\ e.timestamp = DateNow BY <1>3 DEF LedgerEntries
  <1>6. ledger' = Append(ledger, e) BY <1>1
  <1> HIDE DEF e
  <1>7. ledger \in Seq(LedgerEntries) /\ FilteredAlike(ledger) BY DEF LedgerInv
  <1>8. /\ ledger' \in Seq(LedgerEntries)
        /\ DOMAIN ledger' = DOMAIN ledger \cup {n} /\ n \notin DOMAIN ledger
        /\ ledger'[n] = e /\ \A i \in DOMAIN ledger : ledger'[i] = ledger[i]
    BY <1>5, <1>6, <1>7, Appended DEF n
  <1>9. FilteredAlike(ledger)'
    <2>1. FilteredAlike(Append(ledger, e)) BY <1>5, <1>7, OneMoreFiltered
    <2>2. FilteredAlike(ledger') BY <1>6, <2>1
    <2>3. QED BY <2>2 DEF FilteredAlike, filterEntries, getEntriesInWindow, EntriesAt
  <1>10. ASSUME ~rewound'
         PROVE  NotAfter(ledger, DateNow)' /\ assertLedgerChronological(ledger)'
    <2>1. NotAfter(ledger, DateNow) /\ assertLedgerChronological(ledger)
      BY <1>2, <1>10 DEF LedgerInv
    <2>2. \A i \in DOMAIN ledger' : ledger'[i].timestamp <= DateNow
      BY <1>3, <1>5, <1>8, <2>1 DEF NotAfter
    <2>3. Len(ledger) \in Nat /\ DOMAIN ledger = 1..Len(ledger) /\ Len(ledger') = n
      BY <1>5, <1>6, <1>7
    <2>4. \A i \in 2..n : ledger'[i].timestamp >= ledger'[i - 1].timestamp
      <3>1. TAKE i \in 2..n
      <3>2. i - 1 \in DOMAIN ledger /\ ledger'[i - 1] = ledger[i - 1] BY <1>8, <2>3
      <3>6. ledger[i - 1] \in LedgerEntries BY <1>7, <3>2, ElementsOf
      <3>3. CASE i = n
        <4>1. ledger'[i] = e BY <1>8, <3>3
        <4>2. ledger[i - 1].timestamp <= DateNow BY <2>1, <3>2 DEF NotAfter
        <4>3. ledger[i - 1].timestamp \in Int BY <3>6 DEF LedgerEntries
        <4>4. QED BY <1>3, <1>5, <3>2, <4>1, <4>2, <4>3
      <3>4. CASE i # n
        <4>1. i \in DOMAIN ledger /\ i \in 2..Len(ledger) BY <2>3, <3>4
        <4>2. QED BY <1>8, <2>1, <3>2, <4>1 DEF assertLedgerChronological
      <3>5. QED BY <3>3, <3>4
    <2>5. NotAfter(ledger, DateNow)' BY <1>4, <2>2 DEF NotAfter
    <2>6. QED BY <2>3, <2>4, <2>5 DEF assertLedgerChronological
  <1>11. rewound' \in BOOLEAN BY <1>2 DEF LedgerInv
  <1>12. QED BY <1>8, <1>9, <1>10, <1>11 DEF LedgerInv

LEMMA LedgerLeftAlone ==
    ASSUME LedgerInv, UNCHANGED <<ledger, clock, rewound>>
    PROVE  LedgerInv'
  <1>1. DateNow' = DateNow BY DEF DateNow, virtualNow
  <1>2. FilteredAlike(ledger)' <=> FilteredAlike(ledger)
    BY DEF FilteredAlike, filterEntries, getEntriesInWindow, EntriesAt
  <1>3. NotAfter(ledger, DateNow)' <=> NotAfter(ledger, DateNow) BY <1>1 DEF NotAfter
  <1>4. assertLedgerChronological(ledger)' <=> assertLedgerChronological(ledger)
    BY DEF assertLedgerChronological
  <1>5. QED BY <1>2, <1>3, <1>4 DEF LedgerInv

LEMMA LedgerUnderClock ==
    ASSUME LedgerInv, ClockShape, ClockStep
    PROVE  LedgerInv'
  <1>1. UNCHANGED ledger BY ClockSteps
  <1>2. FilteredAlike(ledger)' <=> FilteredAlike(ledger)
    BY <1>1 DEF FilteredAlike, filterEntries, getEntriesInWindow, EntriesAt
  <1>3. assertLedgerChronological(ledger)' <=> assertLedgerChronological(ledger)
    BY <1>1 DEF assertLedgerChronological
  <1>4. DateNow \in Int /\ DateNow' \in Int BY TimeIsInt, ClockGoesForward
  <1>5. ASSUME ~rewound' PROVE NotAfter(ledger, DateNow)' /\ assertLedgerChronological(ledger)
    <2>1. DateNow' >= DateNow /\ ~rewound BY <1>5, ClockGoesForward
    <2>2. NotAfter(ledger, DateNow) /\ assertLedgerChronological(ledger) BY <2>1 DEF LedgerInv
    <2>3. ledger \in Seq(LedgerEntries) BY DEF LedgerInv
    <2>7. \A i \in DOMAIN ledger : ledger[i] \in LedgerEntries BY <2>3, ElementsOf
    <2>4. \A i \in DOMAIN ledger : ledger[i].timestamp \in Int BY <2>7 DEF LedgerEntries
    <2>5. \A i \in DOMAIN ledger : ledger[i].timestamp <= DateNow'
      BY <1>4, <2>1, <2>2, <2>4 DEF NotAfter
    <2>6. QED BY <1>1, <2>2, <2>5 DEF NotAfter
  <1>6. rewound' \in BOOLEAN BY ClockGoesForward DEF LedgerInv
  <1>7. QED BY <1>1, <1>2, <1>3, <1>5, <1>6 DEF LedgerInv

-----------------------------------------------------------------------------
(* The kit *)

KitInv == ClockShape /\ GatewayInv /\ SwitchInv /\ LedgerInv

LEMMA KitStarts ==
    ASSUME KitInit
    PROVE  KitInv
  <1>1. ClockShape BY TestKitAssumption DEF KitInit, NewClock, ClockShape
  <1>2. SwitchInv BY NoSwitchesInv DEF KitInit
  <1>3. /\ gateway = NewGateway /\ epoch = 0 /\ waiting = <<>>
        /\ \A c \in Charges : /\ call[c].verdict = "idle" /\ call[c].id = NoValue
                              /\ call[c].epoch = 0
    BY DEF KitInit
  <1>4. /\ gateway.history = <<>> /\ gateway.charges = 0 /\ gateway.refunds = 0
        /\ gateway.spied = FALSE /\ gateway.remaining = 0 /\ gateway.failing = 0
        /\ gateway.handler = "none"
    BY <1>3 DEF NewGateway
  <1>5. GatewayShape
    <2>1. gateway \in Gateways BY <1>3 DEF NewGateway, Gateways
    <2>2. call \in [Charges -> CallsIn(epoch)] BY <1>3 DEF KitInit, CallsIn, Verdicts, Ids
    <2>3. QED BY <1>3, <1>4, <2>1, <2>2, TestKitAssumption DEF GatewayShape
  <1>6. WaitingOnce BY <1>3 DEF WaitingOnce
  <1>7. CountersMatchHistory
    <2>1. \A m : {k \in DOMAIN gateway.history : gateway.history[k].method = m} = {} BY <1>4
    <2>2. \A m : Count(m) = 0 BY <2>1, FS_EmptySet DEF Count
    <2>3. QED BY <1>4, <2>2 DEF CountersMatchHistory
  <1>8. PendingHaveEntries BY <1>3 DEF PendingHaveEntries, Pending
  <1>9. ResultsFiled BY <1>4 DEF ResultsFiled
  <1>10. LostByReset BY <1>3 DEF LostByReset
  <1>11. IdsNumbered BY <1>3 DEF IdsNumbered
  <1>12. PaymentIdsAreDistinct BY <1>3 DEF PaymentIdsAreDistinct
  <1>13. FailuresLeft BY <1>4 DEF FailuresLeft
  <1>14. GatewayInv
    BY <1>5, <1>6, <1>7, <1>8, <1>9, <1>10, <1>11, <1>12, <1>13 DEF GatewayInv
  <1>15. LedgerInv BY EmptyLedgerInv DEF KitInit
  <1>16. QED BY <1>1, <1>2, <1>14, <1>15 DEF KitInv

LEMMA GatewayLeftAlone ==
    ASSUME GatewayInv, UNCHANGED gatewayVars
    PROVE  GatewayInv'
  BY DEF GatewayInv, gatewayVars, GatewayShape, WaitingOnce, CountersMatchHistory, Count,
         PendingHaveEntries, HasEntry, ResultsFiled, LostByReset, IdsNumbered,
         PaymentIdsAreDistinct, FailuresLeft

LEMMA ClockLeftAlone ==
    ASSUME ClockShape, UNCHANGED clockVars
    PROVE  ClockShape'
  BY DEF ClockShape, clockVars

LEMMA SwitchesLeftAlone ==
    ASSUME SwitchInv, UNCHANGED paymentVars
    PROVE  SwitchInv'
  BY DEF SwitchInv, SwitchShape, paymentVars

LEMMA KitStep ==
    ASSUME KitInv, [KitNext]_kitVars
    PROVE  KitInv'
  <1> USE DEF KitInv
  <1>1. CASE ClockStep
    <2>1. UNCHANGED <<gatewayVars, paymentVars>> BY <1>1, ClockSteps
    <2>2. QED BY <1>1, <2>1, ClockStepInv, GatewayLeftAlone, SwitchesLeftAlone, LedgerUnderClock
  <1>2. CASE GatewayStep
    <2>1. UNCHANGED <<clockVars, paymentVars, ledger>> BY <1>2 DEF GatewayStep
    <2>3. UNCHANGED <<ledger, clock, rewound>> BY <2>1 DEF clockVars
    <2>2. QED
      BY <1>2, <2>1, <2>3, GatewayStepInv, ClockLeftAlone, SwitchesLeftAlone, LedgerLeftAlone
  <1>3. CASE PaymentStep
    <2>1. UNCHANGED <<clockVars, gatewayVars, ledger>> BY <1>3 DEF PaymentStep
    <2>3. UNCHANGED <<ledger, clock, rewound>> BY <2>1 DEF clockVars
    <2>2. QED
      BY <1>3, <2>1, <2>3, PaymentStepInv, ClockLeftAlone, GatewayLeftAlone, LedgerLeftAlone
  <1>4. CASE LedgerStep
    <2>1. UNCHANGED <<clockVars, gatewayVars, paymentVars>> BY <1>4 DEF LedgerStep
    <2>2. QED
      BY <1>4, <2>1, ClockLeftAlone, GatewayLeftAlone, SwitchesLeftAlone, LedgerStepInv
  <1>5. CASE resetTestState
    <2>1. clock' = [clock EXCEPT !.offset = 0, !.frozenAt = NoValue]
          /\ payments' = NoSwitches /\ given' = <<>> /\ UNCHANGED gatewayVars
      BY <1>5 DEF resetTestState
    <2>2. ClockShape'
      <3>1. clock \in Readings BY DEF ClockShape, Readings
      <3>2. 0 \in Int /\ NoValue \in (0..MaxTime) \cup {NoValue} OBVIOUS
      <3>3. clock' \in Readings BY <2>1, <3>1, <3>2, ClockSet
      <3>4. QED BY <3>3 DEF ClockShape, Readings
    <2>3. SwitchInv' BY <2>1 DEF NoSwitches, SwitchInv, SwitchShape, Ordered
    <2>5. LedgerInv'
      <3>1. ledger' = <<>> /\ rewound' = FALSE BY <1>5 DEF resetTestState
      <3>2. FilteredAlike(ledger') BY <3>1, NoneFiltered
      <3>3. FilteredAlike(ledger)'
        BY <3>2 DEF FilteredAlike, filterEntries, getEntriesInWindow, EntriesAt
      <3>4. NotAfter(ledger, DateNow)' BY <3>1 DEF NotAfter
      <3>5. assertLedgerChronological(ledger)' BY <3>1 DEF assertLedgerChronological
      <3>8. <<>> \in Seq(LedgerEntries) OBVIOUS
      <3>6. ledger' \in Seq(LedgerEntries) BY <3>1, <3>8
      <3>9. rewound' \in BOOLEAN BY <3>1
      <3>7. QED BY <3>3, <3>4, <3>5, <3>6, <3>9 DEF LedgerInv
    <2>4. QED BY <2>1, <2>2, <2>3, <2>5, GatewayLeftAlone
  <1>6. CASE UNCHANGED kitVars
    <2>1. UNCHANGED <<clockVars, gatewayVars, paymentVars, ledger>>
      BY <1>6 DEF kitVars, clockVars, gatewayVars, paymentVars
    <2>3. UNCHANGED <<ledger, clock, rewound>> BY <2>1 DEF clockVars
    <2>2. QED BY <2>1, <2>3, ClockLeftAlone, GatewayLeftAlone, SwitchesLeftAlone, LedgerLeftAlone
  <1>7. QED BY <1>1, <1>2, <1>3, <1>4, <1>5, <1>6 DEF KitNext

LEMMA KitTells ==
    ASSUME KitInv
    PROVE  GatewayTellsTheTruth
  <1> USE DEF KitInv
  <1>1. KitTypeOK
    <2>1. /\ clock.real \in 0..MaxTime /\ clock.installed \in BOOLEAN
          /\ clock.frozenAt \in 0..MaxTime \cup {NoValue}
      BY DEF ClockShape
    <2>2. /\ gateway \in Gateways /\ gateway.remaining <= gateway.failing
          /\ epoch \in 0..MaxResets /\ call \in [Charges -> CallsIn(epoch)]
      BY DEF GatewayInv, GatewayShape
    <2>3. gateway.remaining \in 0..gateway.failing BY <2>2 DEF Gateways
    <2>4. 0..epoch \subseteq 0..MaxResets BY <2>2, TestKitAssumption
    <2>5. call \in [Charges -> [ verdict : Verdicts, id : (Int \X Nat) \cup {NoValue},
                                 epoch : 0..MaxResets, nth : Nat ]]
      BY <2>2, <2>4 DEF CallsIn, Ids
    <2>6. \A i \in DOMAIN waiting :
             call[waiting[i]].verdict \in {"resolves", "rejects", "failing", "succeeding"}
      BY DEF GatewayInv, WaitingOnce, Pending
    <2>7. QED BY <2>1, <2>3, <2>5, <2>6 DEF KitTypeOK
  <1>2. CountersMatchHistory /\ PaymentIdsAreDistinct BY DEF GatewayInv
  <1>3. ResultsMisfiledOnlyByOverlap BY GatewayPromises
  <1>4. StepFailuresInOrder BY DEF SwitchInv, Ordered, StepFailuresInOrder
  <1>5. QED BY <1>1, <1>2, <1>3, <1>4 DEF GatewayTellsTheTruth

LEMMA KitInvariant == KitSpec => []KitInv
  <1>1. KitInit => KitInv BY KitStarts
  <1>2. KitInv /\ [KitNext]_kitVars => KitInv' BY KitStep
  <1>3. QED BY <1>1, <1>2, PTL DEF KitSpec

(***************************************************************************)
(* A test can rely on what the mock gateway and the switches tell it, with *)
(* any number of charges that overlap, setups and resets between them      *)
(* (mock-gateway.ts, mockPayments).                                        *)
(***************************************************************************)
THEOREM GatewayIsTrue == KitSpec => []GatewayTellsTheTruth
  <1>1. KitInv => GatewayTellsTheTruth BY KitTells
  <1>2. QED BY <1>1, KitInvariant, PTL

\* Which charges failNextN fails is decided in charge.
LEMMA FailuresCounted ==
    ASSUME KitInv, KitNext
    PROVE  FirstNFail
  <1>1. /\ gateway \in Gateways /\ FailuresLeft /\ call \in [Charges -> CallsIn(epoch)]
        /\ \A i \in DOMAIN waiting : call[waiting[i]].verdict \in Pending /\ waiting[i] \in Charges
    BY DEF KitInv, GatewayInv, GatewayShape, WaitingOnce
  <1>2. /\ gateway.remaining \in Nat /\ gateway.failing \in Nat /\ gateway.begun \in Nat
    BY <1>1 DEF Gateways
  <1>3. SUFFICES ASSUME NEW c \in Charges, call[c].verdict = "idle",
                        call'[c].verdict \in {"failing", "succeeding"}
                 PROVE  call'[c].verdict = "failing" <=> call'[c].nth <= gateway.failing
    BY DEF FirstNFail
  <1>4. CASE UNCHANGED call BY <1>3, <1>4
  <1>5. ASSUME NEW d \in Charges, charge(d)
        PROVE  call'[c].verdict = "failing" <=> call'[c].nth <= gateway.failing
    <2> DEFINE g == Pushed(d)
               made == call'[c]
    <2>1. \E verdict, id : call' = [call EXCEPT ![d] = Record(verdict, id, g)]
      BY <1>5 DEF charge
    <2>2. c = d BY <1>1, <1>3, <2>1
    <2>3. /\ g.handler = gateway.handler /\ g.remaining = gateway.remaining
          /\ g.begun = IF gateway.handler = "failNextN" THEN gateway.begun + 1 ELSE 0
      BY <1>1 DEF Pushed, Gateways
    <2> HIDE DEF g
    <2>4. \/ /\ g.handler = "failNextN" /\ g.remaining > 0
             /\ call' = [call EXCEPT ![d] = Record("failing", NoValue, g)]
          \/ /\ g.handler = "failNextN" /\ ~(g.remaining > 0)
             /\ call' = [call EXCEPT ![d] = Record("succeeding", defaultChargeResult(g), g)]
          \/ \E verdict \in {"resolves", "rejects", "error", "ok"} : \E id :
                call' = [call EXCEPT ![d] = Record(verdict, id, g)]
      BY <1>5 DEF charge, StillFails, g
    <2>5. \A verdict, id : /\ Record(verdict, id, g).verdict = verdict
                           /\ Record(verdict, id, g).nth = g.begun
      BY DEF Record
    <2>6. \A verdict, id : call' = [call EXCEPT ![d] = Record(verdict, id, g)] =>
              made.verdict = verdict /\ made.nth = g.begun
      BY <1>1, <2>2, <2>5
    <2>7. CASE g.handler = "failNextN" /\ g.remaining > 0 /\ made.verdict = "failing"
      <3>1. made.nth = g.begun BY <2>1, <2>6
      <3>2. gateway.begun + 1 <= gateway.failing
        BY <1>1, <1>2, <2>3, <2>7 DEF FailuresLeft
      <3>3. QED BY <2>3, <2>7, <3>1, <3>2
    <2>8. CASE g.handler = "failNextN" /\ ~(g.remaining > 0) /\ made.verdict = "succeeding"
      <3>1. made.nth = g.begun BY <2>1, <2>6
      <3>2. ~(gateway.begun + 1 <= gateway.failing)
        BY <1>1, <1>2, <2>3, <2>8 DEF FailuresLeft
      <3>3. QED BY <2>3, <2>8, <3>1, <3>2
    <2>9. CASE made.verdict \in {"resolves", "rejects", "error", "ok"} BY <1>3, <2>9
    <2>10. QED BY <2>4, <2>6, <2>7, <2>8, <2>9
  <1>6. ASSUME NEW i \in DOMAIN waiting, Resume(i) PROVE FALSE
    <2>1. \E verdict \in {"error", "lost", "ok"} :
             call' = [call EXCEPT ![waiting[i]].verdict = verdict]
      BY <1>6 DEF Resume
    <2>2. waiting[i] # c BY <1>1, <1>3 DEF Pending
    <2>3. call'[c] = call[c] BY <1>1, <2>1, <2>2
    <2>4. QED BY <1>3, <2>3
  <1>7. CASE GatewayStep
    <2>1. CASE \/ succeedNext \/ failNext \/ overrideCharge \/ spyRefund \/ refund \/ resetGateway
               \/ \E n \in 0..2 : failNextN(n)
      <3>1. UNCHANGED call
        BY <2>1 DEF succeedNext, failNext, overrideCharge, spyRefund, refund, resetGateway,
                    failNextN, SetUp
      <3>2. QED BY <1>4, <3>1
    <2>2. QED BY <1>5, <1>6, <1>7, <2>1 DEF GatewayStep
  <1>8. CASE ClockStep
    <2>1. UNCHANGED gatewayVars BY <1>8, ClockSteps
    <2>2. QED BY <1>4, <2>1 DEF gatewayVars
  <1>9. CASE PaymentStep \/ LedgerStep \/ resetTestState
    BY <1>4, <1>9 DEF PaymentStep, LedgerStep, resetTestState, gatewayVars
  <1>10. QED BY <1>7, <1>8, <1>9 DEF KitNext

LEMMA ClockKeeps ==
    ASSUME KitInv, KitNext
    PROVE  ClockRunsBackOnlyWhenSet
  <1>1. ClockShape /\ DateNow \in Int BY TimeIsInt DEF KitInv
  <1>2. CASE ClockStep
    <2>1. DateNow' \in Int BY <1>1, <1>2, ClockGoesForward
    <2>2. \/ DateNow' >= DateNow
          \/ (\E t \in 0..MaxTime : freeze(t)) \/ installVirtualClock \/ restoreRealClock
      BY <1>1, <1>2, ClockGoesForward
    <2>3. DateNow' >= DateNow => ~(DateNow' < DateNow) BY <1>1, <2>1
    <2>4. QED BY <2>2, <2>3 DEF ClockRunsBackOnlyWhenSet
  <1>3. CASE GatewayStep \/ PaymentStep \/ LedgerStep
    <2>1. UNCHANGED clock BY <1>3 DEF GatewayStep, PaymentStep, LedgerStep, clockVars
    <2>2. DateNow' = DateNow BY <2>1 DEF DateNow, virtualNow
    <2>3. ~(DateNow' < DateNow) BY <1>1, <2>2
    <2>4. QED BY <2>3 DEF ClockRunsBackOnlyWhenSet
  <1>4. CASE resetTestState BY <1>4 DEF ClockRunsBackOnlyWhenSet
  <1>5. QED BY <1>2, <1>3, <1>4 DEF KitNext

LEMMA TestsStart ==
    ASSUME KitInv, KitNext
    PROVE  TestsStartAtRealTime
  <1>1. ledger \in Seq(LedgerEntries) /\ clock \in Readings
    BY DEF KitInv, LedgerInv, ClockShape, Readings
  <1>2. SUFFICES ASSUME ledger # <<>>, ledger' = <<>>
                 PROVE  virtualNow' = clock'.real
    BY DEF TestsStartAtRealTime
  <1>3. ~(UNCHANGED ledger) BY <1>2
  <1>4. ~LedgerStep
    <2>1. SUFFICES ASSUME NEW e, ledger' = Append(ledger, e) PROVE FALSE
      BY DEF LedgerStep, recordTestLedgerEntry
    <2>2. Len(Append(ledger, e)) = Len(ledger) + 1 /\ Len(ledger) \in Nat BY <1>1
    <2>3. Len(<<>>) = 0 OBVIOUS
    <2>4. QED BY <1>2, <2>1, <2>2, <2>3
  <1>5. resetTestState
    BY <1>3, <1>4, ClockSteps DEF KitNext, GatewayStep, PaymentStep
  <1>6. clock' = [clock EXCEPT !.offset = 0, !.frozenAt = NoValue]
    BY <1>5 DEF resetTestState
  <1>7. clock'.frozenAt = NoValue /\ clock'.offset = 0 /\ clock'.real \in Int
    BY <1>1, <1>6 DEF Readings
  <1>8. QED BY <1>7 DEF virtualNow

\* failNext forces one charge.
LEMMA FailureForced ==
    ASSUME KitInv, KitNext
    PROVE  ForcedFailureIsUsedOnce
  <1> DEFINE Begins(c) == call[c].verdict = "idle" /\ call'[c].verdict # "idle"
             Forced == gateway.nextError /\ gateway.handler = "none"
             Kept == gateway.nextError => gateway'.nextError
  <1>1. /\ gateway \in Gateways /\ call \in [Charges -> CallsIn(epoch)]
        /\ \A i \in DOMAIN waiting : call[waiting[i]].verdict \in Pending /\ waiting[i] \in Charges
    BY DEF KitInv, GatewayInv, GatewayShape, WaitingOnce
  <1>2. SUFFICES /\ \A c \in Charges : Begins(c) => (call'[c].verdict = "error" <=> Forced)
                 /\ \/ Kept
                    \/ epoch' = epoch + 1
                    \/ \E c \in Charges : Begins(c) /\ call'[c].verdict = "error"
    BY DEF ForcedFailureIsUsedOnce
  <1>3. CASE UNCHANGED call /\ (Kept \/ epoch' = epoch + 1) BY <1>3
  <1>4. ASSUME NEW d \in Charges, charge(d)
        PROVE  /\ \A c \in Charges : Begins(c) => (call'[c].verdict = "error" <=> Forced)
               /\ Kept \/ \E c \in Charges : Begins(c) /\ call'[c].verdict = "error"
    <2> DEFINE g == Pushed(d)
               last == Len(g.history)
    <2> DEFINE h == gateway.history
               e == Entry("charge", d)
               begun == IF gateway.handler = "failNextN" THEN gateway.begun + 1 ELSE 0
    <2>1. /\ h \in Seq(Entries) /\ gateway.charges + 1 \in Nat /\ begun \in Nat /\ e \in Entries
      BY <1>1 DEF Gateways, Entry, Entries
    <2>2. Append(h, e) \in Seq(Entries) BY <2>1, Appended
    <2>3. g = [gateway EXCEPT !.history = Append(h, e), !.charges = gateway.charges + 1,
                               !.begun = begun]
      BY DEF Pushed
    <2> HIDE DEF h, e, begun, g
    <2>4. g \in Gateways BY <1>1, <2>1, <2>2, <2>3, EntryAdded
    <2>5. g.handler = gateway.handler BY <1>1, <2>3 DEF Gateways
    <2>6. g.nextError = gateway.nextError BY <1>1, <2>3 DEF Gateways
    <2>7. /\ call[d].verdict = "idle"
          /\ \/ /\ g.handler = "none" /\ g.nextError
                /\ \E id : call' = [call EXCEPT ![d] = Record("error", id, g)]
             \/ /\ ~(g.handler = "none" /\ g.nextError)
                /\ \/ gateway' = g
                   \/ gateway' = [g EXCEPT !.remaining = @ - 1]
                   \/ gateway' = [g EXCEPT !.nextResult = FALSE, !.history[last].result = d]
                /\ \E verdict \in {"resolves", "rejects", "failing", "succeeding", "ok"} : \E id :
                      call' = [call EXCEPT ![d] = Record(verdict, id, g)]
      BY <1>4 DEF charge, g
    <2>8. \A verdict, id : Record(verdict, id, g).verdict = verdict BY DEF Record
    <2>9. \A verdict, id : call' = [call EXCEPT ![d] = Record(verdict, id, g)] =>
            /\ call'[d].verdict = verdict
            /\ \A c \in Charges : c # d => call'[c] = call[c]
      BY <1>1, <2>8
    <2>10. CASE g.handler = "none" /\ g.nextError
      <3>1. call'[d].verdict = "error" /\ \A c \in Charges : c # d => call'[c] = call[c]
        BY <2>7, <2>9, <2>10
      <3>2. Begins(d) BY <2>7, <3>1
      <3>3. QED BY <2>5, <2>6, <2>10, <3>1, <3>2
    <2>11. CASE ~(g.handler = "none" /\ g.nextError)
      <3>1. /\ call'[d].verdict \in {"resolves", "rejects", "failing", "succeeding", "ok"}
            /\ \A c \in Charges : c # d => call'[c] = call[c]
        BY <2>7, <2>9, <2>11
      <3>2. /\ gateway' = g => gateway'.nextError = g.nextError
            /\ gateway' = [g EXCEPT !.remaining = @ - 1] => gateway'.nextError = g.nextError
            /\ gateway' = [g EXCEPT !.nextResult = FALSE, !.history[last].result = d] =>
                  gateway'.nextError = g.nextError
        BY <2>4 DEF Gateways
      <3>3. gateway'.nextError = g.nextError BY <2>7, <2>11, <3>2
      <3>4. QED BY <2>5, <2>6, <2>11, <3>1, <3>3
    <2>12. QED BY <2>10, <2>11
  <1>5. ASSUME NEW i \in DOMAIN waiting, Resume(i)
        PROVE  (\A c \in Charges : ~Begins(c)) /\ Kept
    <2>1. \E verdict \in {"error", "lost", "ok"} :
             call' = [call EXCEPT ![waiting[i]].verdict = verdict]
      BY <1>5 DEF Resume
    <2>2. \A c \in Charges : c # waiting[i] => call'[c] = call[c] BY <1>1, <2>1
    <2>3. call[waiting[i]].verdict # "idle" BY <1>1 DEF Pending
    <2>4. \A c \in Charges : ~Begins(c) BY <2>2, <2>3
    <2>5. \E h : gateway' = gateway \/ gateway' = [gateway EXCEPT !.history = h]
      BY <1>5 DEF Resume
    <2>6. Kept BY <1>1, <2>5 DEF Gateways
    <2>7. QED BY <2>4, <2>6
  <1>6. CASE GatewayStep
    <2>1. CASE \/ succeedNext \/ failNext \/ overrideCharge \/ spyRefund \/ refund \/ resetGateway
               \/ \E n \in 0..2 : failNextN(n)
      <3>1. UNCHANGED call
        BY <2>1 DEF succeedNext, failNext, overrideCharge, spyRefund, refund, resetGateway,
                    failNextN, SetUp
      <3>2. resetGateway => epoch' = epoch + 1 BY DEF resetGateway
      <3>3. succeedNext \/ failNext \/ overrideCharge \/ spyRefund \/ refund => Kept
        BY <1>1 DEF succeedNext, failNext, overrideCharge, spyRefund, refund, SetUp, Gateways
      <3>4. \A n \in 0..2 : failNextN(n) => Kept BY <1>1 DEF failNextN, SetUp, Gateways
      <3>5. QED BY <1>3, <2>1, <3>1, <3>2, <3>3, <3>4
    <2>2. QED BY <1>4, <1>5, <1>6, <2>1 DEF GatewayStep
  <1>7. CASE ClockStep
    <2>1. UNCHANGED gatewayVars BY <1>7, ClockSteps
    <2>2. QED BY <1>3, <2>1 DEF gatewayVars
  <1>8. CASE PaymentStep \/ LedgerStep \/ resetTestState
    BY <1>3, <1>8 DEF PaymentStep, LedgerStep, resetTestState, gatewayVars
  <1>9. QED BY <1>6, <1>7, <1>8 DEF KitNext

\* Where the clock is moved to, and what unfreezes it.
LEMMA ClockMoves ==
    ASSUME KitInv, KitNext
    PROVE  ClockMovesAsSet
  <1>1. clock \in Readings BY DEF KitInv, ClockShape, Readings
  <1>2. ASSUME NEW d \in Durations, advance(d)
        PROVE  virtualNow' = IF clock.frozenAt = NoValue
                             THEN virtualNow + parseDuration(d) ELSE virtualNow
    <2>1. parseDuration(d) \in Nat BY <1>2, DurationIsNat DEF advance
    <2>2. clock' = [clock EXCEPT !.offset = clock.offset + parseDuration(d)]
      BY <1>2 DEF advance, SetClock
    <2> HIDE DEF parseDuration
    <2>3. /\ clock'.frozenAt = clock.frozenAt /\ clock'.real = clock.real
          /\ clock'.offset = clock.offset + parseDuration(d)
          /\ clock.real \in Int /\ clock.offset \in Int
      BY <1>1, <2>2 DEF Readings
    <2>4. QED BY <2>1, <2>3 DEF virtualNow
  <1>3. ASSUME NEW d \in Durations, advanceFromFrozen(d)
        PROVE  virtualNow' = virtualNow + parseDuration(d)
    <2>1. parseDuration(d) \in Nat BY <1>3, DurationIsNat DEF advanceFromFrozen
    <2>2. /\ clock.frozenAt # NoValue
          /\ clock' = [clock EXCEPT !.frozenAt = clock.frozenAt + parseDuration(d)]
      BY <1>3 DEF advanceFromFrozen, SetClock
    <2> HIDE DEF parseDuration
    <2>3. clock'.frozenAt = clock.frozenAt + parseDuration(d) /\ clock.frozenAt \in Int
      BY <1>1, <2>2 DEF Readings
    <2>4. clock'.frozenAt # NoValue BY <2>1, <2>3, TestKitAssumption
    <2>5. QED BY <2>2, <2>3, <2>4 DEF virtualNow
  <1>4. ASSUME clock.frozenAt # NoValue, clock'.frozenAt = NoValue
        PROVE  virtualNow' = clock'.real
    <2>1. CASE restoreRealClock \/ resetTestState
      <3>1. \/ clock' = [clock EXCEPT !.installed = FALSE, !.offset = 0, !.frozenAt = NoValue]
            \/ clock' = [clock EXCEPT !.offset = 0, !.frozenAt = NoValue]
        BY <2>1 DEF restoreRealClock, resetTestState, SetClock
      <3>2. CASE clock' = [clock EXCEPT !.offset = 0, !.frozenAt = NoValue]
        <4>1. clock'.offset = 0 /\ clock'.real \in Int BY <1>1, <3>2 DEF Readings
        <4>2. QED BY <1>4, <4>1 DEF virtualNow
      <3>3. CASE clock' = [clock EXCEPT !.installed = FALSE, !.offset = 0, !.frozenAt = NoValue]
        <4>1. clock'.offset = 0 /\ clock'.real \in Int BY <1>1, <3>3 DEF Readings
        <4>2. QED BY <1>4, <4>1 DEF virtualNow
      <3>4. QED BY <3>1, <3>2, <3>3
    <2>2. CASE UNCHANGED clock BY <1>4, <2>2
    <2>3. CASE Tick \/ installVirtualClock
      BY <1>1, <1>4, <2>3 DEF Tick, installVirtualClock, SetClock, Readings
    <2>4. ASSUME NEW d \in Durations, advance(d) PROVE FALSE
      BY <1>1, <1>4, <2>4 DEF advance, SetClock, Readings
    <2>5. ASSUME NEW d \in Durations, advanceFromFrozen(d) PROVE FALSE
      <3>1. parseDuration(d) \in Nat BY <2>5, DurationIsNat DEF advanceFromFrozen
      <3>2. clock' = [clock EXCEPT !.frozenAt = clock.frozenAt + parseDuration(d)]
        BY <2>5 DEF advanceFromFrozen, SetClock
      <3> HIDE DEF parseDuration
      <3>3. clock'.frozenAt = clock.frozenAt + parseDuration(d) /\ clock.frozenAt \in Int
        BY <1>1, <1>4, <3>2 DEF Readings
      <3>4. QED BY <1>4, <3>1, <3>3, TestKitAssumption
    <2>6. ASSUME NEW t \in 0..MaxTime, freeze(t) PROVE FALSE
      <3>1. clock'.frozenAt = t BY <1>1, <2>6 DEF freeze, SetClock, Readings
      <3>2. QED BY <1>4, <3>1, TestKitAssumption
    <2>7. CASE ClockStep BY <2>1, <2>3, <2>4, <2>5, <2>6, <2>7, ClockSteps
    <2>8. CASE GatewayStep \/ PaymentStep \/ LedgerStep
      <3>1. UNCHANGED clock BY <2>8 DEF GatewayStep, PaymentStep, LedgerStep, clockVars
      <3>2. QED BY <2>2, <3>1
    <2>9. QED BY <2>1, <2>7, <2>8 DEF KitNext
  <1>5. QED BY <1>2, <1>3, <1>4 DEF ClockMovesAsSet

(***************************************************************************)
(* What a test sets takes effect: failNextN(n) fails exactly the first n   *)
(* charges, however they overlap, and failNext the first one that no       *)
(* handler answers; the virtual time moves by what it is advanced, unless  *)
(* advance is called on a frozen clock, and runs back only when it is set; *)
(* and a test after resetTestState starts at the real time                 *)
(* (mock-gateway.ts, time-travel.ts, index.ts).                            *)
(***************************************************************************)
THEOREM SettingsHold == KitSpec => SettingsTakeEffect
  <1> DEFINE A == /\ FirstNFail /\ ForcedFailureIsUsedOnce
                  /\ ClockMovesAsSet /\ ClockRunsBackOnlyWhenSet /\ TestsStartAtRealTime
  <1>1. KitInv /\ [KitNext]_kitVars => [A]_kitVars
    <2>1. SUFFICES ASSUME KitInv, KitNext PROVE A OBVIOUS
    <2>2. QED BY <2>1, FailuresCounted, FailureForced, ClockMoves, ClockKeeps, TestsStart
  <1>2. KitSpec => [][A]_kitVars
    <2> HIDE DEF A
    <2>1. QED BY <1>1, KitInvariant, PTL DEF KitSpec
  <1>3. QED BY <1>2 DEF SettingsTakeEffect

-----------------------------------------------------------------------------
(* The assertions of the test ledger *)

LEMMA FirstToLast ==
    ASSUME NEW s \in Seq(LedgerEntries), assertLedgerChronological(s),
           NEW i \in DOMAIN s, NEW k \in DOMAIN s, i <= k
    PROVE  s[i].timestamp <= s[k].timestamp
  <1> DEFINE Q == {n \in Nat : i + n \in DOMAIN s => s[i].timestamp <= s[i + n].timestamp}
  <1>1. Len(s) \in Nat /\ DOMAIN s = 1..Len(s) OBVIOUS
  <1>2. \A j \in DOMAIN s : s[j] \in LedgerEntries BY ElementsOf
  <1>3. \A j \in DOMAIN s : s[j].timestamp \in Int BY <1>2 DEF LedgerEntries
  <1>4. 0 \in Q
    <2>1. i + 0 = i BY <1>1
    <2>2. s[i].timestamp <= s[i].timestamp BY <1>3
    <2>3. QED BY <2>1, <2>2
  <1>5. ASSUME NEW n \in Nat, n \in Q PROVE n + 1 \in Q
    <2>1. SUFFICES ASSUME i + (n + 1) \in DOMAIN s
                   PROVE  s[i].timestamp <= s[i + (n + 1)].timestamp
      OBVIOUS
    <2> DEFINE j == i + (n + 1)
    <2>2. i + n \in DOMAIN s /\ j \in 2..Len(s) /\ j - 1 = i + n BY <1>1, <2>1
    <2>3. s[i].timestamp <= s[i + n].timestamp BY <1>5, <2>2
    <2>4. s[j].timestamp >= s[j - 1].timestamp BY <2>2 DEF assertLedgerChronological
    <2> HIDE DEF j
    <2>5. s[i].timestamp <= s[j].timestamp BY <1>3, <2>1, <2>2, <2>3, <2>4 DEF j
    <2>6. QED BY <2>5 DEF j
  <1> HIDE DEF Q
  <1>6. \A n \in Nat : n \in Q BY <1>4, <1>5, EveryNumber
  <1>7. k - i \in Nat /\ i + (k - i) = k BY <1>1
  <1>8. QED BY <1>6, <1>7 DEF Q

LEMMA SpanIsFirstToLast ==
    ASSUME NEW s \in Seq(LedgerEntries), assertLedgerChronological(s), Len(s) >= 2
    PROVE  assertEntriesSpanTime(s, 1) <=> s[1].timestamp < Last(s).timestamp
  <1> DEFINE first == s[1].timestamp
             last == s[Len(s)].timestamp
             T == Timestamps(s)
  <1>1. Len(s) \in Nat /\ DOMAIN s = 1..Len(s) OBVIOUS
  <1>2. \A j \in DOMAIN s : s[j] \in LedgerEntries BY ElementsOf
  <1>3. \A j \in DOMAIN s : s[j].timestamp \in Int BY <1>2 DEF LedgerEntries
  <1>4. 1 \in DOMAIN s /\ Len(s) \in DOMAIN s BY <1>1
  <1>5. first \in T /\ last \in T /\ T \subseteq Int BY <1>3, <1>4 DEF Timestamps
  <1>6. \A j \in DOMAIN s : first <= s[j].timestamp /\ s[j].timestamp <= last
    BY <1>1, <1>4, FirstToLast
  <1>7. \A t \in T : first <= t /\ t <= last BY <1>6 DEF Timestamps
  <1> HIDE DEF first, last, T
  <1>8. Min(T) = first
    <2>1. \A x \in T : (\A y \in T : x <= y) => x = first BY <1>5, <1>7
    <2>2. QED BY <1>5, <1>7, <2>1 DEF Min
  <1>9. Max(T) = last
    <2>1. \A x \in T : (\A y \in T : x >= y) => x = last BY <1>5, <1>7
    <2>2. \A y \in T : last >= y BY <1>5, <1>7
    <2>3. QED BY <1>5, <2>1, <2>2 DEF Max
  <1>10. assertEntriesSpanTime(s, 1) <=> last - first >= 1
    BY <1>8, <1>9 DEF assertEntriesSpanTime, T
  <1>11. last - first >= 1 <=> first < last BY <1>5
  <1>12. Last(s) = s[Len(s)] BY DEF Last
  <1>13. QED BY <1>10, <1>11, <1>12 DEF first, last

LEMMA TenantsAgree ==
    ASSUME NEW s \in Seq(LedgerEntries), s # <<>>
    PROVE  assertSingleTenant(s) <=> ~assertMultiTenant(s, {"acme", "beta"})
  <1>1. Len(s) \in Nat /\ Len(s) # 0 /\ DOMAIN s = 1..Len(s) OBVIOUS
  <1>2. \A j \in DOMAIN s : s[j] \in LedgerEntries BY ElementsOf
  <1>3. \A j \in DOMAIN s : s[j].tenantId \in {"acme", "beta"} BY <1>2 DEF LedgerEntries
  <1>4. 1 \in DOMAIN s /\ \A j \in DOMAIN s : j = 1 \/ j \in 2..Len(s) BY <1>1
  <1>5. \A j \in 2..Len(s) : j \in DOMAIN s BY <1>1
  <1>6. assertMultiTenant(s, {"acme", "beta"}) <=>
           /\ \E j \in DOMAIN s : s[j].tenantId = "acme"
           /\ \E j \in DOMAIN s : s[j].tenantId = "beta"
    BY DEF assertMultiTenant
  <1>7. assertSingleTenant(s) <=> \A j \in DOMAIN s : s[j].tenantId = s[1].tenantId
    BY <1>4, <1>5 DEF assertSingleTenant
  <1>8. QED BY <1>3, <1>4, <1>6, <1>7

LEMMA AssertionsDoAgree ==
    ASSUME LedgerInv
    PROVE  AssertionsAgree
  <1>1. ledger \in Seq(LedgerEntries) /\ FilteredAlike(ledger) BY DEF LedgerInv
  <1>2. ASSUME NEW f
        PROVE  /\ assertLedgerContains(ledger, f) # assertLedgerNotContains(ledger, f)
               /\ assertLedgerCount(ledger, f, 0) = assertLedgerNotContains(ledger, f)
               /\ getLastEntry(ledger, f) # NoValue <=> assertLedgerContains(ledger, f)
    <2> DEFINE found == filterEntries(ledger, f)
    <2>1. found \in Seq(LedgerEntries) BY <1>1 DEF FilteredAlike
    <2> HIDE DEF found
    <2>2. Len(found) \in Nat /\ (Len(found) = 0 <=> found = <<>>) BY <2>1
    <2>3. Len(found) > 0 <=> found # <<>> BY <2>2
    <2>4. assertLedgerContains(ledger, f) <=> found # <<>> BY DEF assertLedgerContains, found
    <2>5. assertLedgerNotContains(ledger, f) <=> found = <<>>
      BY <2>3 DEF assertLedgerNotContains, found
    <2>6. assertLedgerCount(ledger, f, 0) <=> found = <<>> BY <2>2 DEF assertLedgerCount, found
    <2>7. found # <<>> => Last(found) \in LedgerEntries
      <3>1. found # <<>> => Len(found) \in DOMAIN found BY <2>1
      <3>2. QED BY <2>1, <3>1, ElementsOf DEF Last
    <2>8. NoValue \notin LedgerEntries BY TestKitAssumption DEF LedgerEntries
    <2>9. getLastEntry(ledger, f) = IF found = <<>> THEN NoValue ELSE Last(found)
      BY DEF getLastEntry, found
    <2>10. assertLedgerContains(ledger, f) # assertLedgerNotContains(ledger, f)
      BY <2>4, <2>5 DEF assertLedgerContains, assertLedgerNotContains
    <2>11. assertLedgerCount(ledger, f, 0) = assertLedgerNotContains(ledger, f)
      BY <2>5, <2>6 DEF assertLedgerCount, assertLedgerNotContains
    <2>12. getLastEntry(ledger, f) # NoValue <=> assertLedgerContains(ledger, f)
      BY <2>4, <2>7, <2>8, <2>9
    <2>13. QED BY <2>10, <2>11, <2>12
  <1>3. \A t \in {"acme", "beta"}, s \in 0..1 :
          getLedgerEntries([tenantId |-> t, timestamp |-> s]) =
            filterEntries(getEntriesInWindow(ledger, s, s), [tenantId |-> t])
    BY <1>1 DEF FilteredAlike, getLedgerEntries
  <1>4. ledger # <<>> => (assertSingleTenant(ledger) <=> ~assertMultiTenant(ledger, {"acme", "beta"}))
    BY <1>1, TenantsAgree
  <1>5. (assertLedgerChronological(ledger) /\ Len(ledger) >= 2) =>
          (assertEntriesSpanTime(ledger, 1) <=> ledger[1].timestamp < Last(ledger).timestamp)
    BY <1>1, SpanIsFirstToLast
  <1>6. QED BY <1>2, <1>3, <1>4, <1>5 DEF AssertionsAgree

\* Two pending transactions and their outcomes.
LEMMA PatternsOfTwo ==
    ASSUME NEW x \in Outcomes, NEW y \in Outcomes, NEW o \in Outcomes,
           NEW entries \in TransactionLedgers(x, y)
    PROVE  /\ assertTransactionPattern(entries, "t", o) <=> o = x
           /\ assertTransactionPattern(entries, "u", o) <=> Len(entries) = 4 /\ o = y
  <1> DEFINE p == Tx("t", "TRANSACTION_PENDING")
             q == Tx("u", "TRANSACTION_PENDING")
             Tells(list, trace, out) ==
               /\ \E i \in DOMAIN list : /\ list[i].traceId = trace
                                         /\ list[i].action = "TRANSACTION_PENDING"
               /\ \E i \in DOMAIN list : list[i].traceId = trace /\ list[i].action = out
  <1>1. \A list, trace, out : assertTransactionPattern(list, trace, out) <=> Tells(list, trace, out)
    BY DEF assertTransactionPattern
  <1>2. /\ \A a, b : Tx(a, b).traceId = a /\ Tx(a, b).action = b BY DEF Tx
  <1> DEFINE X == Tx("t", x)
             Y == Tx("u", y)
  <1>3. /\ p.traceId = "t" /\ p.action = "TRANSACTION_PENDING"
        /\ q.traceId = "u" /\ q.action = "TRANSACTION_PENDING"
        /\ X.traceId = "t" /\ X.action = x /\ Y.traceId = "u" /\ Y.action = y
    BY <1>2
  <1>4. "t" # "u" /\ "TRANSACTION_PENDING" \notin Outcomes BY DEF Outcomes
  <1>5. entries \in {<<p, X, q, Y>>, <<p, q, X, Y>>, <<p, q, Y, X>>, <<p, q, X>>, <<p, X, q>>}
    BY DEF TransactionLedgers
  <1> HIDE DEF p, q, X, Y
  <1> SUFFICES /\ Tells(entries, "t", o) <=> o = x
               /\ Tells(entries, "u", o) <=> Len(entries) = 4 /\ o = y
    BY <1>1
  <1>6. CASE entries = <<p, X, q, Y>>
    <2>1. /\ DOMAIN entries = {1, 2, 3, 4} /\ Len(entries) = 4
          /\ entries[1] = p /\ entries[2] = X /\ entries[3] = q /\ entries[4] = Y
      BY <1>6
    <2>2. QED BY <1>3, <1>4, <2>1
  <1>7. CASE entries = <<p, q, X, Y>>
    <2>1. /\ DOMAIN entries = {1, 2, 3, 4} /\ Len(entries) = 4
          /\ entries[1] = p /\ entries[2] = q /\ entries[3] = X /\ entries[4] = Y
      BY <1>7
    <2>2. QED BY <1>3, <1>4, <2>1
  <1>8. CASE entries = <<p, q, Y, X>>
    <2>1. /\ DOMAIN entries = {1, 2, 3, 4} /\ Len(entries) = 4
          /\ entries[1] = p /\ entries[2] = q /\ entries[3] = Y /\ entries[4] = X
      BY <1>8
    <2>2. QED BY <1>3, <1>4, <2>1
  <1>9. CASE entries = <<p, q, X>>
    <2>1. /\ DOMAIN entries = {1, 2, 3} /\ Len(entries) = 3
          /\ entries[1] = p /\ entries[2] = q /\ entries[3] = X
      BY <1>9
    <2>2. QED BY <1>3, <1>4, <2>1
  <1>10. CASE entries = <<p, X, q>>
    <2>1. /\ DOMAIN entries = {1, 2, 3} /\ Len(entries) = 3
          /\ entries[1] = p /\ entries[2] = X /\ entries[3] = q
      BY <1>10
    <2>2. QED BY <1>3, <1>4, <2>1
  <1>11. QED BY <1>5, <1>6, <1>7, <1>8, <1>9, <1>10

\* Of a ledger that no transaction writes each outcome in it is accepted.
LEMMA PatternsOfWrong ==
    ASSUME NEW o \in Outcomes, NEW wrong \in WrongLedgers
    PROVE  assertTransactionPattern(wrong, "t", o) <=> Tx("t", o) \in ToSet(wrong)
  <1> DEFINE p == Tx("t", "TRANSACTION_PENDING")
             Says(e, action) == e.traceId = "t" /\ e.action = action
  <1>1. assertTransactionPattern(wrong, "t", o) <=>
          /\ \E i \in DOMAIN wrong : Says(wrong[i], "TRANSACTION_PENDING")
          /\ \E i \in DOMAIN wrong : Says(wrong[i], o)
    BY DEF assertTransactionPattern
  <1>2. Tx("t", o) \in ToSet(wrong) <=> \E i \in DOMAIN wrong : wrong[i] = Tx("t", o)
    BY DEF ToSet
  <1>3. \A a, action : Says(Tx("t", a), action) <=> Tx("t", a) = Tx("t", action)
    <2>1. SUFFICES ASSUME NEW a, NEW action
                   PROVE  Says(Tx("t", a), action) <=> Tx("t", a) = Tx("t", action)
      OBVIOUS
    <2>2. Tx("t", a).traceId = "t" /\ Tx("t", a).action = a /\ Tx("t", action).action = action
      BY DEF Tx
    <2>3. a = action => Tx("t", a) = Tx("t", action) OBVIOUS
    <2>4. Tx("t", a) = Tx("t", action) => a = action BY <2>2
    <2>5. QED BY <2>2, <2>3, <2>4
  <1> HIDE DEF Says
  <1>4. SUFFICES /\ \E i \in DOMAIN wrong : Says(wrong[i], "TRANSACTION_PENDING")
                 /\ \A i \in DOMAIN wrong : Says(wrong[i], o) <=> wrong[i] = Tx("t", o)
    BY <1>1, <1>2
  <1>5. CASE \E x \in Outcomes : wrong = <<Tx("t", x), p>>
    <2>1. PICK x \in Outcomes : wrong = <<Tx("t", x), p>> BY <1>5
    <2>2. DOMAIN wrong = {1, 2} /\ wrong[1] = Tx("t", x) /\ wrong[2] = p BY <2>1
    <2>3. Says(wrong[2], "TRANSACTION_PENDING") BY <1>3, <2>2
    <2>4. /\ Says(wrong[1], o) <=> wrong[1] = Tx("t", o)
          /\ Says(wrong[2], o) <=> wrong[2] = Tx("t", o)
      BY <1>3, <2>2
    <2>5. QED BY <2>2, <2>3, <2>4
  <1>6. CASE \E x \in Outcomes, y \in Outcomes : wrong = <<p, Tx("t", x), Tx("t", y)>>
    <2>1. PICK x \in Outcomes, y \in Outcomes : wrong = <<p, Tx("t", x), Tx("t", y)>> BY <1>6
    <2>2. /\ DOMAIN wrong = {1, 2, 3}
          /\ wrong[1] = p /\ wrong[2] = Tx("t", x) /\ wrong[3] = Tx("t", y)
      BY <2>1
    <2>3. Says(wrong[1], "TRANSACTION_PENDING") BY <1>3, <2>2
    <2>4. /\ Says(wrong[1], o) <=> wrong[1] = Tx("t", o)
          /\ Says(wrong[2], o) <=> wrong[2] = Tx("t", o)
          /\ Says(wrong[3], o) <=> wrong[3] = Tx("t", o)
      BY <1>3, <2>2
    <2>5. QED BY <2>2, <2>3, <2>4
  <1>7. QED BY <1>5, <1>6 DEF WrongLedgers, p

LEMMA PatternsTell == PatternsTellOutcomes
  BY PatternsOfTwo, PatternsOfWrong DEF PatternsTellOutcomes

-----------------------------------------------------------------------------
(* The contexts of the test helpers *)

\* What a role may do, read off its mask.
LEMMA MayIs ==
    ASSUME NEW role
    PROVE  {p \in DOMAIN PERMISSIONS : can(role, p)} = PermissionsOf(role) \cap DOMAIN PERMISSIONS
  BY RoleGrants DEF Grants, can

LEMMA HelpersHaveRoles == HelpersHaveTheirRoles
  <1>1. /\ DOMAIN PERMISSIONS =
              {"read", "write", "delete", "export", "admin", "billing", "impersonate", "sudo"}
        /\ DOMAIN default_roles = {"owner", "admin", "billing", "member", "viewer"}
        /\ default_roles["owner"] = DOMAIN PERMISSIONS
        /\ default_roles["admin"] = {"read", "write", "delete", "export", "admin", "billing"}
        /\ default_roles["member"] = {"read", "write"}
        /\ default_roles["viewer"] = {"read"}
    BY DEF PERMISSIONS, default_roles
  <1>2. \A x \in {"owner", "admin", "viewer", "system", "anonymous"} : x # NoValue
    BY TestKitAssumption
  <1>3. /\ asOwner("acme", "u").role = "owner" /\ asAdmin("acme", "u").role = "admin"
        /\ asViewer("acme", "u").role = "viewer" /\ withTenant("acme").role = "member"
        /\ asSystemIdentity("acme").role = "system" /\ asAnonymous("acme").role = "anonymous"
    BY <1>2 DEF asOwner, asAdmin, asViewer, asSystemIdentity, asAnonymous, withTenant,
                withContext, withTenantContext, createTenantStore
  <1>4. withTenantContext("acme", NoValue, NoValue) = withTenant("acme")
    BY DEF withTenantContext, createTenantStore, withTenant, withContext
  <1>5. /\ PermissionsOf("owner") = default_roles["owner"]
        /\ PermissionsOf("admin") = default_roles["admin"]
        /\ PermissionsOf("viewer") = default_roles["viewer"]
        /\ PermissionsOf("member") = default_roles["member"]
        /\ PermissionsOf("system") = {} /\ PermissionsOf("anonymous") = {}
    BY <1>1 DEF PermissionsOf
  <1> DEFINE May(x) == {p \in DOMAIN PERMISSIONS : can(x.role, p)}
  <1>6. \A x : May(x) = PermissionsOf(x.role) \cap DOMAIN PERMISSIONS BY MayIs
  <1> HIDE DEF May
  <1>7. May(asOwner("acme", "u")) = DOMAIN PERMISSIONS BY <1>1, <1>3, <1>5, <1>6
  <1>8. May(asAdmin("acme", "u")) = DOMAIN PERMISSIONS \ {"sudo", "impersonate"}
    BY <1>1, <1>3, <1>5, <1>6
  <1>9. May(asViewer("acme", "u")) = {"read"} BY <1>1, <1>3, <1>5, <1>6
  <1>10. May(withTenant("acme")) = {"read", "write"} BY <1>1, <1>3, <1>5, <1>6
  <1>11. \A s \in {asSystemIdentity("acme"), asAnonymous("acme")} :
            May(s) = {} /\ \A p \in DOMAIN PERMISSIONS : check_by_name(s.role, p) = Failure
    BY <1>1, <1>3, <1>5, <1>6 DEF check_by_name
  <1>12. QED BY <1>4, <1>7, <1>8, <1>9, <1>10, <1>11 DEF HelpersHaveTheirRoles, May

(***************************************************************************)
(* A test can rely on the assertions and on the contexts, with a ledger of *)
(* any length: the ledger is in the order of time unless the clock was     *)
(* set, and the assertions agree with each other about it.  On the ledgers *)
(* that two transactions write, each pattern is accepted for its own       *)
(* transaction only; on the sample ledgers that no transaction writes, for *)
(* every outcome that stands in them.  The roles are what the helpers are  *)
(* named for (ledger-assert.ts, tenant-context.ts, index.ts).              *)
(***************************************************************************)
THEOREM AssertionsHold == KitSpec => []AssertionsAreSound
  <1>1. KitInv => AssertionsAreSound
    <2>1. KitInv => ChronologicalUnlessRewound BY DEF KitInv, LedgerInv, ChronologicalUnlessRewound
    <2>2. KitInv => AssertionsAgree BY AssertionsDoAgree DEF KitInv
    <2>3. QED BY <2>1, <2>2, PatternsTell, HelpersHaveRoles DEF AssertionsAreSound
  <1>2. QED BY <1>1, KitInvariant, PTL

=============================================================================
