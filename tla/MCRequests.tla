----------------------------- MODULE MCRequests -----------------------------
(* Small instances of Requests: r1 arrives with every input, r2 beside it. *)
EXTENDS Requests

CONSTANTS r1, r2

Claims(sub, tenant, roles, role) ==
    [sub |-> sub, tenant_id |-> tenant, roles |-> roles, role |-> role]

Bob == Claims("bob", "beta", <<>>, "viewer")

Tokens ==
    { NoValue, BadToken,
      Claims("ann", "acme", <<"billing", "owner">>, NoValue),
      Bob,
      Claims("eve", "beta", <<>>, NoValue),
      Claims("kim", "beta", <<"auditor">>, "owner"),
      Claims("zoe", NoValue, <<"owner">>, NoValue) }

Site == <<"example", "com">>
Shop == <<"shop", "example", "com">>

\* The empty one is a request without a Host header.
Hosts == {<<>>, Shop, <<"localhost", "example", "com">>}
NoTenantHosts == {Site, <<"www", "example", "com">>, <<"127", "0", "0", "1">>}

Request(header, token, host, method, body, route) ==
    [ tenantHeader |-> header, userHeader |-> NoValue, token |-> token,
      host |-> host, urlHost |-> Shop,
      method |-> method, body |-> body, route |-> route, strict |-> FALSE ]

Identities ==
    { Request(NoValue, t, Site, "GET", NoValue, "plain") : t \in Tokens }
    \cup { Request("acme", t, Site, "GET", NoValue, "plain") : t \in {BadToken, Bob} }
    \cup { Request(NoValue, BadToken, host, "GET", NoValue, "plain") : host \in Hosts }

Routes ==
    { Request("acme", NoValue, Site, m, b, rt) :
        m \in {"GET", "POST", "PATCH"}, b \in {"malformed", "invalid", "valid"}, rt \in {"schema"} }
    \cup { Request("acme", NoValue, Site, "POST", "valid", "inline") }

Beside == Request("beta", NoValue, Site, "GET", NoValue, "inline")

Strictly ==
    { [Request(NoValue, NoValue, host, "GET", NoValue, "plain") EXCEPT !.strict = TRUE] :
        host \in NoTenantHosts \cup {Shop} }
    \cup { [Request(NoValue, Bob, Site, "GET", NoValue, "plain") EXCEPT !.strict = TRUE] }

MCInputsOf == (r1 :> Identities \cup Routes \cup Strictly) @@ (r2 :> {Beside})

Active == <<"status", "active">>
High == <<"total", "high">>

Select(text, values) ==
    [ select |-> TRUE, mentionsOrgId |-> FALSE, text |-> text, values |-> values,
      arms |-> {{"main"}}, end |-> "main" ]

Union == [ Select(<<From("main"), From("second")>>, <<Value(1)>>) EXCEPT
             !.arms = {{"main"}, {"second"}}, !.end = "second" ]

\* FROM (SELECT ... WHERE ...) LIMIT ...
Derived ==
    [ Select(<<From("main"), From("derived"), Where("derived", <<{Active}>>), OrderBy("main")>>, <<>>)
        EXCEPT !.arms = {{"main", "derived"}} ]

\* A subquery in the list of columns, and the word LIMIT in a literal there.
Column == Select(<<From("column"), Where("column", <<{Active}>>), From("main"), OrderBy("main")>>, <<>>)
Literal == Select(<<OrderBy("literal"), From("main")>>, <<>>)

TwoValues == Compile(<<Value(1), Value(2)>>)
Joined == join(<<Compile(<<Value(2)>>), Compile(<<Value(4), Value(5)>>)>>, Compile(<<Value(3)>>))

MCStatements ==
    { Select(<<From("main"), Where("main", <<{Active}>>)>>, <<Fragment(TwoValues), Value(3)>>),
      Select(<<From("main"), Where("main", <<{Active}, {High}>>), OrderBy("main")>>,
             <<Value(1), Fragment(Joined)>>),
      [Select(<<From("main"), Where("main", <<{OrgIs("acme")}>>)>>, <<>>)
         EXCEPT !.mentionsOrgId = TRUE],
      Union, Derived, Column }

Update == [Select(<<Where("main", <<{Active}>>)>>, <<Value(1)>>) EXCEPT !.select = FALSE]

MCStatementsOf == (r1 :> MCStatements) @@ (r2 :> {Update, Literal})

MCResultsOf == (r1 :> {"undefined", "string", "object"}) @@ (r2 :> {"string"})

MCErrorsOf ==
    (r1 :> {IntellibizError(418), DomainError(404), PlainError}) @@ (r2 :> {PlainError})

MCPermissionSets == {{"read", "billing"}, {"write", "refund"}}

MCMaxOps == (r1 :> 2) @@ (r2 :> 1)

=============================================================================
