-------------------------------- MODULE MCApp --------------------------------
(* Two creators and files, two calls of loadAll, two messages of a connection. *)
EXTENDS App

MCSymmetry ==
    Permutations(Creators) \cup Permutations(Loaders) \cup Permutations(Messages)
      \cup Permutations(Rooms) \cup Permutations(Connections)

MCPaths == <<"package.json", "src/index.ts">>

\* store needs the payment service, which two plugins offer; left and right need each
\* other's services; up and down name each other.
stripe == definePlugin("stripe", {}, <<"payment", "refunds">>)
payfast == definePlugin("payfast", {}, <<"payment">>)
store == definePlugin("store", {<<"payment">>}, <<"orders">>)
bare == definePlugin("bare", {}, <<>>)
left == definePlugin("left", {<<"right", "r">>}, <<"l">>)
right == definePlugin("right", {<<"left", "l">>}, <<"r">>)
up == definePlugin("up", {<<"down">>}, <<"u">>)
down == definePlugin("down", {<<"up">>}, <<"d">>)

MCPluginDefinitions == {stripe, payfast, store, bare, left, right, up, down}
MCPluginLists == {<<>>, <<bare>>, <<stripe, payfast, store>>, <<payfast, store, bare>>, <<left, right>>, <<up, down>>}

MCBootConfigs ==
    LET finance == [baseCurrency |-> "USD"]
        tenancy == [strategy |-> "column"]
        auth == [provider |-> "internal"]
    IN  { [modules |-> {"db"}, sections |-> s] :
            s \in { [auth |-> auth], [auth |-> auth @@ [jwtSecret |-> "empty"]],
                    [auth |-> auth @@ [jwtSecret |-> "text"]],
                    [ledger |-> [mode |-> "atomic"]], [ledger |-> [mode |-> "atomic"], tenancy |-> tenancy],
                    [governance |-> [allowSudo |-> "true", auditAll |-> "false"]],
                    [environment |-> [dryRun |-> "true"]],
                    [commerce |-> [invoicing |-> "auto"]],
                    [commerce |-> [invoicing |-> "auto"], finance |-> finance] } }

=============================================================================
