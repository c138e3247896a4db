------------------------------ MODULE Scaffold -------------------------------
(***************************************************************************)
(* What the CLI generates (packages/cli/src/scaffold.ts): the names of     *)
(* files and identifiers, the options of a project, and of the project the *)
(* parts that have to fit together: its files and what they import, its    *)
(* dependencies and scripts, its routes, environment and configuration.    *)
(* The text of the files is left out.                                      *)
(*                                                                         *)
(* A character of a name stands for its class: "a", "A" and "1" for lower  *)
(* case, upper case and digits, "!" for what no identifier may hold.       *)
(***************************************************************************)
EXTENDS Config, SequencesExt

CONSTANTS
    Failure,        \* what an operator returns where the code throws
    BooleanTrue     \* the boolean true where the code has a string or a boolean

-----------------------------------------------------------------------------
(* Names *)

\* The characters of which a name is made.
Characters == {"a", "A", "1", "-", "_", " ", "!"}

\* A failure is no result.
ASSUME ScaffoldAssumption ==
    /\ Failure \notin [file : Seq(Characters), exportName : Seq(Characters), schemaName : Seq(Characters)]
    /\ Failure \notin [file : Seq(Characters), key : Seq(Characters)]

Alnum == {"a", "A", "1"}
Separators == {"-", "_", " "}

ToUpper(ch) == IF ch = "a" THEN "A" ELSE ch
ToLower(ch) == IF ch = "A" THEN "a" ELSE ch

\* The concatenation of F(i) over the positions of s.
Rewrite(s, F(_)) == FlattenSeq([i \in DOMAIN s |-> F(i)])

\* s without its longest prefix, or without its longest suffix, of these characters.
DropWhile(s, chars) ==
    LET keep == {i \in DOMAIN s : s[i] \notin chars}
    IN  IF keep = {} THEN <<>> ELSE SubSeq(s, Min(keep), Len(s))

DropEnd(s, chars) == Reverse(DropWhile(Reverse(s), chars))

trim(s) == DropEnd(DropWhile(s, {" "}), {" "})

\* Separators before a letter or a digit go, and that character is capitalised;
\* whatever cannot begin an identifier goes from the front.
toCamelCase(name) ==
    LET t == trim(name)
        After(i) == {k \in (i + 1)..Len(t) : t[k] \notin Separators}
        BeforeAlnum(i) == After(i) # {} /\ t[Min(After(i))] \in Alnum
        F(i) == IF t[i] \in Separators THEN IF BeforeAlnum(i) THEN <<>> ELSE <<t[i]>>
                ELSE IF i > 1 /\ t[i - 1] \in Separators THEN <<ToUpper(t[i])>>
                ELSE <<t[i]>>
    IN  DropWhile(Rewrite(t, F), {"1", "-", " ", "!"})

toPascalCase(name) ==
    LET camel == toCamelCase(name)
    IN  IF camel = <<>> THEN <<>> ELSE <<ToUpper(Head(camel))>> \o Tail(camel)

toKebabCase(name) ==
    LET t == trim(name)
        Split(i) == IF t[i] = "A" /\ i > 1 /\ t[i - 1] \in {"a", "1"} THEN <<"-", "A">> ELSE <<t[i]>>
        split == Rewrite(t, Split)
        Dash(i) == IF split[i] \in Separators THEN <<"-">>
                   ELSE IF split[i] \in Alnum THEN <<ToLower(split[i])>> ELSE <<>>
        dashed == Rewrite(split, Dash)
        Single(i) == IF dashed[i] = "-" /\ i > 1 /\ dashed[i - 1] = "-" THEN <<>> ELSE <<dashed[i]>>
    IN  DropEnd(DropWhile(Rewrite(dashed, Single), {"-"}), {"-"})

scaffoldAction(name) ==
    IF toKebabCase(name) = <<>> \/ toCamelCase(name) = <<>> THEN Failure
    ELSE [ file |-> toKebabCase(name), exportName |-> toCamelCase(name),
           schemaName |-> toPascalCase(name) ]

scaffoldOverride(name) ==
    IF toKebabCase(name) = <<>> THEN Failure
    ELSE [file |-> toKebabCase(name), key |-> toCamelCase(toKebabCase(name))]

scaffoldPlugin(name) == IF toKebabCase(name) = <<>> THEN Failure ELSE toKebabCase(name)

\* A migration without a usable name is called "migration".
scaffoldMigration(name, now) ==
    <<now, IF toKebabCase(name) = <<>> THEN <<"a">> ELSE toKebabCase(name)>>

-----------------------------------------------------------------------------
(* Options *)

MODULE_NAMES == {"commerce", "finance", "identity", "db", "legal", "logistics"}

Preset(modules, all) == [modules |-> modules, tests |-> all, docker |-> all, ci |-> all]

SCAFFOLD_TEMPLATES ==
    [ minimal |-> Preset({}, FALSE),
      api     |-> Preset({"db", "identity"}, TRUE),
      store   |-> Preset({"commerce", "finance", "db", "identity"}, TRUE) ]

OptionNames == {"modules", "tests", "docker", "ci"}

\* Options are a record of those given: template, modules, tests, docker, ci.
resolveScaffoldOptions(options) ==
    LET template == IF "template" \in DOMAIN options THEN options.template ELSE "store"
        given == [o \in OptionNames |-> IF o \in DOMAIN options THEN options[o]
                                        ELSE SCAFFOLD_TEMPLATES[template][o]]
    IN  [given EXCEPT !.modules = @ \cap MODULE_NAMES]

Restriction(f, S) == [x \in DOMAIN f \cap S |-> f[x]]

\* The value of "--flag=".
EmptyText == ""

OptionFlags == {"template", "modules", "features"}

\* The words of a value between its commas.
ListOf(value) ==
    CASE value = EmptyText        -> {}
      [] value = "commerce,other" -> {"commerce", "other"}
      [] OTHER                    -> {value}

\* Flags are a record of the values of those given.
optionsFromFlags(flags) ==
    LET template == IF "template" \in DOMAIN flags THEN flags.template ELSE EmptyText
        modules == IF "modules" \in DOMAIN flags THEN ListOf(flags.modules) ELSE {}
        features == IF "features" \in DOMAIN flags THEN ListOf(flags.features) ELSE {}
        known == [ template |-> template,          modules |-> modules \cap MODULE_NAMES,
                   tests |-> "tests" \in features, docker |-> "docker" \in features,
                   ci    |-> "ci" \in features ]
    IN  Restriction(known,
            {o \in DOMAIN known :
                \/ o = "template" /\ template \in DOMAIN SCAFFOLD_TEMPLATES
                \/ o = "modules" /\ "modules" \in DOMAIN flags
                \/ o \in {"tests", "docker", "ci"} /\ "features" \in DOMAIN flags})

NonEmpty(flags) == {f \in DOMAIN flags : flags[f] # EmptyText}

\* intellibiz init leaves out flags without a value (toOptions), create-intellibiz
\* passes them on.
initOptions(flags) == optionsFromFlags(Restriction(flags, NonEmpty(flags)))
createOptions(flags) == optionsFromFlags(flags)

-----------------------------------------------------------------------------
(* Command lines.  An argument "--flag=value" is [kind : "pair"], "--flag" is *)
(* "long", "-y" for the flag yes and the like "short", and what begins with   *)
(* no dash a "word".                                                          *)

Switches == {"yes", "force", "help"}

\* A word after a flag that is no switch is the flag's value, unless it is empty.
IsValue(argv, i) ==
    /\ i \in DOMAIN argv /\ argv[i].kind = "word" /\ argv[i].value # EmptyText
    /\ i > 1 /\ argv[i - 1].kind = "long" /\ argv[i - 1].flag \notin Switches

\* Where flags are given; what else begins with one dash is ignored.
FlagPlaces(argv) ==
    {i \in DOMAIN argv : /\ argv[i].kind # "word"
                         /\ argv[i].kind = "short" => argv[i].flag \in Switches}

PlacesOf(argv, f) == {i \in FlagPlaces(argv) : argv[i].flag = f}

\* A flag without a value is the boolean true, which is not the string of "=true".
ReadAt(argv, i) ==
    IF argv[i].kind = "pair" THEN argv[i].value
    ELSE IF IsValue(argv, i + 1) THEN argv[i + 1].value ELSE BooleanTrue

\* The last occurrence of a flag counts.
parseArgs(argv) ==
    [ positional |-> FlattenSeq([i \in DOMAIN argv |->
                        IF argv[i].kind = "word" /\ ~IsValue(argv, i) THEN <<argv[i]>> ELSE <<>>]),
      flags      |-> [f \in {argv[i].flag : i \in FlagPlaces(argv)} |->
                        ReadAt(argv, Max(PlacesOf(argv, f)))] ]

\* The options among the flags that are strings.
Texts(flags) ==
    Restriction(flags, {f \in OptionFlags \cap DOMAIN flags : flags[f] # BooleanTrue})

\* What main of create-intellibiz makes of its command line: a switch holds if it is
\* the boolean, and options are asked for unless some are given.
createRun(argv) ==
    LET flags == parseArgs(argv).flags
        Holds(s) == s \in DOMAIN flags /\ flags[s] = BooleanTrue
    IN  [ help |-> Holds("help"), yes |-> Holds("yes"), force |-> Holds("force"),
          asks |-> ~Holds("yes") /\ NonEmpty(Texts(flags)) = {},
          options |-> createOptions(Texts(flags)) ]

\* What intellibiz init makes of it.  Its switches are declared without an alias: citty,
\* which reads the command line, takes them only where they are written out, with "=" too.
initRun(argv) ==
    LET flags == parseArgs(argv).flags
        Holds(s) == \E i \in PlacesOf(argv, s) :
                       \/ argv[i].kind = "long"
                       \/ argv[i].kind = "pair" /\ argv[i].value \notin {EmptyText, "false"}
    IN  [ yes |-> Holds("yes"), force |-> Holds("force"),
          asks |-> ~Holds("yes") /\ NonEmpty(Texts(flags)) = {},
          options |-> initOptions(Texts(flags)) ]

-----------------------------------------------------------------------------
(* The project; o are resolved options *)

Commerce(o) == "commerce" \in o.modules
Finance(o) == "finance" \in o.modules \/ Commerce(o)
Identity(o) == "identity" \in o.modules

\* What is generated under a condition.
Given(condition, S) == IF condition THEN S ELSE {}

dependencies(o) ==
    {"@hono/node-server", "intellibiz", "zod"} \cup Given(Commerce(o), {"@intellibiz/core"})

devDependencies(o) ==
    {"@types/node", "tsx", "typescript"} \cup
    Given(o.tests, {"@intellibiz/testing", "vitest"})

scripts(o) == {"dev", "start", "typecheck"} \cup Given(o.tests, {"test"})

files(o) ==
    {"package.json", "tsconfig.json", "intellibiz.config.ts", "src/index.ts",
     "src/actions/greet.ts", "README.md", ".gitignore", ".env.example"} \cup
    Given(Finance(o), {"src/actions/quote.ts"}) \cup
    Given(Identity(o), {"src/actions/whoami.ts"}) \cup
    Given(Commerce(o), {"src/types.ts", "src/payments/dev-provider.ts", "src/payments/register.ts",
                        "src/actions/create-order.ts", "src/webhooks/payment.ts"}) \cup
    Given(o.tests, {"tests/app.test.ts"}) \cup
    Given(o.docker, {"docker-compose.yml"}) \cup
    Given(o.ci, {".github/workflows/ci.yml"})

buildConfigSource(o) ==
    [ modules |-> o.modules,
      sections |->
        [s \in {"tenancy", "environment"} \cup
               Given(Identity(o), {"auth"}) \cup
               Given("finance" \in o.modules, {"finance"}) \cup
               Given(Commerce(o), {"commerce", "commerce.ledger", "commerce.webhookDedup"}) |->
            CASE s = "tenancy"     -> [strategy |-> "column", key |-> "org_id", type |-> "uuid", strict |-> "true"]
              [] s = "environment" -> [trace |-> "true", logLevel |-> "info"]
              [] s = "auth"        -> [provider |-> "internal", jwtSecret |-> "text"]
              [] s = "finance"     -> [baseCurrency |-> "USD", rounding |-> "bankers"]
              [] s = "commerce"    -> [invoicing |-> "auto"]
              [] s = "commerce.ledger"       -> [mode |-> "atomic"]
              [] s = "commerce.webhookDedup" -> [provider |-> "memory", ttlHours |-> "positive"]] ]

\* What a file imports: modules of the project, and names of packages.
From(package, names) == {<<package, n>> : n \in names}

buildEntrySource(o) ==
    [ local |-> {"src/actions/greet.ts"} \cup
                Given(Finance(o), {"src/actions/quote.ts"}) \cup
                Given(Commerce(o), {"src/actions/create-order.ts", "src/payments/register.ts",
                                    "src/webhooks/payment.ts"}) \cup
                Given(Identity(o), {"src/actions/whoami.ts"}),
      names |-> From("intellibiz", {"http"} \cup Given(Commerce(o), {"commerce"})),
      env   |-> {"PORT"},
      mounted |-> {"/", "/health", "/greet"} \cup
                  Given(Finance(o), {"/quote"}) \cup Given(Identity(o), {"/me"}) \cup
                  Given(Commerce(o), {"/orders", "/webhooks/payment"}),
      banner |-> {"/health", "/greet"} \cup
                 Given(Finance(o), {"/quote"}) \cup Given(Identity(o), {"/me"}) \cup
                 Given(Commerce(o), {"/orders", "/webhooks/payment"}) ]

Source(local, names, env) == [local |-> local, names |-> names, env |-> env]

Zod == From("zod", {"z"})

buildGreetAction == Source({}, From("intellibiz", {"defineAction"}) \cup Zod, {})
buildQuoteAction == Source({}, From("intellibiz", {"defineAction", "money"}) \cup Zod, {})
buildWhoamiAction == Source({}, From("intellibiz", {"defineAction"}), {})
buildEventRegistry == Source({}, From("@intellibiz/core", {"IntellibizEvents"}), {})

buildDevProvider ==
    Source({}, From("intellibiz", {"ChargeParams", "ChargeResult", "PaymentProvider", "RefundParams"}), {})

buildProviderRegistration == Source({"src/payments/dev-provider.ts"}, From("intellibiz", {"commerce"}), {})

buildCreateOrderAction ==
    Source({}, From("intellibiz", {"commerce", "defineAction", "money"}) \cup Zod, {})

buildWebhookHandler ==
    Source({}, From("intellibiz", {"commerce", "StripeProvider", "RequestContext"}),
           {"STRIPE_SECRET_KEY", "STRIPE_WEBHOOK_SECRET"})

buildTestSuite(o) ==
    Source({"src/actions/greet.ts"} \cup
           Given(Finance(o), {"src/actions/quote.ts"}) \cup
           Given(Commerce(o), {"src/actions/create-order.ts", "src/payments/register.ts"}),
           From("vitest", {"describe"}) \cup From("@intellibiz/testing", {"resetTestState", "withContext"}), {})

\* The database of docker-compose.yml is named after the project.
buildCompose(name) == name

\* The scripts that the workflow runs.
buildCiWorkflow == {"typecheck", "test"}

\* A plausible bug: the secret of the webhook is forgotten.
buildEnvExample_OneSecret(o) ==
    {"PORT", "JWT_SECRET"} \cup
    Given(Commerce(o), {"STRIPE_SECRET_KEY"}) \cup Given(o.docker, {"DATABASE_URL"})

buildEnvExample(o) ==
    {"PORT", "JWT_SECRET"} \cup
    Given(Commerce(o), {"STRIPE_SECRET_KEY", "STRIPE_WEBHOOK_SECRET"}) \cup
    Given(o.docker, {"DATABASE_URL"})

\* The database in the DATABASE_URL of .env.example.
EnvDatabase == "app"

buildReadme(o) ==
    [ routes |-> {"/", "/health", "/greet"} \cup
                 Given(Finance(o), {"/quote"}) \cup Given(Identity(o), {"/me"}) \cup
                 Given(Commerce(o), {"/orders", "/webhooks/payment"}),
      tried |-> {"/health"} \cup
                Given(Commerce(o) /\ o.tests, {"/greet", "/quote", "/orders"}),
      scripts |-> {"dev"} \cup Given(o.tests, {"test"}) ]

\* The source that is generated for a file of the project, where there is one.
SourceOf(o) ==
    [f \in {g \in files(o) : g \notin {"package.json", "tsconfig.json", "README.md", ".gitignore",
                ".env.example", "docker-compose.yml", ".github/workflows/ci.yml"}} |->
        CASE f = "intellibiz.config.ts" ->
               Source({}, From("intellibiz", {"defineConfig"}), Given(Identity(o), {"JWT_SECRET"}))
          [] f = "src/index.ts"                 -> buildEntrySource(o)
          [] f = "src/actions/greet.ts"         -> buildGreetAction
          [] f = "src/actions/quote.ts"         -> buildQuoteAction
          [] f = "src/actions/whoami.ts"        -> buildWhoamiAction
          [] f = "src/types.ts"                 -> buildEventRegistry
          [] f = "src/payments/dev-provider.ts" -> buildDevProvider
          [] f = "src/payments/register.ts"     -> buildProviderRegistration
          [] f = "src/actions/create-order.ts"  -> buildCreateOrderAction
          [] f = "src/webhooks/payment.ts"      -> buildWebhookHandler
          [] f = "tests/app.test.ts"            -> buildTestSuite(o)]

\* What packages/intellibiz exports, of the names above.
intellibizExports ==
    {"defineAction", "defineConfig", "http", "commerce", "money", "StripeProvider",
     "RequestContext", "ChargeParams", "ChargeResult", "PaymentProvider"}

-----------------------------------------------------------------------------
(* What the properties of Cli are about *)

ResolvedOptions == [modules : SUBSET MODULE_NAMES, tests : BOOLEAN, docker : BOOLEAN, ci : BOOLEAN]

Names == UNION {[1..n -> {"a", "A", "1", "-", " ", "!"}] : n \in 0..4}

\* What a file of a project with options o imports, reads and calls is there: generated,
\* declared, exported, listed.  One name is not exported: the type RefundParams of the
\* development payment provider.
FilesFit(o) ==
    LET entry == buildEntrySource(o)
        Missing(f) == {n \in SourceOf(o)[f].names :
                          n[1] = "intellibiz" /\ n[2] \notin intellibizExports}
    IN  /\ \A f \in DOMAIN SourceOf(o) :
             /\ SourceOf(o)[f].local \subseteq files(o)
             /\ {n[1] : n \in SourceOf(o)[f].names} \subseteq dependencies(o) \cup devDependencies(o)
             /\ SourceOf(o)[f].env \subseteq buildEnvExample(o)
             /\ Missing(f) # {} => f = "src/payments/dev-provider.ts"
        /\ entry.mounted = entry.banner \cup {"/"}
        /\ buildReadme(o).routes = entry.mounted
        /\ buildReadme(o).tried \subseteq entry.mounted
        /\ buildReadme(o).scripts \subseteq scripts(o)

\* The file and the export that are generated from a name have usable names.
IsUsable(n) ==
    LET k == toKebabCase(n)
        a == scaffoldAction(n)
    IN  /\ toKebabCase(k) = k
        /\ \A i \in DOMAIN k : k[i] \in {"a", "1", "-"}
        /\ k # <<>> => Head(k) # "-" /\ Last(k) # "-"
        /\ (a # Failure /\ "!" \notin ToSet(n) /\ Last(trim(n)) \notin Separators) =>
             Head(a.exportName) \in {"a", "A"} /\ ToSet(a.exportName) \subseteq Alnum
        /\ {"a", "A"} \cap ToSet(n) # {} => a # Failure /\ scaffoldOverride(n) # Failure

\* The arguments that name these flags and values.
ArgumentsOf(F, V) ==
    [kind : {"pair"}, flag : F, value : V] \cup [kind : {"long"}, flag : F]
      \cup [kind : {"short"}, flag : F] \cup [kind : {"word"}, value : V]

SomeFlags == {"template", "modules", "features", "yes", "force", "other"}
SomeValues == {"api", "commerce,other", "ci", "true", "shop", EmptyText}

\* A string is not the boolean.
ASSUME CommandAssumption == BooleanTrue \notin SomeValues

\* The arguments of command lines, and a few of them.
SomeArguments ==
    LET Pairs(f, V) == [kind : {"pair"}, flag : {f}, value : V]
    IN  Pairs("template", {"api", EmptyText}) \cup Pairs("modules", {"commerce,other", EmptyText})
          \cup Pairs("features", {"ci", EmptyText}) \cup Pairs("yes", {"true"}) \cup Pairs("force", {"true"})
          \cup [kind : {"long"}, flag : {"template", "modules", "yes", "force"}]
          \cup [kind : {"short"}, flag : {"yes", "force", "other"}]
          \cup [kind : {"word"}, value : {"shop", "api", EmptyText}]

FewArguments ==
    {x \in SomeArguments : /\ x.kind # "word" => x.flag \in {"template", "yes"}
                           /\ x.kind \in {"pair", "word"} => x.value # EmptyText}

ShortLists == UNION {[1..n -> SomeArguments] : n \in 0..3}
LongLists == [1..4 -> FewArguments]
ArgLists == ShortLists \cup LongLists

\* argv with "--flag value" at i written as "--flag=value".
Joined(argv, i) ==
    SubSeq(argv, 1, i - 1)
      \o <<[kind |-> "pair", flag |-> argv[i].flag, value |-> argv[i + 1].value]>>
      \o SubSeq(argv, i + 2, Len(argv))

\* A flag is read alike with "=" and without, and no word is read twice or dropped.
IsReadOnce(argv) ==
    LET read == parseArgs(argv)
        words == {i \in DOMAIN argv : argv[i].kind = "word"}
        values == {i \in words : IsValue(argv, i)}
    IN  /\ Len(read.positional) = Cardinality(words \ values)
        /\ \A i \in values :
             /\ parseArgs(Joined(argv, i - 1)) = read
             /\ \/ read.flags[argv[i - 1].flag] = argv[i].value
                \/ \E k \in PlacesOf(argv, argv[i - 1].flag) : k > i

\* A switch is given, and only in this way.
IsOnly(argv, s, kind) ==
    PlacesOf(argv, s) # {} /\ \A i \in PlacesOf(argv, s) : argv[i].kind = kind

\* Every switch is written out without "=", and no other flag has an empty value.
IsPlain(argv) ==
    \A i \in FlagPlaces(argv) :
        IF argv[i].flag \in Switches THEN argv[i].kind = "long" ELSE ReadAt(argv, i) # EmptyText

\* The two programs do the same on a plain command line; on others they read a switch
\* differently, once as written with one dash and once as written with "=".
ReadAlike(argv) ==
    LET c == createRun(argv)
        i == initRun(argv)
    IN  /\ IsPlain(argv) =>
             /\ c.force = i.force /\ c.asks = i.asks
             /\ resolveScaffoldOptions(c.options) = resolveScaffoldOptions(i.options)
        /\ \A s \in {"yes", "force"} :
             /\ IsOnly(argv, s, "short") => c[s] /\ ~i[s]
             /\ (IsOnly(argv, s, "pair") /\ \A k \in PlacesOf(argv, s) : argv[k].value = "true")
                  => ~c[s] /\ i[s]

=============================================================================
