------------------------------- MODULE Config --------------------------------
(***************************************************************************)
(* Boot-time configuration of packages/core (src/config): the schema, the  *)
(* dependency rules, the startup warnings and defineConfig.                *)
(*                                                                         *)
(* A configuration is [modules, sections]: the modules it lists (NoValue   *)
(* if it lists none) and, for each section it gives, the fields it sets.   *)
(* A nested optional object is a section of its own, "commerce.ledger".  A *)
(* value is the name of its kind: "positive" for a positive integer,       *)
(* "text" for a non-empty string that means nothing to the schema.         *)
(***************************************************************************)
EXTENDS Integers, Sequences, FiniteSets, TLC

CONSTANT NoValue

-----------------------------------------------------------------------------
(* The schema *)

\* A field accepts some values; one without a default is required or optional.
Enum(values, default) == [accepts |-> values, default |-> default, required |-> FALSE]
Required(values) == [accepts |-> values, default |-> NoValue, required |-> TRUE]
Flag(default) == Enum({"true", "false"}, default)
Text(default) == Enum({"text", "empty", default}, default)
Count(default) == Enum({"positive", "zero", default}, default)
Positive == Enum({"positive"}, "positive")

TenancySchema ==
    [ strategy |-> Required({"column", "schema"}),
      key      |-> Enum({"text", "org_id"}, "org_id"),
      type     |-> Enum({"uuid", "string"}, "uuid"),
      strict   |-> Flag("true"),
      resolve  |-> Enum({"function"}, NoValue) ]

AuthSchema ==
    [ provider  |-> Required({"internal", "external"}),
      jwtSecret |-> Enum({"text", "empty"}, NoValue),
      algorithm |-> Enum({"HS256", "RS256"}, "HS256"),
      tokenExpiry        |-> Text("24h"),
      refreshTokenExpiry |-> Text("30d") ]

FinanceSchema ==
    [ baseCurrency |-> Required({"USD"}),
      rounding     |-> Enum({"bankers", "half-up", "truncate"}, "bankers") ]

FinanceTaxationSchema ==
    [ provider |-> Enum({"internal", "external"}, "internal"), autoCalculate |-> Flag("true") ]

ExchangeRatesSchema ==
    [ provider     |-> Enum({"internal", "openexchangerates", "fixer"}, "internal"),
      syncInterval |-> Enum({"hourly", "daily", "manual"}, "hourly") ]

CommerceSchema == [ invoicing |-> Enum({"auto", "manual"}, "manual") ]

LedgerMode == Enum({"atomic", "background"}, "atomic")

WebhookDedupSchema ==
    [ provider |-> Enum({"memory", "redis"}, "memory"), ttlHours |-> Positive ]

LedgerSchema ==
    [ mode      |-> LedgerMode,
      sync      |-> Text("db"),
      retention |-> Enum({"7y", "90d"}, "7y"),
      signatureAlgorithm |-> Enum({"ed25519", "sha256"}, "sha256") ]

GovernanceSchema ==
    [ auditAll |-> Flag("true"), allowSudo |-> Flag("false"), excludeSensitive |-> Text("password") ]

DatabaseSchema ==
    [ url |-> Enum({"url"}, NoValue), queryTimeout |-> Positive, defaultLimit |-> Positive ]

PoolSchema == [ min |-> Count("positive"), max |-> Positive ]

EnvironmentSchema ==
    [ dryRun |-> Flag("false"), trace |-> Flag("true"),
      logLevel |-> Enum({"debug", "info", "warn", "error", "silent"}, "info") ]

EventBusSchema ==
    [ provider |-> Enum({"internal", "redis", "nats"}, "internal"),
      maxRetries |-> Count("positive"), deadLetterRetention |-> Text("7d") ]

InventorySchema ==
    [ mode |-> Enum({"strict", "lenient"}, "strict"),
      lowStockAlert |-> Count("positive"), reservationTtl |-> Text("15m") ]

OverridesSchema ==
    [ taxCalculation |-> Flag("false"), autoScaffold |-> Flag("true"), path |-> Text("./intellibiz") ]

TaxationSchema ==
    [ provider |-> Enum({"internal", "external"}, "internal"), defaultRate |-> Enum({"zero", "rate"}, "zero") ]

ConfigModules == {"commerce", "finance", "identity", "legal", "db", "inventory", "logistics"}

SectionSchema ==
    [s \in {"tenancy", "auth", "finance", "commerce", "ledger", "governance", "database",
            "inventory", "environment", "eventBus", "taxation", "overrides", "finance.taxation",
            "finance.exchangeRates", "commerce.ledger", "commerce.webhookDedup", "database.pool"} |->
        CASE s = "tenancy"     -> TenancySchema
          [] s = "auth"        -> AuthSchema
          [] s = "finance"     -> FinanceSchema
          [] s = "commerce"    -> CommerceSchema
          [] s = "ledger"      -> LedgerSchema
          [] s = "governance"  -> GovernanceSchema
          [] s = "database"    -> DatabaseSchema
          [] s = "inventory"   -> InventorySchema
          [] s = "environment" -> EnvironmentSchema
          [] s = "eventBus"    -> EventBusSchema
          [] s = "taxation"    -> TaxationSchema
          [] s = "overrides"   -> OverridesSchema
          [] s = "finance.taxation"      -> FinanceTaxationSchema
          [] s = "finance.exchangeRates" -> ExchangeRatesSchema
          [] s = "commerce.ledger"       -> [mode |-> LedgerMode]
          [] s = "commerce.webhookDedup" -> WebhookDedupSchema
          [] s = "database.pool"         -> PoolSchema]

\* A value that is missing is none that a field may have.
ASSUME ConfigAssumption ==
    \A s \in DOMAIN SectionSchema : \A f \in DOMAIN SectionSchema[s] :
        NoValue \notin SectionSchema[s][f].accepts

\* The schema rejects a field: a value it does not accept, or a required one missing.
Rejects(fields, given, f) ==
    IF f \in DOMAIN given THEN given[f] \notin fields[f].accepts ELSE fields[f].required

\* Defaults are filled in, unknown fields and sections are dropped.
Filled(fields, given) ==
    [f \in {g \in DOMAIN fields : g \in DOMAIN given \/ fields[g].default # NoValue} |->
        IF f \in DOMAIN given THEN given[f] ELSE fields[f].default]

\* The errors that end the program at boot, instead of a configuration.
ConfigValidationError == [code |-> "CONFIG_VALIDATION_ERROR"]
ConfigDependencyError == [code |-> "CONFIG_DEPENDENCY_ERROR"]
Throws(result) == result \in {ConfigValidationError, ConfigDependencyError}

safeParse(config) ==
    LET given == DOMAIN config.sections \cap DOMAIN SectionSchema
    IN  IF \/ config.modules # NoValue /\ ~(config.modules \subseteq ConfigModules)
           \/ \E s \in given : \E f \in DOMAIN SectionSchema[s] :
                Rejects(SectionSchema[s], config.sections[s], f)
        THEN ConfigValidationError
        ELSE [config EXCEPT !.sections =
                [s \in given |-> Filled(SectionSchema[s], config.sections[s])]]

-----------------------------------------------------------------------------
(* Dependency rules and warnings *)

\* Optional chaining: config?.section?.field.
Get(config, section, field) ==
    IF section \in DOMAIN config.sections /\ field \in DOMAIN config.sections[section]
    THEN config.sections[section][field] ELSE NoValue

Has(config, section) == section \in DOMAIN config.sections

\* A plausible bug: an empty secret passes for one.
DEPENDENCY_RULES_EmptySecret(c, production) ==
    \/ Get(c, "auth", "provider") = "internal" /\ Get(c, "auth", "jwtSecret") = NoValue
    \/ Has(c, "commerce") /\ Get(c, "finance", "baseCurrency") = NoValue

\* Some rule is violated.
DEPENDENCY_RULES(c, production) ==
    \/ Get(c, "auth", "provider") = "internal" /\ Get(c, "auth", "jwtSecret") \in {NoValue, "empty"}
    \/ Get(c, "ledger", "mode") = "atomic" /\ ~Has(c, "tenancy")
    \/ Get(c, "governance", "allowSudo") = "true" /\ Get(c, "governance", "auditAll") = "false"
    \/ Get(c, "environment", "dryRun") = "true" /\ production
    \/ Has(c, "commerce") /\ Get(c, "finance", "baseCurrency") = NoValue

emitStartupWarnings(c, production) ==
    { w \in {"sudo", "dryRun", "no tenancy"} :
        \/ w = "sudo" /\ Get(c, "governance", "allowSudo") = "true"
        \/ w = "dryRun" /\ Get(c, "environment", "dryRun") = "true"
        \/ w = "no tenancy" /\ ~Has(c, "tenancy") /\ production }

defineConfig(config, production) ==
    LET resolved == safeParse(config)
    IN  IF Throws(resolved) THEN resolved
        ELSE IF DEPENDENCY_RULES(resolved, production) THEN ConfigDependencyError
        ELSE resolved

-----------------------------------------------------------------------------
(* Properties *)

\* A section with one field besides what it requires, for every section, field and value.
SingleField(s, f, v) ==
    LET required == [g \in {h \in DOMAIN SectionSchema[s] : SectionSchema[s][h].required} |->
                        CHOOSE x \in SectionSchema[s][g].accepts : TRUE]
    IN  (f :> v) @@ required

SomeConfigs ==
    UNION { UNION { { [modules |-> {"db"}, sections |-> (s :> SingleField(s, f, v))] :
                        v \in SectionSchema[s][f].accepts \cup {"nonsense"} }
                    : f \in DOMAIN SectionSchema[s] }
            : s \in DOMAIN SectionSchema }

\* What defineConfig returns for c it accepts again, unchanged.
IsStable(c, production) ==
    LET resolved == defineConfig(c, production)
    IN  ~Throws(resolved) => defineConfig(resolved, production) = resolved

=============================================================================
