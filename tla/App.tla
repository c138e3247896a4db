--------------------------------- MODULE App ---------------------------------
(***************************************************************************)
(* The life of an application: the CLI writes the project (Cli, Scaffold), *)
(* on a server it validates its configuration (Config), then loads plugins *)
(* (Plugins), then serves socket messages (Sockets).  Each part starts     *)
(* when the one before it succeeded.  The project and the server are       *)
(* different machines, so that a behaviour is about one of the two.        *)
(***************************************************************************)
EXTENDS Cli, Plugins, Sockets

CONSTANT BootConfigs    \* the configurations that intellibiz.config.ts may hold

ASSUME AppAssumption ==
    \A c \in BootConfigs : c = [modules |-> c.modules, sections |-> c.sections]

VARIABLES
    phase,      \* "create", or on the server "boot", "load", "serve", "down"
    isProduction, \* NODE_ENV is production
    running,    \* the configuration: what defineConfig returned
    mutated     \* the application assigned to a nested field of it (history)

appVars == <<phase, isProduction, running, mutated>>
vars == <<creator, disk, container, loaded, loader, rooms, connected, socket,
          phase, isProduction, running, mutated>>

TypeOK ==
    /\ CliTypeOK /\ PluginTypeOK /\ SocketTypeOK
    /\ phase \in {"create", "boot", "load", "serve", "down"}
    /\ isProduction \in BOOLEAN /\ mutated \in BOOLEAN

Init ==
    /\ CliInit /\ PluginInit /\ SocketInit
    /\ phase \in {"create", "boot"}
    /\ isProduction \in BOOLEAN
    /\ running = NoValue
    /\ mutated = FALSE
    \* Of the machine that the behaviour is not about the start is one state.
    /\ phase = "create" => /\ ~isProduction
                           /\ \A l \in Loaders : loader[l].list = <<>>
                           /\ \A m, n \in Messages : Conn(m) = Conn(n)
    /\ phase = "boot" => \A p \in Creators : ~creator[p].force

\* The configuration file calls defineConfig; an error ends the program.
Boot ==
    /\ phase = "boot"
    /\ \E c \in BootConfigs :
         LET resolved == defineConfig(c, isProduction)
         IN  /\ running' = resolved
             /\ phase' = IF Throws(resolved) THEN "down" ELSE "load"
    /\ UNCHANGED <<isProduction, mutated>>

\* Object.freeze is shallow: an assignment to a field of a section takes effect, one to
\* a section itself throws.
MutateConfig ==
    /\ phase \in {"load", "serve"} /\ ~mutated
    /\ \E s \in DOMAIN running.sections : \E f \in DOMAIN running.sections[s] :
         \E v \in SectionSchema[s][f].accepts :
            running' = [running EXCEPT !.sections[s][f] = v]
    /\ mutated' = TRUE
    /\ UNCHANGED <<phase, isProduction>>

\* Every call of loadAll returned: the application listens.
Serve ==
    /\ phase = "load"
    /\ \A l \in Loaders : loader[l].result = "loaded"
    /\ phase' = "serve"
    /\ UNCHANGED <<isProduction, running, mutated>>

CliStep == phase = "create" /\ CliNext /\ UNCHANGED <<pluginVars, socketVars, appVars>>
PluginStep == phase = "load" /\ PluginNext /\ UNCHANGED <<cliVars, socketVars, appVars>>
SocketStep == phase = "serve" /\ SocketNext /\ UNCHANGED <<cliVars, pluginVars, appVars>>
AppStep == (Boot \/ MutateConfig \/ Serve) /\ UNCHANGED <<cliVars, pluginVars, socketVars>>

Next == CliStep \/ AppStep \/ PluginStep \/ SocketStep

Spec == Init /\ [][Next]_vars

-----------------------------------------------------------------------------
(* Properties *)

(***************************************************************************)
(* An application that got past defineConfig runs with a configuration     *)
(* that is safe, as long as nothing assigns to its nested fields: tokens   *)
(* are signed with a secret, an atomic ledger has tenants, the bypass is   *)
(* audited, nothing is a dry run in production.  What rests on whole       *)
(* sections stays true whatever is assigned: commerce has a finance part.  *)
(***************************************************************************)
RunningConfigIsSafe ==
    phase \in {"load", "serve"} =>
        /\ Has(running, "commerce") => Has(running, "finance")
        /\ ~mutated =>
             /\ Get(running, "auth", "provider") = "internal" => Get(running, "auth", "jwtSecret") = "text"
             /\ Get(running, "ledger", "mode") = "atomic" => Has(running, "tenancy")
             /\ Get(running, "governance", "allowSudo") = "true" => Get(running, "governance", "auditAll") = "true"
             /\ isProduction => Get(running, "environment", "dryRun") # "true"

(***************************************************************************)
(* The configuration is safe while the application runs, and accepting it  *)
(* again would change nothing.                                             *)
(***************************************************************************)
ConfigIsSafe == RunningConfigIsSafe /\ ResolvedConfigsAreStable

(***************************************************************************)
(* Plugins are loaded wholly, once, after what they depend on, or not at   *)
(* all, with calls that overlap, fail and are repeated.                    *)
(***************************************************************************)
LoadingIsSound == TypeOK /\ LoadedPluginsAreComplete /\ CyclesNeverLoad

=============================================================================
