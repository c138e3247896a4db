------------------------------- MODULE Plugins -------------------------------
(***************************************************************************)
(* The plugin registry of packages/core (src/plugin/registry.ts): the      *)
(* service container, the detection of circular dependencies and loadAll.  *)
(*                                                                         *)
(* A plugin is [name, dependencies, services]: the set of the keys it      *)
(* needs and the sequence of the services it contributes.  load runs       *)
(* without an await, so that it is one step; loadAll awaits between the    *)
(* plugins, where other calls of loadAll run.  Any factory may throw.      *)
(***************************************************************************)
EXTENDS Integers, Sequences, FiniteSets

CONSTANTS
    PluginDefinitions,
    Loaders,        \* calls of loadAll
    PluginLists,    \* the sequences of plugins that they may be given
    NoOwner

\* The registry knows a plugin by its name alone.
ASSUME PluginAssumption ==
    /\ \A list \in PluginLists : list \in Seq(PluginDefinitions)
    /\ \A p, q \in PluginDefinitions : p.name = q.name => p = q
    /\ \A p \in PluginDefinitions : p.services \in Seq({p.services[i] : i \in DOMAIN p.services})
    /\ NoOwner \notin {p.name : p \in PluginDefinitions}

VARIABLES
    container,  \* key -> the plugin whose instance it holds, or NoOwner
    loaded,     \* the names of the plugins that were loaded, in this order
    loader      \* the calls: [list, next, result]

pluginVars == <<container, loaded, loader>>

\* A copy of what the author gives, frozen; hooks and schema are left out.
definePlugin(name, dependencies, services) ==
    [name |-> name, dependencies |-> dependencies, services |-> services]

PluginNames == {p.name : p \in PluginDefinitions}
Services(p) == {p.services[i] : i \in DOMAIN p.services}
Namespaced(p, s) == <<p.name, s>>
Plain(s) == <<s>>

Keys == UNION {{Namespaced(p, s) : s \in Services(p)} \cup {Plain(s) : s \in Services(p)} :
                p \in PluginDefinitions}

\* The errors that loadAll rejects with.
PluginLoadError == "PLUGIN_LOAD_ERROR"
PluginCircularDependencyError == "PLUGIN_CIRCULAR_DEPENDENCY"

Results == {"idle", "loading", "loaded", PluginLoadError, PluginCircularDependencyError}

PluginTypeOK ==
    /\ container \in [Keys -> PluginNames \cup {NoOwner}]
    /\ loaded \in Seq(PluginNames)
    /\ loader \in [Loaders -> [list : PluginLists, next : Nat, result : Results]]
    /\ \A l \in Loaders : loader[l].result = "loading" => loader[l].next \in DOMAIN loader[l].list

PluginInit ==
    /\ container = [k \in Keys |-> NoOwner]
    /\ loaded = <<>>
    /\ loader \in [Loaders -> [list : PluginLists, next : {1}, result : {"idle"}]]

-----------------------------------------------------------------------------
(* The container *)

has(c, key) == key \in Keys /\ c[key] # NoOwner

\* The keys that a plugin is given: those it declared and that are registered.
sandboxedView(c, p) == {k \in p.dependencies : has(c, k)}

\* A plausible bug: a service that is registered already is replaced.
Taken_Never(c, key) == FALSE

\* register throws.
Taken(c, key) == has(c, key)

-----------------------------------------------------------------------------
(* Loading *)

InList(list, name) == \E i \in DOMAIN list : list[i].name = name

\* depMap: of two plugins of a name the later one's dependencies.
DependenciesOf(list, name) ==
    IF InList(list, name)
    THEN list[CHOOSE i \in DOMAIN list :
                /\ list[i].name = name
                /\ \A k \in (i + 1)..Len(list) : list[k].name # name].dependencies
    ELSE {}

\* The plugin names that name depends on in at most n + 1 steps.  A dependency is a key;
\* only a key that reads like the name of a plugin leads on.
Reaches(list, name) ==
    LET step[n \in 0..Len(list)] ==
            IF n = 0 THEN DependenciesOf(list, name)
            ELSE step[n - 1] \cup UNION {DependenciesOf(list, k[1]) : k \in {j \in step[n - 1] : Len(j) = 1}}
    IN  step[Len(list)]

detectCircular(list) == \E i \in DOMAIN list : Plain(list[i].name) \in Reaches(list, list[i].name)

\* The container after the first n services of p: each under its namespaced key and, if
\* that one is free, under its own. The services of a plugin are the keys of an object,
\* so no two of them are the same.
RegisterFirst(c, p, n) ==
    LET Registers(k, s) == k = Namespaced(p, s) \/ (k = Plain(s) /\ ~has(c, k))
    IN  [k \in Keys |-> IF \E i \in 1..n : Registers(k, p.services[i]) THEN p.name ELSE c[k]]

\* The services that register before the plugin fails on its own: all, or those in front
\* of the first namespaced key that is taken.
Free(c, p) ==
    CHOOSE n \in 0..Len(p.services) :
        /\ \A i \in 1..n : ~Taken(c, Namespaced(p, p.services[i]))
        /\ n < Len(p.services) => Taken(c, Namespaced(p, p.services[n + 1]))

Finish(l, result) == loader' = [loader EXCEPT ![l].result = result]

\* loadAll(plugins), up to the first plugin.
loadAll(l) ==
    /\ loader[l].result = "idle"
    /\ Finish(l, IF detectCircular(loader[l].list) THEN PluginCircularDependencyError
                 ELSE IF loader[l].list = <<>> THEN "loaded" ELSE "loading")
    /\ UNCHANGED <<container, loaded>>

Advance(l) ==
    loader' = [loader EXCEPT ![l].next = @ + 1,
                             ![l].result = IF loader[l].next = Len(loader[l].list) THEN "loaded" ELSE @]

Current(l) == loader[l].list[loader[l].next]

IsLoaded(p) == \E i \in DOMAIN loaded : loaded[i] = p.name

AlreadyLoaded(p) == IsLoaded(p)

\* A plausible bug: a dependency may be missing.
Satisfied_Any(p) == TRUE

Satisfied(p) == sandboxedView(container, p) = p.dependencies

\* load(plugin); n is how many factories ran before one threw, Len(services) if none.
load(l) ==
    /\ loader[l].result = "loading"
    /\ LET p == Current(l)
           free == Free(container, p)
       IN  \/ AlreadyLoaded(p) /\ Advance(l) /\ UNCHANGED <<container, loaded>>
           \/ /\ ~AlreadyLoaded(p) /\ ~Satisfied(p)
              /\ Finish(l, PluginLoadError) /\ UNCHANGED <<container, loaded>>
           \/ /\ ~AlreadyLoaded(p) /\ Satisfied(p)
              /\ \E n \in 0..free :
                   /\ container' = RegisterFirst(container, p, n)
                   /\ \/ /\ n = Len(p.services)
                         /\ loaded' = Append(loaded, p.name)
                         /\ Advance(l)
                      \/ /\ n < Len(p.services)
                         /\ Finish(l, PluginLoadError) /\ UNCHANGED loaded

\* The application calls loadAll again after it failed.
LoadAgain(l) ==
    /\ loader[l].result \in {PluginLoadError, PluginCircularDependencyError}
    /\ loader' = [loader EXCEPT ![l].result = "idle", ![l].next = 1]
    /\ UNCHANGED <<container, loaded>>

PluginNext == \E l \in Loaders : loadAll(l) \/ load(l) \/ LoadAgain(l)

-----------------------------------------------------------------------------
(* Properties *)

Definition(name) == CHOOSE p \in PluginDefinitions : p.name = name

(***************************************************************************)
(* However calls of loadAll overlap and factories fail, the plugins that   *)
(* are loaded are loaded once each, with all their services registered,    *)
(* and each after the ones whose services it depends on were registered.   *)
(***************************************************************************)
LoadedPluginsAreComplete ==
    /\ \A i, k \in DOMAIN loaded : i # k => loaded[i] # loaded[k]
    /\ \A i \in DOMAIN loaded :
         LET p == Definition(loaded[i])
         IN  /\ \A s \in Services(p) : container[Namespaced(p, s)] = p.name
             /\ \A k \in p.dependencies : has(container, k)

(***************************************************************************)
(* A service never changes hands: a key, with a namespace or without, goes *)
(* to the first plugin that registers it and stays with it.                *)
(***************************************************************************)
ServicesKeepTheirOwner ==
    \A k \in Keys : has(container, k) => container'[k] = container[k]

HalfLoaded(p) == ~IsLoaded(p) /\ \E s \in Services(p) : has(container, Namespaced(p, s))

(***************************************************************************)
(* A plugin that failed after registering a service cannot be loaded any   *)
(* more: each retry finds the service registered.                          *)
(***************************************************************************)
HalfLoadedStaysOut ==
    \A p \in PluginDefinitions : HalfLoaded(p) => HalfLoaded(p)'

(***************************************************************************)
(* The container only grows, whichever calls of loadAll overlap or are     *)
(* repeated: nothing registered is replaced, not even on a second attempt. *)
(***************************************************************************)
ContainerOnlyGrows == [][ServicesKeepTheirOwner /\ HalfLoadedStaysOut]_pluginVars

(***************************************************************************)
(* Plugins that need each other's services are never loaded: by their      *)
(* names the cycle is found before anything is registered, by the keys of  *)
(* services it is not found, and the first of them fails.                  *)
(***************************************************************************)
MutualNeeds(p, q) ==
    /\ \E s \in Services(q) : Namespaced(q, s) \in p.dependencies
    /\ \E s \in Services(p) : Namespaced(p, s) \in q.dependencies

CyclesNeverLoad ==
    \A p, q \in PluginDefinitions : MutualNeeds(p, q) => ~IsLoaded(p) /\ ~IsLoaded(q)

=============================================================================
