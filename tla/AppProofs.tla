------------------------------ MODULE AppProofs -------------------------------
(***************************************************************************)
(* Proofs about the parts of an application: the creation of its project,  *)
(* for any number of processes that write it; its configuration, for any   *)
(* that it may be given; the plugin registry, for any plugins and any      *)
(* calls of loadAll; and the rooms of its socket contexts. The parts share *)
(* no variable, so that each has an inductive invariant of its own, which  *)
(* the steps of the others leave alone.  What the CLI generates no step    *)
(* changes: the last sections prove it of names and command lines of any   *)
(* length, and of every choice of options.                                 *)
(***************************************************************************)
EXTENDS App, FiniteSetTheorems, SequenceTheorems, WellFoundedInduction, TLAPS

-----------------------------------------------------------------------------
(* Creating a project *)

\* A process that writes found the directory empty, or was given --force.
InTurn(c) ==
    /\ c.step \in {"start", "check"} => c.next = 1
    /\ c.step = "write" => (c.force \/ c.seen = {}) /\ c.next <= Len(Paths)

CliInv ==
    /\ CliTypeOK
    /\ \A p \in Creators : InTurn(creator[p])

LEMMA PathFacts == Len(Paths) \in Nat /\ DOMAIN Paths = 1..Len(Paths)
  <1>1. \A S : \A s \in Seq(S) : Len(s) \in Nat /\ DOMAIN s = 1..Len(s) OBVIOUS
  <1>2. QED BY <1>1, CliAssumption

LEMMA CliInitInv == CliInit => CliInv
  BY PathFacts, CliAssumption DEF CliInit, CliInv, CliTypeOK, InTurn, Steps

Creator == [step : Steps, force : BOOLEAN, next : 1..(Len(Paths) + 1), seen : SUBSET PathSet]

\* A step of one process, given the record that it becomes.
LEMMA OneCreator ==
    ASSUME CliInv, NEW p \in Creators, NEW c \in Creator, InTurn(c),
           creator' = [creator EXCEPT ![p] = c],
           disk' \in [PathSet -> Creators \cup {"user", "absent"}]
    PROVE  CliInv'
  <1>1. CliTypeOK' BY DEF CliInv, CliTypeOK, Creator
  <1>2. \A q \in Creators : creator'[q] = IF q = p THEN c ELSE creator[q]
    BY DEF CliInv, CliTypeOK
  <1>3. \A q \in Creators : InTurn(creator[q])' BY <1>2 DEF CliInv, InTurn
  <1>4. QED BY <1>1, <1>3 DEF CliInv

LEMMA CliStepInv == ASSUME CliInv, CliNext PROVE CliInv'
  <1> USE PathFacts
  <1>1. /\ creator \in [Creators -> Creator]
        /\ disk \in [PathSet -> Creators \cup {"user", "absent"}]
        /\ \A p \in Creators : InTurn(creator[p])
    BY DEF CliInv, CliTypeOK, Creator
  <1>2. ASSUME NEW p \in Creators, NEW step \in Steps \ {"start", "write"},
               creator[p].step # "start" => step # "check",
               Go(p, step), UNCHANGED disk
        PROVE  CliInv'
    <2> DEFINE c == [creator[p] EXCEPT !.step = step]
    <2>1. c \in Creator /\ creator' = [creator EXCEPT ![p] = c]
      BY <1>1, <1>2 DEF Go, Creator
    <2>2. c.step = step /\ c.next = creator[p].next BY <1>1 DEF Creator
    <2>3. InTurn(c) BY <1>1, <1>2, <2>2 DEF InTurn
    <2> HIDE DEF c
    <2>4. QED BY <1>1, <1>2, <2>1, <2>3, OneCreator
  <1>3. ASSUME NEW p \in Creators, checkTarget(p) PROVE CliInv'
    <2> DEFINE step == IF ~creator[p].force /\ isNonEmptyDir THEN "refused" ELSE "write"
               c == [creator[p] EXCEPT !.step = step, !.seen = Present]
    <2>1. creator[p].next = 1 BY <1>1, <1>3 DEF checkTarget, At, InTurn
    <2>2. c \in Creator BY <1>1 DEF Creator, Steps, Present
    <2>3. /\ c.step = step /\ c.seen = Present /\ c.next = creator[p].next
          /\ c.force = creator[p].force
      BY <1>1 DEF Creator
    <2>4. creator' = [creator EXCEPT ![p] = c] BY <1>1, <1>3 DEF checkTarget
    <2>5. InTurn(c) BY <2>1, <2>3, CliAssumption DEF InTurn, isNonEmptyDir
    <2> HIDE DEF c
    <2>6. QED BY <1>1, <1>3, <2>2, <2>4, <2>5, OneCreator DEF checkTarget
  <1>4. ASSUME NEW p \in Creators, writeProject(p) PROVE CliInv'
    <2> DEFINE step == IF creator[p].next = Len(Paths) THEN "done" ELSE "write"
               c == [creator[p] EXCEPT !.next = @ + 1, !.step = step]
               f == Paths[creator[p].next]
    <2>1. /\ creator[p].step = "write" /\ creator[p].next <= Len(Paths)
          /\ creator[p].force \/ creator[p].seen = {}
      BY <1>1, <1>4 DEF writeProject, At, InTurn
    <2>2. c \in Creator
      <3>1. creator[p] \in Creator BY <1>1
      <3>2. creator[p].next + 1 \in 1..(Len(Paths) + 1) BY <2>1, <3>1 DEF Creator
      <3>3. step \in Steps BY DEF Steps
      <3> HIDE DEF step
      <3>4. QED BY <3>1, <3>2, <3>3 DEF Creator
    <2>3. /\ c.step = step /\ c.seen = creator[p].seen /\ c.next = creator[p].next + 1
          /\ c.force = creator[p].force
      BY <1>1 DEF Creator
    <2>4. creator' = [creator EXCEPT ![p] = c] BY <1>1, <1>4 DEF writeProject
    <2>5. InTurn(c) BY <1>1, <2>1, <2>3 DEF InTurn, Creator
    <2>6. disk' \in [PathSet -> Creators \cup {"user", "absent"}]
      BY <1>1, <1>4 DEF writeProject
    <2> HIDE DEF c
    <2>7. QED BY <1>1, <2>2, <2>4, <2>5, <2>6, OneCreator
  <1>5. ASSUME NEW p \in Creators, RunAgain(p) PROVE CliInv'
    <2>1. PICK force \in BOOLEAN :
            creator' = [creator EXCEPT ![p] = [step |-> "start", force |-> force, next |-> 1, seen |-> {}]]
      BY <1>5 DEF RunAgain
    <2> DEFINE c == [step |-> "start", force |-> force, next |-> 1, seen |-> {}]
    <2>2. c \in Creator /\ InTurn(c) BY CliAssumption DEF Creator, Steps, InTurn
    <2>3. creator' = [creator EXCEPT ![p] = c] BY <2>1
    <2> HIDE DEF c
    <2>4. QED BY <1>1, <1>5, <2>2, <2>3, OneCreator DEF RunAgain
  <1>6. ASSUME NEW f \in PathSet, UserWrites(f) PROVE CliInv'
    BY <1>1, <1>6 DEF UserWrites, CliInv, CliTypeOK, InTurn
  <1>7. ASSUME NEW p \in Creators, promptScaffoldOptions(p) PROVE CliInv'
    BY <1>2, <1>7 DEF promptScaffoldOptions, At, Steps
  <1>8. ASSUME NEW p \in Creators, WriteFails(p) PROVE CliInv'
    BY <1>2, <1>8 DEF WriteFails, At, Steps
  <1>9. QED BY <1>3, <1>4, <1>5, <1>6, <1>7, <1>8 DEF CliNext

\* The files that a step may write over.
LEMMA CliStepKeeps ==
    ASSUME CliInv, CliNext, NEW f \in PathSet, NEW p \in Creators,
           disk[f] # "absent", disk[f] # p, disk'[f] = p
    PROVE  creator[p].force \/ f \notin creator[p].seen
  <1>1. disk \in [PathSet -> Creators \cup {"user", "absent"}] BY DEF CliInv, CliTypeOK
  <1>2. PICK q \in Creators : writeProject(q)
    <2>1. p # "user" BY CliAssumption
    <2>2. ASSUME NEW g \in PathSet, UserWrites(g) PROVE FALSE
      BY <1>1, <2>1, <2>2 DEF UserWrites
    <2>3. QED
      BY <2>2 DEF CliNext, promptScaffoldOptions, checkTarget, WriteFails, RunAgain
  <1>3. disk'[f] = q \/ disk'[f] = disk[f] BY <1>1, <1>2 DEF writeProject
  <1>4. p = q BY <1>3
  <1>5. QED BY <1>2, <1>4 DEF writeProject, At, CliInv, InTurn

-----------------------------------------------------------------------------
(* Socket contexts *)

LEMMA SocketStepType == ASSUME SocketTypeOK, SocketNext PROVE SocketTypeOK'
  <1>1. ASSUME NEW m \in Messages, buildSocketContext(m) PROVE SocketTypeOK'
    <2>1. PICK r \in rooms[Conn(m)] \cup {NoRoom} :
            socket' = [socket EXCEPT ![m].open = TRUE, ![m].room = r]
      BY <1>1 DEF buildSocketContext
    <2> DEFINE Context == [connection : Connections, room : Rooms \cup {NoRoom}, open : BOOLEAN]
               c == [socket[m] EXCEPT !.open = TRUE, !.room = r]
    <2>2. socket \in [Messages -> Context] /\ rooms \in [Connections -> SUBSET Rooms]
      BY DEF SocketTypeOK
    <2>3. r \in Rooms \cup {NoRoom} BY <2>1, <2>2 DEF Conn
    <2>4. c \in Context BY <2>2, <2>3
    <2>5. socket' = [socket EXCEPT ![m] = c] BY <2>1, <2>2
    <2> HIDE DEF c
    <2>6. socket' \in [Messages -> Context] BY <2>2, <2>4, <2>5
    <2>7. QED BY <1>1, <2>6 DEF buildSocketContext, SocketTypeOK
  <1>2. ASSUME NEW m \in Messages, NEW r \in Rooms, join(m, r) PROVE SocketTypeOK'
    BY <1>2 DEF join, SocketTypeOK, Conn
  <1>3. ASSUME NEW m \in Messages, NEW r \in Rooms, leave(m, r) PROVE SocketTypeOK'
    BY <1>3 DEF leave, SocketTypeOK, Conn
  <1>4. ASSUME NEW m \in Messages, disconnect(m) PROVE SocketTypeOK'
    BY <1>4 DEF disconnect, SocketTypeOK, Conn
  <1>5. ASSUME NEW m \in Messages, Handled(m) PROVE SocketTypeOK'
    BY <1>5 DEF Handled, SocketTypeOK, Conn
  <1>6. QED BY <1>1, <1>2, <1>3, <1>4, <1>5 DEF SocketNext

\* Which contexts a step touches, and what it does to the rooms of the connections.
LEMMA SocketStepRooms ==
    ASSUME SocketTypeOK, SocketNext
    PROVE  BroadcastsGoToOwnRoom /\ RoomLostOnlyByLeaving
  <1>1. /\ rooms \in [Connections -> SUBSET Rooms] /\ connected \subseteq Connections
        /\ socket \in [Messages -> [connection : Connections, room : Rooms \cup {NoRoom}, open : BOOLEAN]]
    BY DEF SocketTypeOK
  <1>2. ASSUME NEW m \in Messages, buildSocketContext(m)
        PROVE  BroadcastsGoToOwnRoom /\ RoomLostOnlyByLeaving
    <2>1. PICK r \in rooms[Conn(m)] \cup {NoRoom} :
            socket' = [socket EXCEPT ![m].open = TRUE, ![m].room = r]
      BY <1>2 DEF buildSocketContext
    <2>2. /\ UNCHANGED <<rooms, connected>> /\ ~socket[m].open
          /\ socket'[m].room = r /\ socket'[m].connection = Conn(m)
          /\ \A o \in Messages \ {m} : socket'[o] = socket[o]
      BY <1>1, <1>2, <2>1 DEF buildSocketContext, Conn
    <2>3. BroadcastsGoToOwnRoom
      BY <2>2 DEF BroadcastsGoToOwnRoom, OutOfStep, Conn
    <2>4. RoomLostOnlyByLeaving BY <2>2 DEF RoomLostOnlyByLeaving, KnowsNoRoom
    <2>5. QED BY <2>3, <2>4
  <1>3. ASSUME NEW m \in Messages, NEW r \in Rooms, join(m, r)
        PROVE  BroadcastsGoToOwnRoom /\ RoomLostOnlyByLeaving
    <2>1. /\ socket'[m].room = r /\ socket'[m].connection = Conn(m) /\ Conn(m) \in Connections
          /\ \A o \in Messages \ {m} : socket'[o] = socket[o]
          /\ connected' = connected
      BY <1>1, <1>3 DEF join, Conn
    <2>2. /\ \A c \in Connections : rooms[c] \subseteq rooms'[c]
          /\ Conn(m) \in connected => r \in rooms'[Conn(m)]
      BY <1>1, <1>3, <2>1 DEF join
    <2>3. BroadcastsGoToOwnRoom
      <3> SUFFICES ASSUME NEW o \in Messages, ~OutOfStep(o), OutOfStep(o)'
                   PROVE  Conn(o) \notin connected'
        BY DEF BroadcastsGoToOwnRoom
      <3>1. CASE o = m BY <2>1, <2>2, <3>1 DEF OutOfStep, Conn
      <3>2. CASE o # m
        <4>1. socket'[o] = socket[o] /\ Conn(o) \in Connections BY <1>1, <2>1, <3>2 DEF Conn
        <4>2. QED BY <2>2, <4>1 DEF OutOfStep, Conn
      <3>3. QED BY <3>1, <3>2
    <2>4. RoomLostOnlyByLeaving
      BY <2>1, SocketAssumption DEF RoomLostOnlyByLeaving, KnowsNoRoom
    <2>5. QED BY <2>3, <2>4
  <1>4. ASSUME NEW m \in Messages, NEW r \in Rooms, leave(m, r)
        PROVE  BroadcastsGoToOwnRoom /\ RoomLostOnlyByLeaving
    <2>1. /\ socket'[m].room = IF socket[m].room = r THEN NoRoom ELSE socket[m].room
          /\ socket'[m].connection = Conn(m) /\ Conn(m) \in Connections
          /\ socket'[m].open = socket[m].open /\ socket[m].open
          /\ \A o \in Messages \ {m} : socket'[o] = socket[o]
      BY <1>1, <1>4 DEF leave, Conn
    <2>2. /\ rooms' = [rooms EXCEPT ![Conn(m)] = @ \ {r}]
          /\ rooms'[Conn(m)] = rooms[Conn(m)] \ {r}
          /\ \A c \in Connections \ {Conn(m)} : rooms'[c] = rooms[c]
      BY <1>1, <1>4, <2>1 DEF leave
    <2>3. BroadcastsGoToOwnRoom
      <3> SUFFICES ASSUME NEW o \in Messages, ~OutOfStep(o), OutOfStep(o)'
                   PROVE  \E n \in Messages \ {o} :
                             /\ Conn(n) = Conn(o) /\ socket[n].open
                             /\ rooms'[Conn(o)] = rooms[Conn(o)] \ {socket[o].room}
                             /\ socket'[o] = socket[o]
                             /\ socket'[n].room # socket[o].room
        BY DEF BroadcastsGoToOwnRoom
      <3>1. o # m BY <2>1, <2>2 DEF OutOfStep, Conn
      <3>2. socket'[o] = socket[o] /\ Conn(o) \in Connections BY <1>1, <2>1, <3>1 DEF Conn
      <3>3. Conn(o) = Conn(m) /\ socket[o].room = r
        BY <2>2, <3>2 DEF OutOfStep, Conn
      <3>4. socket'[m].room # r BY <2>1, SocketAssumption
      <3>5. QED BY <2>1, <2>2, <3>1, <3>2, <3>3, <3>4
    <2>4. RoomLostOnlyByLeaving
      <3> SUFFICES ASSUME NEW o \in Messages, socket[o].open, ~KnowsNoRoom(o), KnowsNoRoom(o)'
                   PROVE  rooms' = [rooms EXCEPT ![Conn(o)] = @ \ {socket[o].room}]
        BY DEF RoomLostOnlyByLeaving
      <3>1. o = m /\ socket[m].room = r BY <2>1 DEF KnowsNoRoom
      <3>2. QED BY <2>2, <3>1
    <2>5. QED BY <2>3, <2>4
  <1>5. ASSUME NEW m \in Messages, disconnect(m)
        PROVE  BroadcastsGoToOwnRoom /\ RoomLostOnlyByLeaving
    <2>1. /\ socket' = socket /\ connected' = connected \ {Conn(m)}
          /\ \A c \in Connections \ {Conn(m)} : rooms'[c] = rooms[c]
      BY <1>1, <1>5 DEF disconnect
    <2>2. \A o \in Messages : Conn(o) \in Connections BY <1>1 DEF Conn
    <2>3. BroadcastsGoToOwnRoom BY <2>1, <2>2 DEF BroadcastsGoToOwnRoom, OutOfStep, Conn
    <2>4. RoomLostOnlyByLeaving BY <2>1 DEF RoomLostOnlyByLeaving, KnowsNoRoom
    <2>5. QED BY <2>3, <2>4
  <1>6. ASSUME NEW m \in Messages, Handled(m)
        PROVE  BroadcastsGoToOwnRoom /\ RoomLostOnlyByLeaving
    <2>1. /\ UNCHANGED <<rooms, connected>> /\ ~socket'[m].open
          /\ \A o \in Messages \ {m} : socket'[o] = socket[o]
      BY <1>1, <1>6 DEF Handled
    <2>2. BroadcastsGoToOwnRoom BY <2>1 DEF BroadcastsGoToOwnRoom, OutOfStep, Conn
    <2>3. RoomLostOnlyByLeaving BY <2>1 DEF RoomLostOnlyByLeaving, KnowsNoRoom
    <2>4. QED BY <2>2, <2>3
  <1>7. QED BY <1>2, <1>3, <1>4, <1>5, <1>6 DEF SocketNext

-----------------------------------------------------------------------------
(* The plugin registry *)

Call == [list : PluginLists, next : Nat, result : Results]

\* Where a call of loadAll stands in its list.
InPlace(c) ==
    /\ c.result = "idle" => c.next = 1
    /\ c.result = "loading" => c.next \in DOMAIN c.list

CallsOK ==
    /\ loader \in [Loaders -> Call]
    /\ \A l \in Loaders : InPlace(loader[l])

\* Of two plugins that need each other neither ever registered anything.
CyclesOut ==
    \A p, q \in PluginDefinitions : MutualNeeds(p, q) =>
        /\ ~IsLoaded(p)
        /\ \A s \in Services(p) : ~has(container, Namespaced(p, s))

RegistryOK ==
    /\ container \in [Keys -> PluginNames \cup {NoOwner}]
    /\ loaded \in Seq(PluginNames)
    /\ LoadedPluginsAreComplete
    /\ CyclesOut

PluginInv == CallsOK /\ RegistryOK

\* What a step does to the container and the list of loaded plugins, if anything.
Registered(p, n) ==
    /\ ~IsLoaded(p) /\ Satisfied(p)
    /\ n \in 0..Free(container, p)
    /\ container' = RegisterFirst(container, p, n)
    /\ loaded' = IF n = Len(p.services) THEN Append(loaded, p.name) ELSE loaded

LEMMA SequenceFacts ==
    ASSUME NEW S, NEW s \in Seq(S)
    PROVE  /\ Len(s) \in Nat /\ DOMAIN s = 1..Len(s)
           /\ \A i \in DOMAIN s : s[i] \in S
           /\ \A x \in S : /\ Append(s, x) \in Seq(S)
                           /\ DOMAIN Append(s, x) = 1..(Len(s) + 1)
                           /\ Append(s, x)[Len(s) + 1] = x
                           /\ \A i \in 1..Len(s) : Append(s, x)[i] = s[i]
  OBVIOUS

LEMMA ServiceFacts ==
    ASSUME NEW p \in PluginDefinitions
    PROVE  /\ Len(p.services) \in Nat /\ DOMAIN p.services = 1..Len(p.services)
           /\ p.name \in PluginNames /\ p.name # NoOwner
           /\ \A s \in Services(p) : Namespaced(p, s) \in Keys
  <1>1. p.services \in Seq({p.services[i] : i \in DOMAIN p.services}) BY PluginAssumption
  <1>2. Len(p.services) \in Nat /\ DOMAIN p.services = 1..Len(p.services)
    BY <1>1, SequenceFacts
  <1>3. p.name \in PluginNames /\ p.name # NoOwner BY PluginAssumption DEF PluginNames
  <1>4. \A s \in Services(p) : Namespaced(p, s) \in Keys BY DEF Keys
  <1>5. QED BY <1>2, <1>3, <1>4

\* The least number above which P fails, or all.
LEMMA LeastOrAll ==
    ASSUME NEW m \in Nat, NEW T \in SUBSET (1..m)
    PROVE  \E n \in 0..m : (\A i \in 1..n : i \notin T) /\ (n < m => n + 1 \in T)
  <1>1. CASE T = {} BY <1>1
  <1>2. CASE T # {}
    <2> DEFINE R == OpToRel(<, Nat)
    <2>1. \A y, z \in Nat : y < z => <<y, z>> \in R BY Zenon DEF OpToRel
    <2>2. IsWellFoundedOn(R, Nat) BY NatLessThanWellFounded, Zenon
    <2> HIDE DEF R
    <2>3. T \subseteq Nat OBVIOUS
    <2>4. PICK x \in T : \A y \in T : ~(<<y, x>> \in R) BY <1>2, <2>2, <2>3, WFMin
    <2>5. \A y \in T : ~(y < x) BY <2>1, <2>3, <2>4
    <2>6. x \in 1..m /\ x - 1 \in 0..m /\ (x - 1) + 1 = x OBVIOUS
    <2>7. \A i \in 1..(x - 1) : i \notin T BY <2>5, <2>6
    <2>8. QED BY <2>6, <2>7
  <1>3. QED BY <1>1, <1>2

LEMMA FreeFacts ==
    ASSUME NEW p \in PluginDefinitions, NEW c
    PROVE  /\ Free(c, p) \in 0..Len(p.services)
           /\ \A i \in 1..Free(c, p) : ~has(c, Namespaced(p, p.services[i]))
  <1> DEFINE m == Len(p.services)
             T == {i \in 1..m : Taken(c, Namespaced(p, p.services[i]))}
             P(n) == /\ \A i \in 1..n : ~Taken(c, Namespaced(p, p.services[i]))
                     /\ n < Len(p.services) => Taken(c, Namespaced(p, p.services[n + 1]))
  <1>1. m \in Nat BY ServiceFacts
  <1>2. PICK n \in 0..m : (\A i \in 1..n : i \notin T) /\ (n < m => n + 1 \in T)
    <2>1. T \in SUBSET (1..m) OBVIOUS
    <2> HIDE DEF T, m
    <2>2. QED BY <1>1, <2>1, LeastOrAll
  <1>3. P(n)
    <2>1. \A i \in 1..n : i \in 1..m BY <1>1
    <2>2. QED BY <1>2, <2>1
  <1>4. Free(c, p) = CHOOSE k \in 0..m : P(k) BY DEF Free
  <1> HIDE DEF P, m
  <1>5. Free(c, p) \in 0..m /\ P(Free(c, p)) BY <1>3, <1>4
  <1>6. QED BY <1>5 DEF P, m, Taken

LEMMA RegisterFacts ==
    ASSUME NEW p \in PluginDefinitions, RegistryOK, NEW n, Registered(p, n)
    PROVE  /\ container' \in [Keys -> PluginNames \cup {NoOwner}]
           /\ \A k \in Keys : has(container, k) => container'[k] = container[k]
           /\ \A i \in 1..n : has(container, Namespaced(p, p.services[i])) = FALSE
           /\ \A i \in 1..n : container'[Namespaced(p, p.services[i])] = p.name
           /\ \A k \in Keys : has(container', k) =>
                has(container, k) \/ \E s \in Services(p) : k = Namespaced(p, s) \/ k = Plain(s)
  <1>1. /\ container \in [Keys -> PluginNames \cup {NoOwner}]
        /\ container' = RegisterFirst(container, p, n)
        /\ n \in 0..Free(container, p)
    BY DEF RegistryOK, Registered
  <1>2. /\ Len(p.services) \in Nat /\ DOMAIN p.services = 1..Len(p.services)
        /\ p.name \in PluginNames /\ p.name # NoOwner
        /\ \A s \in Services(p) : Namespaced(p, s) \in Keys
    BY ServiceFacts
  <1>3. \A i \in 1..n : /\ i \in 1..Free(container, p)
                        /\ p.services[i] \in Services(p)
    BY <1>1, <1>2, FreeFacts DEF Services
  <1>4. \A i \in 1..n : ~has(container, Namespaced(p, p.services[i])) BY <1>3, FreeFacts
  <1> DEFINE Registers(k, s) == k = Namespaced(p, s) \/ (k = Plain(s) /\ ~has(container, k))
  <1>5. container' = [k \in Keys |-> IF \E i \in 1..n : Registers(k, p.services[i]) THEN p.name
                                     ELSE container[k]]
    BY <1>1 DEF RegisterFirst
  <1>6. \A k \in Keys : \A i \in 1..n : Registers(k, p.services[i]) => ~has(container, k)
    BY <1>4
  <1>7. \A i \in 1..n : Registers(Namespaced(p, p.services[i]), p.services[i]) OBVIOUS
  <1>8. \A k, s : Registers(k, s) => k = Namespaced(p, s) \/ k = Plain(s) OBVIOUS
  <1> HIDE DEF Registers
  <1>9. container' \in [Keys -> PluginNames \cup {NoOwner}] BY <1>1, <1>2, <1>5
  <1>10. \A k \in Keys : has(container, k) => container'[k] = container[k] BY <1>5, <1>6
  <1>11. \A i \in 1..n : container'[Namespaced(p, p.services[i])] = p.name
    BY <1>2, <1>3, <1>5, <1>7
  <1>12. \A k \in Keys : has(container', k) =>
            has(container, k) \/ \E s \in Services(p) : k = Namespaced(p, s) \/ k = Plain(s)
    <2> SUFFICES ASSUME NEW k \in Keys, has(container', k), ~has(container, k)
                 PROVE  \E s \in Services(p) : k = Namespaced(p, s) \/ k = Plain(s)
      OBVIOUS
    <2>1. PICK i \in 1..n : Registers(k, p.services[i]) BY <1>5 DEF has
    <2>2. QED BY <1>3, <1>8, <2>1
  <1>13. QED BY <1>4, <1>9, <1>10, <1>11, <1>12

\* A plugin is known by its name, and by the namespace of its keys.
LEMMA NamesAreUnique ==
    /\ \A p \in PluginDefinitions : Definition(p.name) = p
    /\ \A p, q \in PluginDefinitions : \A s, t : Namespaced(p, s) = Namespaced(q, t) => p = q
    /\ \A p : \A s, t : Namespaced(p, s) # Plain(t)
  <1>1. \A p, q \in PluginDefinitions : p.name = q.name => p = q BY PluginAssumption
  <1>2. \A p \in PluginDefinitions : Definition(p.name) = p BY <1>1 DEF Definition
  <1>3. \A a, b, c, d : <<a, b>> = <<c, d>> => a = c OBVIOUS
  <1>4. \A a, b, c : <<a, b>> # <<c>> OBVIOUS
  <1>5. QED BY <1>1, <1>2, <1>3, <1>4 DEF Namespaced, Plain

\* The plugins that are loaded after a step.
LEMMA LoadedFacts ==
    ASSUME NEW p \in PluginDefinitions, RegistryOK, NEW n, Registered(p, n)
    PROVE  /\ loaded' \in Seq(PluginNames)
           /\ DOMAIN loaded \subseteq DOMAIN loaded'
           /\ \A i \in DOMAIN loaded : loaded'[i] = loaded[i]
           /\ \A i \in DOMAIN loaded' \ DOMAIN loaded :
                /\ loaded'[i] = p.name /\ n = Len(p.services)
                /\ \A k \in DOMAIN loaded' \ DOMAIN loaded : i = k
  <1>1. /\ loaded \in Seq(PluginNames) /\ p.name \in PluginNames
        /\ loaded' = IF n = Len(p.services) THEN Append(loaded, p.name) ELSE loaded
    BY ServiceFacts DEF RegistryOK, Registered
  <1>2. CASE n = Len(p.services)
    <2>1. loaded' = Append(loaded, p.name) BY <1>1, <1>2
    <2>2. /\ Len(loaded) \in Nat /\ DOMAIN loaded = 1..Len(loaded)
          /\ Append(loaded, p.name) \in Seq(PluginNames)
          /\ DOMAIN Append(loaded, p.name) = 1..(Len(loaded) + 1)
          /\ Append(loaded, p.name)[Len(loaded) + 1] = p.name
          /\ \A i \in 1..Len(loaded) : Append(loaded, p.name)[i] = loaded[i]
      BY <1>1, SequenceFacts
    <2>3. \A i \in DOMAIN loaded' \ DOMAIN loaded : i = Len(loaded) + 1 BY <2>1, <2>2
    <2>4. QED BY <1>2, <2>1, <2>2, <2>3
  <1>3. CASE n # Len(p.services) BY <1>1, <1>3
  <1>4. QED BY <1>2, <1>3

LEMMA RegistryStep ==
    ASSUME RegistryOK, NEW p \in PluginDefinitions, NEW n, Registered(p, n)
    PROVE  RegistryOK' /\ ServicesKeepTheirOwner /\ HalfLoadedStaysOut
  <1> USE DEF IsLoaded
  <1>1. /\ container' \in [Keys -> PluginNames \cup {NoOwner}]
        /\ \A k \in Keys : has(container, k) => container'[k] = container[k]
        /\ \A i \in 1..n : ~has(container, Namespaced(p, p.services[i]))
        /\ \A i \in 1..n : container'[Namespaced(p, p.services[i])] = p.name
        /\ \A k \in Keys : has(container', k) =>
             has(container, k) \/ \E s \in Services(p) : k = Namespaced(p, s) \/ k = Plain(s)
    BY RegisterFacts
  <1>2. /\ loaded' \in Seq(PluginNames)
        /\ DOMAIN loaded \subseteq DOMAIN loaded'
        /\ \A i \in DOMAIN loaded : loaded'[i] = loaded[i]
        /\ \A i \in DOMAIN loaded' \ DOMAIN loaded :
             /\ loaded'[i] = p.name /\ n = Len(p.services)
             /\ \A k \in DOMAIN loaded' \ DOMAIN loaded : i = k
    BY LoadedFacts
  <1>3. /\ loaded \in Seq(PluginNames) /\ LoadedPluginsAreComplete /\ CyclesOut
        /\ ~IsLoaded(p) /\ Satisfied(p)
    BY DEF RegistryOK, Registered
  <1>4. \A k : has(container, k) => has(container', k) BY <1>1 DEF has
  <1>5. \A k \in p.dependencies : has(container, k) BY <1>3 DEF Satisfied, sandboxedView
  <1>6. \A s \in Services(p) : n = Len(p.services) =>
            /\ ~has(container, Namespaced(p, s))
            /\ container'[Namespaced(p, s)] = p.name
    <2>1. DOMAIN p.services = 1..Len(p.services) BY ServiceFacts
    <2>2. QED BY <1>1, <2>1 DEF Services
  <1>7. \A i \in DOMAIN loaded : \E q \in PluginDefinitions : q.name = loaded[i]
    <2>1. \A i \in DOMAIN loaded : loaded[i] \in PluginNames BY <1>3, SequenceFacts
    <2>2. QED BY <2>1 DEF PluginNames
  <1>8. LoadedPluginsAreComplete'
    <2>1. \A i, k \in DOMAIN loaded' : i # k => loaded'[i] # loaded'[k]
      BY <1>2, <1>3 DEF LoadedPluginsAreComplete
    <2>2. ASSUME NEW i \in DOMAIN loaded', NEW q, q = Definition(loaded'[i])
          PROVE  /\ \A s \in Services(q) : container'[Namespaced(q, s)] = q.name
                 /\ \A k \in q.dependencies : has(container', k)
      <3>1. CASE i \in DOMAIN loaded
        <4>1. loaded'[i] = loaded[i] BY <1>2, <3>1
        <4>2. q \in PluginDefinitions BY <1>7, <2>2, <3>1, <4>1, NamesAreUnique
        <4>3. /\ \A s \in Services(q) : container[Namespaced(q, s)] = q.name
              /\ \A k \in q.dependencies : has(container, k)
          BY <1>3, <2>2, <3>1, <4>1 DEF LoadedPluginsAreComplete
        <4>4. \A s \in Services(q) : Namespaced(q, s) \in Keys /\ q.name # NoOwner
          BY <4>2, ServiceFacts
        <4>5. QED BY <1>1, <1>4, <4>3, <4>4 DEF has
      <3>2. CASE i \notin DOMAIN loaded
        <4>1. q = p /\ n = Len(p.services) BY <1>2, <2>2, <3>2, NamesAreUnique
        <4>2. QED BY <1>4, <1>5, <1>6, <4>1
      <3>3. QED BY <3>1, <3>2
    <2>3. QED BY <2>1, <2>2 DEF LoadedPluginsAreComplete
  <1>9. CyclesOut'
    <2> SUFFICES ASSUME NEW a \in PluginDefinitions, NEW b \in PluginDefinitions, MutualNeeds(a, b)
                 PROVE  /\ ~IsLoaded(a)'
                        /\ \A s \in Services(a) : ~has(container', Namespaced(a, s))
      BY DEF CyclesOut
    <2>1. /\ ~IsLoaded(a) /\ MutualNeeds(b, a)
          /\ \A s \in Services(a) : ~has(container, Namespaced(a, s))
          /\ \A s \in Services(b) : ~has(container, Namespaced(b, s))
      BY <1>3 DEF CyclesOut, MutualNeeds
    <2>2. p # a BY <1>5, <2>1 DEF MutualNeeds
    <2>3. ~IsLoaded(a)'
      <3>1. p.name # a.name BY <2>2, PluginAssumption
      <3>2. QED BY <1>2, <2>1, <3>1
    <2>4. \A s \in Services(a) : ~has(container', Namespaced(a, s))
      BY <1>1, <2>1, <2>2, NamesAreUnique DEF has
    <2>5. QED BY <2>3, <2>4
  <1>10. ServicesKeepTheirOwner BY <1>1 DEF ServicesKeepTheirOwner
  <1>11. HalfLoadedStaysOut
    <2> SUFFICES ASSUME NEW q \in PluginDefinitions, HalfLoaded(q) PROVE HalfLoaded(q)'
      BY DEF HalfLoadedStaysOut
    <2>1. PICK s \in Services(q) : has(container, Namespaced(q, s)) BY DEF HalfLoaded
    <2>2. ~IsLoaded(q) BY DEF HalfLoaded
    <2>3. ASSUME IsLoaded(q)' PROVE FALSE
      <3>1. q.name = p.name /\ n = Len(p.services) BY <1>2, <2>2, <2>3
      <3>2. q = p BY <3>1, PluginAssumption
      <3>3. QED BY <1>6, <2>1, <3>1, <3>2
    <2>4. has(container', Namespaced(q, s)) BY <1>4, <2>1
    <2>5. QED BY <2>3, <2>4 DEF HalfLoaded
  <1>12. QED BY <1>1, <1>2, <1>8, <1>9, <1>10, <1>11 DEF RegistryOK

LEMMA PluginInitInv == PluginInit => PluginInv
  <1> SUFFICES ASSUME PluginInit PROVE PluginInv OBVIOUS
  <1>1. /\ container = [k \in Keys |-> NoOwner] /\ loaded = <<>>
        /\ loader \in [Loaders -> [list : PluginLists, next : {1}, result : {"idle"}]]
    BY DEF PluginInit
  <1>2. CallsOK BY <1>1 DEF CallsOK, Call, InPlace, Results
  <1>3. container \in [Keys -> PluginNames \cup {NoOwner}] BY <1>1
  <1>4. loaded \in Seq(PluginNames) /\ DOMAIN loaded = {} BY <1>1
  <1>5. LoadedPluginsAreComplete BY <1>4 DEF LoadedPluginsAreComplete
  <1>6. CyclesOut BY <1>1, <1>4 DEF CyclesOut, IsLoaded, has
  <1>7. QED BY <1>2, <1>3, <1>4, <1>5, <1>6 DEF PluginInv, RegistryOK

\* A step of one call, given the record that it becomes.
LEMMA OneCall ==
    ASSUME CallsOK, NEW l \in Loaders, NEW c \in Call, InPlace(c),
           loader' = [loader EXCEPT ![l] = c]
    PROVE  CallsOK'
  <1>1. \A k \in Loaders : loader'[k] = IF k = l THEN c ELSE loader[k] BY DEF CallsOK
  <1>2. \A k \in Loaders : InPlace(loader[k])' BY <1>1 DEF CallsOK, InPlace
  <1>3. loader' \in [Loaders -> Call] BY DEF CallsOK
  <1>4. QED BY <1>2, <1>3 DEF CallsOK

LEMMA FinishOK ==
    ASSUME CallsOK, NEW l \in Loaders, NEW result \in Results, Finish(l, result),
           result # "idle", result = "loading" => loader[l].next \in DOMAIN loader[l].list
    PROVE  CallsOK'
  <1> DEFINE c == [loader[l] EXCEPT !.result = result]
  <1>1. loader \in [Loaders -> Call] BY DEF CallsOK
  <1>2. c \in Call /\ loader' = [loader EXCEPT ![l] = c] BY <1>1 DEF Finish, Call
  <1>3. c.result = result /\ c.next = loader[l].next /\ c.list = loader[l].list
    BY <1>1 DEF Call
  <1>4. InPlace(c) BY <1>3 DEF InPlace
  <1> HIDE DEF c
  <1>5. QED BY <1>2, <1>4, OneCall

\* The list of a call of loadAll, and the plugin that it is at.
LEMMA ListFacts ==
    ASSUME CallsOK, NEW l \in Loaders
    PROVE  /\ Len(loader[l].list) \in Nat /\ DOMAIN loader[l].list = 1..Len(loader[l].list)
           /\ loader[l].list # <<>> => 1 \in DOMAIN loader[l].list
           /\ loader[l].result = "loading" => Current(l) \in PluginDefinitions
  <1>1. loader[l].list \in Seq(PluginDefinitions)
    BY PluginAssumption DEF CallsOK, Call
  <1>2. \A S : \A s \in Seq(S) : s # <<>> => 1 \in DOMAIN s OBVIOUS
  <1>3. QED BY <1>1, <1>2, SequenceFacts DEF Current, CallsOK, InPlace

LEMMA AdvanceOK ==
    ASSUME CallsOK, NEW l \in Loaders, loader[l].result = "loading", Advance(l)
    PROVE  CallsOK'
  <1> DEFINE result == IF loader[l].next = Len(loader[l].list) THEN "loaded" ELSE "loading"
             c == [loader[l] EXCEPT !.next = @ + 1, !.result = result]
  <1>1. loader \in [Loaders -> Call] /\ loader[l].next \in DOMAIN loader[l].list
    BY DEF CallsOK, InPlace
  <1>2. /\ Len(loader[l].list) \in Nat /\ DOMAIN loader[l].list = 1..Len(loader[l].list)
    BY ListFacts
  <1>3. result \in Results BY DEF Results
  <1>4. loader' = [loader EXCEPT ![l] = c] BY <1>1 DEF Advance
  <1> HIDE DEF result
  <1>5. c \in Call
    <2>1. loader[l] \in Call /\ loader[l].next + 1 \in Nat BY <1>1, <1>2
    <2>2. QED BY <1>3, <2>1 DEF Call
  <1>6. c.result = result /\ c.next = loader[l].next + 1 /\ c.list = loader[l].list
    BY <1>1 DEF Call
  <1>7. InPlace(c) BY <1>1, <1>2, <1>6 DEF InPlace, result
  <1> HIDE DEF c
  <1>8. QED BY <1>4, <1>5, <1>7, OneCall

\* A step of the registry leaves it alone or registers services of one plugin.
LEMMA PluginSteps ==
    ASSUME CallsOK, PluginNext
    PROVE  /\ CallsOK'
           /\ \/ UNCHANGED <<container, loaded>>
              \/ \E p \in PluginDefinitions : \E n \in Nat : Registered(p, n)
  <1>1. ASSUME NEW l \in Loaders, loadAll(l) PROVE CallsOK' /\ UNCHANGED <<container, loaded>>
    <2> DEFINE result == IF detectCircular(loader[l].list) THEN PluginCircularDependencyError
                         ELSE IF loader[l].list = <<>> THEN "loaded" ELSE "loading"
    <2>1. /\ loader[l].result = "idle" /\ Finish(l, result)
          /\ UNCHANGED <<container, loaded>>
      BY <1>1 DEF loadAll
    <2>2. result \in Results /\ result # "idle" BY DEF Results, PluginCircularDependencyError
    <2>3. result = "loading" => loader[l].list # <<>> BY DEF PluginCircularDependencyError
    <2> HIDE DEF result
    <2>4. loader[l].next = 1 BY <2>1 DEF CallsOK, InPlace
    <2>5. result = "loading" => loader[l].next \in DOMAIN loader[l].list
      BY <2>3, <2>4, ListFacts
    <2>6. QED BY <2>1, <2>2, <2>5, FinishOK
  <1>2. ASSUME NEW l \in Loaders, load(l)
        PROVE  /\ CallsOK'
               /\ \/ UNCHANGED <<container, loaded>>
                  \/ \E p \in PluginDefinitions : \E n \in Nat : Registered(p, n)
    <2> DEFINE p == Current(l)
    <2>1. loader[l].result = "loading" BY <1>2 DEF load
    <2>2. p \in PluginDefinitions BY <2>1, ListFacts
    <2> HIDE DEF p
    <2>3. PluginLoadError \in Results /\ PluginLoadError \notin {"idle", "loading"}
      BY DEF Results, PluginLoadError
    <2>4. CASE AlreadyLoaded(p) /\ Advance(l) /\ UNCHANGED <<container, loaded>>
      BY <2>1, <2>4, AdvanceOK
    <2>5. CASE Finish(l, PluginLoadError) /\ UNCHANGED <<container, loaded>>
      BY <2>3, <2>5, FinishOK
    <2>6. ASSUME ~AlreadyLoaded(p), Satisfied(p), NEW n \in 0..Free(container, p),
                 container' = RegisterFirst(container, p, n),
                 \/ n = Len(p.services) /\ loaded' = Append(loaded, p.name) /\ Advance(l)
                 \/ n < Len(p.services) /\ Finish(l, PluginLoadError) /\ UNCHANGED loaded
          PROVE  CallsOK' /\ Registered(p, n) /\ n \in Nat
      <3>1. CallsOK' BY <2>1, <2>3, <2>6, AdvanceOK, FinishOK
      <3>2. n \in Nat /\ Len(p.services) \in Nat
        <4>1. Free(container, p) \in 0..Len(p.services) /\ Len(p.services) \in Nat
          BY <2>2, FreeFacts, ServiceFacts
        <4>2. QED BY <4>1
      <3>3. loaded' = IF n = Len(p.services) THEN Append(loaded, p.name) ELSE loaded
        BY <2>6, <3>2
      <3>4. QED BY <2>6, <3>1, <3>2, <3>3 DEF Registered, AlreadyLoaded
    <2>7. QED BY <1>2, <2>2, <2>4, <2>5, <2>6 DEF load, p
  <1>3. ASSUME NEW l \in Loaders, LoadAgain(l) PROVE CallsOK' /\ UNCHANGED <<container, loaded>>
    <2> DEFINE c == [loader[l] EXCEPT !.result = "idle", !.next = 1]
    <2>1. loader \in [Loaders -> Call] BY DEF CallsOK
    <2>2. loader' = [loader EXCEPT ![l] = c] BY <1>3, <2>1 DEF LoadAgain
    <2>3. c \in Call BY <2>1 DEF Call, Results
    <2>4. InPlace(c) BY <2>1 DEF InPlace, Call
    <2> HIDE DEF c
    <2>5. QED BY <1>3, <2>2, <2>3, <2>4, OneCall DEF LoadAgain
  <1>4. QED BY <1>1, <1>2, <1>3 DEF PluginNext

\* What the properties say of a step that leaves the registry as it is.
LEMMA RegistryUnchanged ==
    ASSUME UNCHANGED <<container, loaded>>
    PROVE  /\ RegistryOK => RegistryOK'
           /\ ServicesKeepTheirOwner /\ HalfLoadedStaysOut
  <1>1. container' = container /\ loaded' = loaded OBVIOUS
  <1>2. RegistryOK => RegistryOK'
    BY <1>1 DEF RegistryOK, LoadedPluginsAreComplete, CyclesOut, IsLoaded
  <1>3. ServicesKeepTheirOwner BY <1>1 DEF ServicesKeepTheirOwner
  <1>4. HalfLoadedStaysOut BY <1>1 DEF HalfLoadedStaysOut, HalfLoaded, IsLoaded
  <1>5. QED BY <1>2, <1>3, <1>4

LEMMA PluginStepInv ==
    ASSUME PluginInv, PluginNext
    PROVE  PluginInv' /\ ServicesKeepTheirOwner /\ HalfLoadedStaysOut
  BY PluginSteps, RegistryStep, RegistryUnchanged DEF PluginInv

LEMMA PluginInvGivesType ==
    ASSUME PluginInv PROVE PluginTypeOK /\ LoadedPluginsAreComplete /\ CyclesNeverLoad
  <1>1. PluginTypeOK BY DEF PluginInv, CallsOK, RegistryOK, PluginTypeOK, Call, InPlace
  <1>2. LoadedPluginsAreComplete BY DEF PluginInv, RegistryOK
  <1>3. \A p, q \in PluginDefinitions : MutualNeeds(p, q) => MutualNeeds(q, p) BY DEF MutualNeeds
  <1>4. CyclesNeverLoad
    BY <1>3 DEF PluginInv, RegistryOK, CyclesOut, CyclesNeverLoad
  <1>5. QED BY <1>1, <1>2, <1>4

-----------------------------------------------------------------------------
(* The configuration *)

\* zod fills in a default without validating it.
DefaultsAccepted(fields) ==
    \A f \in DOMAIN fields :
        fields[f].default = NoValue \/ fields[f].default \in fields[f].accepts

LEMMA FieldFacts ==
    /\ \A d : Enum({"true", "false"}, d).accepts = {"true", "false"}
    /\ \A d : Text(d).default \in Text(d).accepts
    /\ \A d : Count(d).default \in Count(d).accepts
    /\ \A d \in {"true", "false"} : Flag(d).default \in Flag(d).accepts
    /\ Positive.default \in Positive.accepts
    /\ \A V : Required(V).default = NoValue
    /\ \A V : Enum(V, NoValue).default = NoValue
    /\ \A V : \A d \in V : Enum(V, d).default \in Enum(V, d).accepts
  BY DEF Enum, Text, Count, Flag, Positive, Required

\* The fields of one section.
LEMMA SectionsAccept ==
    /\ DefaultsAccepted(TenancySchema) /\ DefaultsAccepted(AuthSchema)
    /\ DefaultsAccepted(FinanceSchema) /\ DefaultsAccepted(CommerceSchema)
    /\ DefaultsAccepted(LedgerSchema) /\ DefaultsAccepted(GovernanceSchema)
    /\ DefaultsAccepted(DatabaseSchema) /\ DefaultsAccepted(InventorySchema)
    /\ DefaultsAccepted(EnvironmentSchema) /\ DefaultsAccepted(EventBusSchema)
    /\ DefaultsAccepted(TaxationSchema) /\ DefaultsAccepted(OverridesSchema)
    /\ DefaultsAccepted(FinanceTaxationSchema) /\ DefaultsAccepted(ExchangeRatesSchema)
    /\ DefaultsAccepted([mode |-> LedgerMode]) /\ DefaultsAccepted(WebhookDedupSchema)
    /\ DefaultsAccepted(PoolSchema)
  <1> USE FieldFacts DEF DefaultsAccepted
  <1>1. DefaultsAccepted(TenancySchema) BY DEF TenancySchema
  <1>2. DefaultsAccepted(AuthSchema) BY DEF AuthSchema
  <1>3. DefaultsAccepted(FinanceSchema) BY DEF FinanceSchema
  <1>4. DefaultsAccepted(CommerceSchema) BY DEF CommerceSchema
  <1>5. DefaultsAccepted(LedgerSchema) BY DEF LedgerSchema, LedgerMode
  <1>6. DefaultsAccepted(GovernanceSchema) BY DEF GovernanceSchema
  <1>7. DefaultsAccepted(DatabaseSchema) BY DEF DatabaseSchema
  <1>8. DefaultsAccepted(InventorySchema) BY DEF InventorySchema
  <1>9. DefaultsAccepted(EnvironmentSchema) BY DEF EnvironmentSchema
  <1>10. DefaultsAccepted(EventBusSchema) BY DEF EventBusSchema
  <1>11. DefaultsAccepted(TaxationSchema) BY DEF TaxationSchema
  <1>12. DefaultsAccepted(OverridesSchema) BY DEF OverridesSchema
  <1>13. DefaultsAccepted(FinanceTaxationSchema) BY DEF FinanceTaxationSchema
  <1>14. DefaultsAccepted(ExchangeRatesSchema) BY DEF ExchangeRatesSchema
  <1>15. DefaultsAccepted([mode |-> LedgerMode]) BY DEF LedgerMode
  <1>16. DefaultsAccepted(WebhookDedupSchema) BY DEF WebhookDedupSchema
  <1>17. DefaultsAccepted(PoolSchema) BY DEF PoolSchema
  <1> HIDE DEF DefaultsAccepted
  <1>18. QED
    BY <1>1, <1>2, <1>3, <1>4, <1>5, <1>6, <1>7, <1>8, <1>9, <1>10, <1>11, <1>12, <1>13, <1>14,
       <1>15, <1>16, <1>17

LEMMA DefaultsAreAccepted == \A s \in DOMAIN SectionSchema : DefaultsAccepted(SectionSchema[s])
  BY SectionsAccept DEF SectionSchema

\* Filling in the defaults gives values that the schema accepts, and does so once.
LEMMA FilledIsStable ==
    ASSUME NEW fields, NEW given, DefaultsAccepted(fields),
           \A f \in DOMAIN fields : ~Rejects(fields, given, f)
    PROVE  LET filled == Filled(fields, given)
           IN  /\ \A f \in DOMAIN filled : f \in DOMAIN fields /\ filled[f] \in fields[f].accepts
               /\ \A f \in DOMAIN fields : fields[f].default # NoValue => f \in DOMAIN filled
               /\ \A f \in DOMAIN fields : ~Rejects(fields, filled, f)
               /\ Filled(fields, filled) = filled
  <1> DEFINE filled == Filled(fields, given)
             D == {g \in DOMAIN fields : g \in DOMAIN given \/ fields[g].default # NoValue}
  <1>1. filled = [f \in D |-> IF f \in DOMAIN given THEN given[f] ELSE fields[f].default]
    BY DEF Filled
  <1>2. DOMAIN filled = D BY <1>1
  <1>3. \A f \in D : /\ f \in DOMAIN fields
                     /\ f \in DOMAIN given => filled[f] = given[f]
                     /\ f \notin DOMAIN given =>
                          filled[f] = fields[f].default /\ fields[f].default # NoValue
    BY <1>1
  <1>4. \A f \in DOMAIN fields : fields[f].default # NoValue => f \in D OBVIOUS
  <1>5. \A f \in DOMAIN fields : f \in DOMAIN given => f \in D OBVIOUS
  <1> HIDE DEF D
  <1>6. \A f \in D : filled[f] \in fields[f].accepts
    BY <1>3 DEF DefaultsAccepted, Rejects
  <1>7. \A f \in DOMAIN fields : ~Rejects(fields, filled, f)
    BY <1>2, <1>5, <1>6 DEF Rejects
  <1>8. {g \in DOMAIN fields : g \in DOMAIN filled \/ fields[g].default # NoValue} = D
    BY <1>2, <1>3, <1>4
  <1>9. Filled(fields, filled) = [f \in D |-> filled[f]]
    BY <1>2, <1>8 DEF Filled
  <1>10. filled = [f \in D |-> filled[f]] BY <1>1
  <1>11. QED BY <1>2, <1>3, <1>4, <1>6, <1>7, <1>9, <1>10

\* What safeParse returns, if not an error: sections whose fields hold accepted values.
LEMMA ParsedIsStable ==
    ASSUME NEW c, NEW sections, c.sections = sections,
           c = [modules |-> c.modules, sections |-> sections], ~Throws(safeParse(c))
    PROVE  LET r == safeParse(c)
           IN  /\ r = [modules |-> c.modules, sections |-> r.sections]
               /\ DOMAIN r.sections = DOMAIN sections \cap DOMAIN SectionSchema
               /\ \A s \in DOMAIN r.sections :
                    /\ \A f \in DOMAIN r.sections[s] :
                         f \in DOMAIN SectionSchema[s] /\ r.sections[s][f] \in SectionSchema[s][f].accepts
                    /\ \A f \in DOMAIN SectionSchema[s] :
                         SectionSchema[s][f].default # NoValue => f \in DOMAIN r.sections[s]
               /\ safeParse(r) = r
  <1> DEFINE r == safeParse(c)
             given == DOMAIN sections \cap DOMAIN SectionSchema
             R == [s \in given |-> Filled(SectionSchema[s], sections[s])]
             refuses(d, G) == \/ d.modules # NoValue /\ ~(d.modules \subseteq ConfigModules)
                              \/ \E s \in G : \E f \in DOMAIN SectionSchema[s] :
                                    Rejects(SectionSchema[s], d.sections[s], f)
  <1>1. \A d : LET G == DOMAIN d.sections \cap DOMAIN SectionSchema
               IN  safeParse(d) = IF refuses(d, G) THEN ConfigValidationError
                                  ELSE [d EXCEPT !.sections =
                                          [s \in G |-> Filled(SectionSchema[s], d.sections[s])]]
    BY DEF safeParse
  <1>2. ~refuses(c, given) /\ r = [c EXCEPT !.sections = R]
    BY <1>1 DEF Throws
  <1>3. r = [modules |-> c.modules, sections |-> R]
    <2> HIDE DEF r, R
    <2>1. QED BY <1>2
  <1>4. \A s \in given : \A f \in DOMAIN SectionSchema[s] : ~Rejects(SectionSchema[s], sections[s], f)
    BY <1>2
  <1>5. \A s \in given :
            /\ \A f \in DOMAIN R[s] : f \in DOMAIN SectionSchema[s] /\ R[s][f] \in SectionSchema[s][f].accepts
            /\ \A f \in DOMAIN SectionSchema[s] :
                 SectionSchema[s][f].default # NoValue => f \in DOMAIN R[s]
            /\ \A f \in DOMAIN SectionSchema[s] : ~Rejects(SectionSchema[s], R[s], f)
            /\ Filled(SectionSchema[s], R[s]) = R[s]
    <2> SUFFICES ASSUME NEW s \in given
                 PROVE  LET filled == Filled(SectionSchema[s], sections[s])
                            fields == SectionSchema[s]
                        IN  /\ \A f \in DOMAIN filled : f \in DOMAIN fields /\ filled[f] \in fields[f].accepts
                            /\ \A f \in DOMAIN fields : fields[f].default # NoValue => f \in DOMAIN filled
                            /\ \A f \in DOMAIN fields : ~Rejects(fields, filled, f)
                            /\ Filled(fields, filled) = filled
      OBVIOUS
    <2>1. DefaultsAccepted(SectionSchema[s]) BY DefaultsAreAccepted
    <2>2. QED BY <1>4, <2>1, FilledIsStable
  <1>6. DOMAIN R = given /\ r.sections = R /\ r.modules = c.modules BY <1>3
  <1>7. [s \in given |-> Filled(SectionSchema[s], R[s])] = R
    <2>1. [s \in given |-> Filled(SectionSchema[s], R[s])] = [s \in given |-> R[s]] BY <1>5
    <2>2. QED BY <2>1
  <1> HIDE DEF R, r
  <1>8. DOMAIN r.sections \cap DOMAIN SectionSchema = given BY <1>6
  <1>9. ~refuses(r, given) BY <1>2, <1>5, <1>6
  <1>10. safeParse(r) = [r EXCEPT !.sections = R] BY <1>1, <1>6, <1>7, <1>8, <1>9
  <1>11. safeParse(r) = r BY <1>3, <1>10
  <1>12. r = [modules |-> c.modules, sections |-> r.sections] BY <1>3, <1>6
  <1>13. QED BY <1>5, <1>6, <1>11, <1>12 DEF r

\* What defineConfig accepts it accepts again, unchanged.
LEMMA DefinedIsStable ==
    ASSUME NEW c, c = [modules |-> c.modules, sections |-> c.sections], NEW production
    PROVE  IsStable(c, production)
  <1> SUFFICES ASSUME ~Throws(defineConfig(c, production))
               PROVE  defineConfig(defineConfig(c, production), production) = defineConfig(c, production)
    BY DEF IsStable
  <1>1. ~Throws(safeParse(c)) /\ ~DEPENDENCY_RULES(safeParse(c), production)
        /\ defineConfig(c, production) = safeParse(c)
    BY DEF defineConfig, Throws
  <1>2. safeParse(safeParse(c)) = safeParse(c) BY <1>1, ParsedIsStable
  <1>3. QED BY <1>1, <1>2 DEF defineConfig

\* The sections that the dependency rules look into.
LEMMA SchemaFacts ==
    /\ "auth" \in DOMAIN SectionSchema /\ SectionSchema["auth"] = AuthSchema
    /\ "jwtSecret" \in DOMAIN AuthSchema
    /\ AuthSchema["jwtSecret"].accepts = {"text", "empty"}
    /\ "governance" \in DOMAIN SectionSchema /\ SectionSchema["governance"] = GovernanceSchema
    /\ {"auditAll", "allowSudo"} \subseteq DOMAIN GovernanceSchema
    /\ GovernanceSchema["auditAll"].accepts = {"true", "false"}
    /\ GovernanceSchema["allowSudo"].accepts = {"true", "false"}
    /\ GovernanceSchema["auditAll"].default = "true"
    /\ NoValue # "true"
  <1>1. "auth" \in DOMAIN SectionSchema /\ SectionSchema["auth"] = AuthSchema
    BY DEF SectionSchema
  <1>2. "governance" \in DOMAIN SectionSchema /\ SectionSchema["governance"] = GovernanceSchema
    BY DEF SectionSchema
  <1>3. "jwtSecret" \in DOMAIN AuthSchema /\ AuthSchema["jwtSecret"].accepts = {"text", "empty"}
    BY DEF AuthSchema, Enum
  <1>4. /\ {"auditAll", "allowSudo"} \subseteq DOMAIN GovernanceSchema
        /\ GovernanceSchema["auditAll"].accepts = {"true", "false"}
        /\ GovernanceSchema["allowSudo"].accepts = {"true", "false"}
        /\ GovernanceSchema["auditAll"].default = "true"
    BY DEF GovernanceSchema, Flag, Enum
  <1>5. NoValue \notin GovernanceSchema["auditAll"].accepts
    BY <1>2, <1>4, ConfigAssumption
  <1>6. QED BY <1>1, <1>2, <1>3, <1>4, <1>5

\* What RunningConfigIsSafe says of a configuration that nothing was assigned to.
Safe(c, production) ==
    /\ Get(c, "auth", "provider") = "internal" => Get(c, "auth", "jwtSecret") = "text"
    /\ Get(c, "ledger", "mode") = "atomic" => Has(c, "tenancy")
    /\ Get(c, "governance", "allowSudo") = "true" => Get(c, "governance", "auditAll") = "true"
    /\ production => Get(c, "environment", "dryRun") # "true"

LEMMA AcceptedIsSafe ==
    ASSUME NEW c, c = [modules |-> c.modules, sections |-> c.sections], NEW production,
           NEW r, r = defineConfig(c, production), ~Throws(r)
    PROVE  /\ r = [modules |-> r.modules, sections |-> r.sections]
           /\ Has(r, "commerce") => Has(r, "finance")
           /\ Safe(r, production)
  <1>1. r = safeParse(c) /\ ~Throws(safeParse(c)) /\ ~DEPENDENCY_RULES(r, production)
    BY DEF defineConfig, Throws
  <1>2. /\ r = [modules |-> c.modules, sections |-> r.sections]
        /\ DOMAIN r.sections \subseteq DOMAIN SectionSchema
        /\ \A s \in DOMAIN r.sections :
             /\ \A f \in DOMAIN r.sections[s] :
                  f \in DOMAIN SectionSchema[s] /\ r.sections[s][f] \in SectionSchema[s][f].accepts
             /\ \A f \in DOMAIN SectionSchema[s] :
                  SectionSchema[s][f].default # NoValue => f \in DOMAIN r.sections[s]
    BY <1>1, ParsedIsStable
  <1>3. r = [modules |-> r.modules, sections |-> r.sections] BY <1>2
  <1>4. Has(r, "commerce") => Has(r, "finance")
    BY <1>1 DEF DEPENDENCY_RULES, Has, Get
  <1>5. Get(r, "auth", "jwtSecret") \in {"text", "empty", NoValue}
    BY <1>2, SchemaFacts DEF Get
  <1>6. Get(r, "governance", "allowSudo") = "true" => Get(r, "governance", "auditAll") \in {"true", "false"}
    <2> SUFFICES ASSUME Get(r, "governance", "allowSudo") = "true"
                 PROVE  Get(r, "governance", "auditAll") \in {"true", "false"}
      OBVIOUS
    <2>1. "governance" \in DOMAIN r.sections BY SchemaFacts DEF Get
    <2>2. "auditAll" \in DOMAIN r.sections["governance"] BY <1>2, <2>1, SchemaFacts
    <2>3. r.sections["governance"]["auditAll"] \in {"true", "false"}
      BY <1>2, <2>1, <2>2, SchemaFacts
    <2>4. QED BY <2>1, <2>2, <2>3 DEF Get
  <1>7. Safe(r, production) BY <1>1, <1>5, <1>6 DEF DEPENDENCY_RULES, Safe
  <1>8. QED BY <1>3, <1>4, <1>7

\* While the application runs: its sections stay, and until something assigns to one
\* of them so does all that was checked.
ConfigInv ==
    phase \in {"load", "serve"} =>
        /\ running = [modules |-> running.modules, sections |-> running.sections]
        /\ Has(running, "commerce") => Has(running, "finance")
        /\ ~mutated => Safe(running, isProduction)

LEMMA ConfigInvIsSafe == ConfigInv => RunningConfigIsSafe
  BY DEF ConfigInv, RunningConfigIsSafe, Safe

LEMMA AppStepConfig == ASSUME ConfigInv, Boot \/ MutateConfig \/ Serve PROVE ConfigInv'
  <1>1. ASSUME Boot PROVE ConfigInv'
    <2>1. PICK c \in BootConfigs :
            /\ running' = defineConfig(c, isProduction)
            /\ phase' = IF Throws(running') THEN "down" ELSE "load"
            /\ UNCHANGED <<isProduction, mutated>>
      BY <1>1 DEF Boot
    <2>2. c = [modules |-> c.modules, sections |-> c.sections] BY AppAssumption
    <2>3. ~Throws(running') =>
            /\ running' = [modules |-> running'.modules, sections |-> running'.sections]
            /\ Has(running', "commerce") => Has(running', "finance")
            /\ Safe(running', isProduction)
      BY <2>1, <2>2, AcceptedIsSafe
    <2>4. QED BY <2>1, <2>3 DEF ConfigInv, Has, Safe, Get
  <1>2. ASSUME MutateConfig PROVE ConfigInv'
    <2>1. PICK s, f, v : running' = [running EXCEPT !.sections[s][f] = v]
      BY <1>2 DEF MutateConfig
    <2>2. /\ running = [modules |-> running.modules, sections |-> running.sections]
          /\ Has(running, "commerce") => Has(running, "finance")
          /\ mutated' = TRUE
      BY <1>2 DEF MutateConfig, ConfigInv
    <2> DEFINE S == [running.sections EXCEPT ![s][f] = v]
    <2>3. DOMAIN S = DOMAIN running.sections OBVIOUS
    <2>4. running' = [running EXCEPT !.sections = S] BY <2>1, <2>2
    <2> HIDE DEF S
    <2>5. running' = [modules |-> running.modules, sections |-> S] BY <2>2, <2>4
    <2>6. DOMAIN running'.sections = DOMAIN running.sections BY <2>3, <2>5
    <2>7. QED BY <2>2, <2>5, <2>6 DEF ConfigInv, Has
  <1>3. ASSUME Serve PROVE ConfigInv'
    BY <1>3 DEF Serve, ConfigInv, Has, Get, Safe
  <1>4. QED BY <1>1, <1>2, <1>3

LEMMA ResolvedStable == ResolvedConfigsAreStable
  <1>1. \A c \in SomeConfigs : c = [modules |-> c.modules, sections |-> c.sections]
    <2>1. ASSUME NEW c \in SomeConfigs PROVE c = [modules |-> c.modules, sections |-> c.sections]
      <3>1. PICK s, f, v : c = [modules |-> {"db"}, sections |-> (s :> SingleField(s, f, v))]
        BY <2>1 DEF SomeConfigs
      <3>2. QED BY <3>1
    <2>2. QED BY <2>1
  <1>2. \A c \in SomeConfigs, production \in BOOLEAN : IsStable(c, production)
    BY <1>1, DefinedIsStable
  <1>3. QED BY <1>2 DEF ResolvedConfigsAreStable

-----------------------------------------------------------------------------
(* The application *)

AppInv ==
    /\ CliInv /\ PluginInv /\ SocketTypeOK /\ ConfigInv
    /\ phase \in {"create", "boot", "load", "serve", "down"}
    /\ isProduction \in BOOLEAN /\ mutated \in BOOLEAN

LEMMA AppInitInv == Init => AppInv
  <1> SUFFICES ASSUME Init PROVE AppInv OBVIOUS
  <1>1. CliInv BY CliInitInv DEF Init
  <1>2. PluginInv BY PluginInitInv DEF Init
  <1>3. SocketTypeOK BY DEF Init, SocketInit, SocketTypeOK, Idle
  <1>4. ConfigInv BY DEF Init, ConfigInv
  <1>5. QED BY <1>1, <1>2, <1>3, <1>4 DEF Init, AppInv

\* What a part says of its own variables stays true while others move.
LEMMA CliUnchanged == ASSUME CliInv, UNCHANGED cliVars PROVE CliInv'
  BY DEF CliInv, cliVars, CliTypeOK, InTurn

LEMMA PluginUnchanged == ASSUME PluginInv, UNCHANGED pluginVars PROVE PluginInv'
  <1>1. UNCHANGED <<container, loaded>> /\ loader' = loader BY DEF pluginVars
  <1>2. CallsOK' BY <1>1 DEF PluginInv, CallsOK, InPlace
  <1>3. RegistryOK' BY <1>1, RegistryUnchanged DEF PluginInv
  <1>4. QED BY <1>2, <1>3 DEF PluginInv

LEMMA SocketUnchanged == ASSUME SocketTypeOK, UNCHANGED socketVars PROVE SocketTypeOK'
  BY DEF socketVars, SocketTypeOK

LEMMA AppUnchanged ==
    ASSUME AppInv, UNCHANGED appVars
    PROVE  /\ ConfigInv'
           /\ phase' \in {"create", "boot", "load", "serve", "down"}
           /\ isProduction' \in BOOLEAN /\ mutated' \in BOOLEAN
  BY DEF AppInv, appVars, ConfigInv, Has, Get, Safe

LEMMA AppStepInv == ASSUME AppInv, [Next]_vars PROVE AppInv'
  <1>1. CASE CliStep
    BY <1>1, CliStepInv, PluginUnchanged, SocketUnchanged, AppUnchanged DEF CliStep, AppInv
  <1>2. CASE PluginStep
    BY <1>2, CliUnchanged, PluginStepInv, SocketUnchanged, AppUnchanged DEF PluginStep, AppInv
  <1>3. CASE SocketStep
    BY <1>3, CliUnchanged, PluginUnchanged, SocketStepType, AppUnchanged DEF SocketStep, AppInv
  <1>4. CASE AppStep
    <2>1. ConfigInv' BY <1>4, AppStepConfig DEF AppStep, AppInv
    <2>2. CliInv' /\ PluginInv' /\ SocketTypeOK'
      BY <1>4, CliUnchanged, PluginUnchanged, SocketUnchanged DEF AppStep, AppInv
    <2>3. /\ phase' \in {"create", "boot", "load", "serve", "down"}
          /\ isProduction' \in BOOLEAN /\ mutated' \in BOOLEAN
      BY <1>4 DEF AppStep, Boot, MutateConfig, Serve, AppInv
    <2>4. QED BY <2>1, <2>2, <2>3 DEF AppInv
  <1>5. CASE UNCHANGED vars
    <2>1. UNCHANGED cliVars /\ UNCHANGED pluginVars /\ UNCHANGED socketVars /\ UNCHANGED appVars
      BY <1>5 DEF vars, cliVars, pluginVars, socketVars, appVars
    <2>2. QED BY <2>1, CliUnchanged, PluginUnchanged, SocketUnchanged, AppUnchanged DEF AppInv
  <1>6. QED BY <1>1, <1>2, <1>3, <1>4, <1>5 DEF Next

(***************************************************************************)
(* The invariant of all parts: every process, call and context is where    *)
(* its program can be, whatever the others do.                             *)
(***************************************************************************)
THEOREM AppInvariant == Spec => []AppInv
  BY AppInitInv, AppStepInv, PTL DEF Spec

\* A step is one of a single part: the others' variables stay.
LEMMA StepOfOnePart ==
    ASSUME [Next]_vars
    PROVE  /\ CliNext \/ UNCHANGED cliVars
           /\ PluginNext \/ UNCHANGED pluginVars
           /\ SocketNext \/ UNCHANGED socketVars
  <1>1. CASE UNCHANGED vars BY <1>1 DEF vars, cliVars, pluginVars, socketVars
  <1>2. CASE Next BY <1>2 DEF Next, CliStep, PluginStep, SocketStep, AppStep
  <1>3. QED BY <1>1, <1>2

(***************************************************************************)
(* checkTarget and writeProject (packages/cli/src/project.ts): for any     *)
(* number of processes and files, a process writes over another's file     *)
(* only with --force or if the file was not there when it looked.          *)
(***************************************************************************)
THEOREM SeenFilesKept == Spec => FilesSeenAreKept
  <1>1. CliInv /\ [Next]_vars =>
          [\A f \in PathSet, p \in Creators :
              (disk[f] # "absent" /\ disk[f] # p /\ disk'[f] = p)
                  => creator[p].force \/ f \notin creator[p].seen]_cliVars
    BY StepOfOnePart, CliStepKeeps
  <1>2. AppInv => CliInv BY DEF AppInv
  <1>3. QED BY <1>1, <1>2, AppInvariant, PTL DEF Spec, FilesSeenAreKept

(***************************************************************************)
(* loadAll and load (packages/core/src/plugin/registry.ts): for any        *)
(* plugins, lists and number of overlapping or repeated calls, plugins     *)
(* are loaded wholly, once and after what they depend on, and those that   *)
(* need each other never.                                                  *)
(***************************************************************************)
THEOREM LoadingHolds == Spec => []LoadingIsSound
  <1>1. AppInv => LoadingIsSound
    <2> SUFFICES ASSUME AppInv PROVE LoadingIsSound OBVIOUS
    <2>1. CliTypeOK BY DEF AppInv, CliInv
    <2>2. PluginTypeOK /\ LoadedPluginsAreComplete /\ CyclesNeverLoad
      BY PluginInvGivesType DEF AppInv
    <2>3. QED BY <2>1, <2>2 DEF LoadingIsSound, TypeOK, AppInv
  <1>2. QED BY <1>1, AppInvariant, PTL

(***************************************************************************)
(* register (registry.ts): whichever factories throw and however calls of  *)
(* loadAll overlap, a registered key keeps its owner, and a plugin that    *)
(* failed after its first service stays out.                               *)
(***************************************************************************)
THEOREM ContainerGrows == Spec => ContainerOnlyGrows
  <1>1. PluginInv /\ [Next]_vars => [ServicesKeepTheirOwner /\ HalfLoadedStaysOut]_pluginVars
    BY StepOfOnePart, PluginStepInv
  <1>2. AppInv => PluginInv BY DEF AppInv
  <1>3. QED BY <1>1, <1>2, AppInvariant, PTL DEF Spec, ContainerOnlyGrows

(***************************************************************************)
(* join, leave and broadcast of buildSocketContext (packages/core/src/     *)
(* context/builders.ts): for any messages, rooms and connections, only     *)
(* another handler's leave or a closed connection puts a context out of    *)
(* step with the rooms of its connection.                                  *)
(***************************************************************************)
THEOREM RoomsFollow == Spec => RoomsFollowTheHandler
  <1>1. SocketTypeOK /\ [Next]_vars => [BroadcastsGoToOwnRoom /\ RoomLostOnlyByLeaving]_socketVars
    BY StepOfOnePart, SocketStepRooms
  <1>2. AppInv => SocketTypeOK BY DEF AppInv
  <1>3. QED BY <1>1, <1>2, AppInvariant, PTL DEF Spec, RoomsFollowTheHandler

(***************************************************************************)
(* defineConfig (packages/core/src/config/validate.ts): whatever           *)
(* configurations the application may be started with, it runs with a safe *)
(* one, in which accepted defaults are filled in once and for all.         *)
(***************************************************************************)
THEOREM ConfigHolds == Spec => []ConfigIsSafe
  <1>1. AppInv => ConfigIsSafe
    BY ConfigInvIsSafe, ResolvedStable DEF AppInv, ConfigIsSafe
  <1>2. QED BY <1>1, AppInvariant, PTL

-----------------------------------------------------------------------------
(* Putting sequences together *)

\* Induction over the natural numbers, for a set of them.
LEMMA EveryNumber ==
    ASSUME NEW P, 0 \in P, \A n \in Nat : n \in P => n + 1 \in P
    PROVE  \A n \in Nat : n \in P
  <1> DEFINE R == OpToRel(<, Nat)
             B == Nat \ P
  <1>1. \A y, z \in Nat : y < z => <<y, z>> \in R BY Zenon DEF OpToRel
  <1>2. IsWellFoundedOn(R, Nat) BY NatLessThanWellFounded, Zenon
  <1> HIDE DEF R
  <1>3. SUFFICES ASSUME B # {} PROVE FALSE OBVIOUS
  <1>4. PICK x \in B : \A y \in B : ~(<<y, x>> \in R) BY <1>2, <1>3, WFMin
  <1>5. x \in Nat /\ x # 0 OBVIOUS
  <1>6. x - 1 \in Nat /\ x - 1 < x /\ (x - 1) + 1 = x BY <1>5
  <1>7. x - 1 \notin B BY <1>1, <1>4, <1>5, <1>6
  <1>8. QED BY <1>6, <1>7

\* T tells what has been put together of each of the first n parts.
Concats(T, parts, n) ==
    T = [k \in 1..n |-> IF k = 1 THEN parts[k] ELSE T[k - 1] \o parts[k]]

LEMMA ConcatsAt ==
    ASSUME NEW T, NEW parts, NEW n \in Nat, Concats(T, parts, n)
    PROVE  \A k \in 1..n : T[k] = IF k = 1 THEN parts[k] ELSE T[k - 1] \o parts[k]
  <1> DEFINE more(k) == IF k = 1 THEN parts[k] ELSE T[k - 1] \o parts[k]
  <1>1. T = [k \in 1..n |-> more(k)] BY DEF Concats
  <1> HIDE DEF more
  <1>2. \A k \in 1..n : T[k] = more(k) BY <1>1
  <1>3. QED BY <1>2 DEF more

LEMMA ConcatsExist ==
    ASSUME NEW parts
    PROVE  \A n \in Nat : \E T : Concats(T, parts, n)
  <1> DEFINE P == {n \in Nat : \E T : Concats(T, parts, n)}
  <1>1. 0 \in P
    <2>1. Concats([k \in 1..0 |-> <<>>], parts, 0) BY DEF Concats
    <2>2. QED BY <2>1
  <1>2. ASSUME NEW n \in Nat, n \in P PROVE n + 1 \in P
    <2>1. PICK T : Concats(T, parts, n) BY <1>2
    <2> DEFINE more(f, k) == IF k = 1 THEN parts[k] ELSE f[k - 1] \o parts[k]
               c == [k \in 1..(n + 1) |-> more(T, k)]
               d == [k \in 1..(n + 1) |-> more(c, k)]
    <2>2. \A k \in 1..n : c[k] = T[k]
      <3>1. \A k \in 1..n : T[k] = more(T, k) BY <2>1, ConcatsAt
      <3> HIDE DEF more
      <3>2. \A k \in 1..n : k \in 1..(n + 1) OBVIOUS
      <3>3. QED BY <3>1, <3>2
    <2>3. \A k \in 1..(n + 1) : k # 1 => k - 1 \in 1..n OBVIOUS
    <2>4. \A k \in 1..(n + 1) : more(T, k) = more(c, k)
      <3> HIDE DEF c
      <3>1. QED BY <2>2, <2>3
    <2>5. c = d
      <3> HIDE DEF more
      <3>1. \A k \in 1..(n + 1) : c[k] = d[k] BY <2>4
      <3>2. QED BY <3>1
    <2>6. Concats(c, parts, n + 1)
      <3> HIDE DEF c
      <3>1. QED BY <2>5 DEF Concats
    <2>7. QED BY <2>6
  <1> HIDE DEF P
  <1>3. \A n \in Nat : n \in P BY <1>1, <1>2, EveryNumber
  <1>4. QED BY <1>3 DEF P

\* T[k] is the concatenation of the first k parts.
Unrolled(T, S, parts) ==
    /\ T \in [0..Len(parts) -> Seq(S)]
    /\ T[0] = <<>>
    /\ \A k \in 1..Len(parts) : T[k] = T[k - 1] \o parts[k]

LEMMA Flattened ==
    ASSUME NEW S, NEW parts \in Seq(Seq(S))
    PROVE  \E T : Unrolled(T, S, parts) /\ FlattenSeq(parts) = T[Len(parts)]
  <1> DEFINE n == Len(parts)
             whole == CHOOSE f : f = [k \in 1..n |->
                         IF k = 1 THEN parts[k] ELSE f[k - 1] \o parts[k]]
             c == CHOOSE f : Concats(f, parts, n)
             T == [k \in 0..n |-> IF k = 0 THEN <<>> ELSE c[k]]
  <1>1. n \in Nat /\ DOMAIN parts = 1..n /\ \A k \in 1..n : parts[k] \in Seq(S) OBVIOUS
  <1>2. FlattenSeq(parts) = IF n = 0 THEN parts ELSE whole[n] BY Zenon DEF FlattenSeq
  <1>3. whole = c BY Zenon DEF Concats
  <1>4. n = 0 => parts = <<>> OBVIOUS
  <1> HIDE DEF whole, n
  <1>5. \E f : Concats(f, parts, n) BY <1>1, ConcatsExist
  <1>6. Concats(c, parts, n) BY <1>5, Zenon
  <1>7. \A k \in 1..n : c[k] = IF k = 1 THEN parts[k] ELSE c[k - 1] \o parts[k]
    BY <1>1, <1>6, ConcatsAt
  <1> HIDE DEF c
  <1>8. T[0] = <<>> /\ \A k \in 1..n : T[k] = c[k] BY <1>1
  <1>9. \A k \in 1..n : T[k] = T[k - 1] \o parts[k]
    <2> HIDE DEF T
    <2> SUFFICES ASSUME NEW k \in 1..n PROVE T[k] = T[k - 1] \o parts[k] OBVIOUS
    <2>1. k - 1 \in 0..n /\ (k # 1 => k - 1 \in 1..n) BY <1>1
    <2>2. parts[k] \in Seq(S) BY <1>1
    <2>3. CASE k = 1
      <3>1. <<>> \o parts[k] = parts[k] BY <2>2, ConcatEmptySeq
      <3>2. T[k - 1] = <<>> /\ T[k] = parts[k] BY <1>7, <1>8, <2>3
      <3>3. QED BY <3>1, <3>2
    <2>4. CASE k # 1 BY <1>7, <1>8, <2>1, <2>4
    <2>5. QED BY <2>3, <2>4
  <1>10. \A k \in Nat : k <= n => T[k] \in Seq(S)
    <2> DEFINE P == {k \in Nat : k <= n => T[k] \in Seq(S)}
    <2> HIDE DEF T
    <2>1. 0 \in P
      <3>1. <<>> \in Seq(S) OBVIOUS
      <3>2. QED BY <1>8, <3>1
    <2>2. ASSUME NEW k \in Nat, k \in P PROVE k + 1 \in P
      <3>1. SUFFICES ASSUME k + 1 <= n PROVE T[k + 1] \in Seq(S) OBVIOUS
      <3>2. k + 1 \in 1..n /\ (k + 1) - 1 = k /\ k <= n BY <1>1, <3>1
      <3>3. T[k] \in Seq(S) BY <2>2, <3>2
      <3>4. parts[k + 1] \in Seq(S) BY <1>1, <3>2
      <3>5. T[k] \o parts[k + 1] \in Seq(S) BY <3>3, <3>4, ConcatProperties
      <3>6. T[k + 1] = T[k] \o parts[k + 1] BY <1>9, <3>2
      <3>7. QED BY <3>5, <3>6
    <2> HIDE DEF P
    <2>3. \A k \in Nat : k \in P BY <2>1, <2>2, EveryNumber
    <2>4. QED BY <2>3 DEF P
  <1>11. T \in [0..n -> Seq(S)]
    <2>1. \A k \in 0..n : T[k] \in Seq(S) BY <1>1, <1>10
    <2>2. QED BY <2>1
  <1>12. FlattenSeq(parts) = T[n]
    <2>1. n # 0 => n \in 1..n BY <1>1
    <2> HIDE DEF T
    <2>2. QED BY <1>2, <1>3, <1>4, <1>8, <2>1
  <1> HIDE DEF T
  <1>13. QED BY <1>8, <1>9, <1>11, <1>12 DEF Unrolled, n

-----------------------------------------------------------------------------
(* What is taken away at the ends of a name *)

LEMMA MinIsIn ==
    ASSUME NEW I \in SUBSET Nat, I # {}
    PROVE  Min(I) \in I /\ \A y \in I : Min(I) <= y
  <1> DEFINE R == OpToRel(<, Nat)
  <1>1. \A y, z \in Nat : y < z => <<y, z>> \in R BY Zenon DEF OpToRel
  <1>2. IsWellFoundedOn(R, Nat) BY NatLessThanWellFounded, Zenon
  <1> HIDE DEF R
  <1>3. PICK x \in I : \A y \in I : ~(<<y, x>> \in R) BY <1>2, WFMin
  <1>4. \A y \in I : ~(y < x) BY <1>1, <1>3
  <1>5. \A y \in I : x <= y BY <1>4
  <1>6. \A a, b \in I : (a <= b /\ b <= a) => a = b OBVIOUS
  <1>7. QED BY <1>3, <1>5, <1>6 DEF Min

\* r is s without its first m characters, which are of these.
FrontGone(r, s, chars, m) ==
    /\ m \in 0..Len(s)
    /\ Len(r) = Len(s) - m
    /\ \A j \in 1..Len(r) : r[j] = s[j + m]
    /\ \A j \in 1..m : s[j] \in chars
    /\ r # <<>> => r[1] \notin chars

LEMMA DropWhileIs ==
    ASSUME NEW S, NEW s \in Seq(S), NEW chars
    PROVE  /\ DropWhile(s, chars) \in Seq(S)
           /\ \E m \in Nat : FrontGone(DropWhile(s, chars), s, chars, m)
  <1> DEFINE keep == {i \in DOMAIN s : s[i] \notin chars}
             r == DropWhile(s, chars)
             n == Len(s)
  <1>1. /\ n \in Nat /\ DOMAIN s = 1..n /\ \A i \in 1..n : s[i] \in S
    OBVIOUS
  <1>2. r = IF keep = {} THEN <<>> ELSE SubSeq(s, Min(keep), n) BY DEF DropWhile
  <1>3. \A i : i \in keep <=> i \in 1..n /\ s[i] \notin chars BY <1>1
  <1> HIDE DEF r, keep
  <1>4. CASE keep = {}
    <2>1. r = <<>> /\ r \in Seq(S) /\ Len(r) = 0 BY <1>2, <1>4
    <2>2. \A j \in 1..n : s[j] \in chars BY <1>3, <1>4
    <2>3. FrontGone(r, s, chars, n) BY <1>1, <2>1, <2>2 DEF FrontGone
    <2>4. QED BY <1>1, <2>1, <2>3 DEF r
  <1>5. CASE keep # {}
    <2> DEFINE k == Min(keep)
               m == k - 1
    <2>1. keep \in SUBSET Nat BY <1>1, <1>3
    <2>2. k \in keep /\ \A y \in keep : k <= y BY <1>5, <2>1, MinIsIn
    <2> HIDE DEF k
    <2>3. k \in 1..n /\ s[k] \notin chars BY <1>3, <2>2
    <2>4. r = SubSeq(s, k, n) BY <1>2, <1>5 DEF k
    <2> HIDE DEF n
    <2>5. /\ r \in Seq(S) /\ Len(r) = n - k + 1
          /\ \A i \in 1..(n - k + 1) : r[i] = s[k + i - 1]
      <3>1. k \in Int /\ n \in Int /\ k <= n BY <1>1, <2>3
      <3>2. \A i \in k..n : s[i] \in S BY <1>1, <2>3
      <3>3. QED BY <2>4, <3>1, <3>2, SubSeqProperties
    <2>6. m \in 0..n /\ m \in Nat /\ Len(r) = n - m BY <1>1, <2>3, <2>5
    <2>7. \A j \in 1..Len(r) : r[j] = s[j + m]
      <3>1. \A j \in 1..Len(r) : j \in 1..(n - k + 1) /\ k + j - 1 = j + m BY <1>1, <2>3, <2>5
      <3> HIDE DEF m
      <3>2. QED BY <2>5, <3>1
    <2>8. \A j \in 1..m : s[j] \in chars
      <3>1. \A j \in 1..m : j \in 1..n /\ ~(k <= j) BY <1>1, <2>3
      <3>2. QED BY <1>3, <2>2, <3>1
    <2>9. r[1] \notin chars
      <3>1. 1 \in 1..Len(r) /\ 1 + m = k BY <1>1, <2>3, <2>5
      <3>2. QED BY <2>3, <2>7, <3>1
    <2> HIDE DEF m
    <2>10. FrontGone(r, s, chars, m) BY <2>6, <2>7, <2>8, <2>9 DEF FrontGone, n
    <2>11. QED BY <2>5, <2>6, <2>10 DEF r
  <1>6. QED BY <1>4, <1>5

\* r is s without its last characters, which are of these.
EndGone(r, s, chars) ==
    /\ Len(r) <= Len(s)
    /\ \A j \in 1..Len(r) : r[j] = s[j]
    /\ \A j \in (Len(r) + 1)..Len(s) : s[j] \in chars
    /\ r # <<>> => r[Len(r)] \notin chars

LEMMA Reversed ==
    ASSUME NEW S, NEW s \in Seq(S)
    PROVE  /\ Reverse(s) \in Seq(S) /\ Len(Reverse(s)) = Len(s)
           /\ \A i \in 1..Len(s) : Reverse(s)[i] = s[(Len(s) - i) + 1]
  <1>1. Len(s) \in Nat /\ \A i \in 1..Len(s) : s[(Len(s) - i) + 1] \in S
    <2>1. \A i \in 1..Len(s) : (Len(s) - i) + 1 \in 1..Len(s) OBVIOUS
    <2>2. QED BY <2>1
  <1>2. QED BY <1>1 DEF Reverse

LEMMA DropEndIs ==
    ASSUME NEW S, NEW s \in Seq(S), NEW chars
    PROVE  DropEnd(s, chars) \in Seq(S) /\ EndGone(DropEnd(s, chars), s, chars)
  <1> DEFINE b == Reverse(s)
             d == DropWhile(b, chars)
             r == Reverse(d)
             n == Len(s)
             l == Len(d)
  <1>1. n \in Nat BY LenProperties
  <1>2. b \in Seq(S) /\ Len(b) = n /\ \A i \in 1..n : b[i] = s[(n - i) + 1] BY Reversed
  <1> HIDE DEF b
  <1>3. d \in Seq(S) /\ \E m \in Nat : FrontGone(d, b, chars, m) BY <1>2, DropWhileIs
  <1>4. PICK m \in Nat : FrontGone(d, b, chars, m) BY <1>3
  <1> HIDE DEF d
  <1>5. r \in Seq(S) /\ Len(r) = l /\ \A i \in 1..l : r[i] = d[(l - i) + 1]
    BY <1>3, Reversed
  <1> HIDE DEF n, r, l
  <1>6. m \in 0..n /\ l \in Nat /\ l = n - m BY <1>1, <1>2, <1>4 DEF FrontGone, l
  <1>7. \A j \in 1..l : r[j] = s[j]
    <2> SUFFICES ASSUME NEW j \in 1..l PROVE r[j] = s[j] OBVIOUS
    <2>1. (l - j) + 1 \in 1..l BY <1>6
    <2>2. d[(l - j) + 1] = b[((l - j) + 1) + m] BY <1>4, <2>1 DEF FrontGone, l
    <2>3. ((l - j) + 1) + m \in 1..n /\ (n - (((l - j) + 1) + m)) + 1 = j BY <1>1, <1>6
    <2>4. b[((l - j) + 1) + m] = s[j] BY <1>2, <2>3
    <2>5. QED BY <1>5, <2>2, <2>4
  <1>8. \A j \in (l + 1)..n : s[j] \in chars
    <2> SUFFICES ASSUME NEW j \in (l + 1)..n PROVE s[j] \in chars OBVIOUS
    <2>1. (n - j) + 1 \in 1..m /\ (n - j) + 1 \in 1..n /\ (n - ((n - j) + 1)) + 1 = j
      BY <1>1, <1>6
    <2>2. b[(n - j) + 1] \in chars BY <1>4, <2>1 DEF FrontGone
    <2>3. b[(n - j) + 1] = s[j] BY <1>2, <2>1
    <2>4. QED BY <2>2, <2>3
  <1>9. r # <<>> => r[l] \notin chars
    <2> SUFFICES ASSUME r # <<>> PROVE r[l] \notin chars OBVIOUS
    <2>1. l # 0 BY <1>5
    <2>2. l \in 1..l /\ (l - l) + 1 = 1 BY <1>6, <2>1
    <2>3. r[l] = d[1] BY <1>5, <2>2
    <2>4. d # <<>> BY <2>1 DEF l
    <2>5. QED BY <1>4, <2>3, <2>4 DEF FrontGone
  <1>10. DropEnd(s, chars) = r BY DEF DropEnd, r, d, b
  <1>11. EndGone(r, s, chars)
    BY <1>1, <1>5, <1>6, <1>7, <1>8, <1>9 DEF EndGone, n
  <1>12. QED BY <1>5, <1>10, <1>11

LEMMA SetOf ==
    ASSUME NEW S, NEW s \in Seq(S)
    PROVE  /\ Len(s) \in Nat /\ DOMAIN s = 1..Len(s)
           /\ ToSet(s) \subseteq S
           /\ \A x : x \in ToSet(s) <=> \E i \in 1..Len(s) : s[i] = x
  BY DEF ToSet

\* What is dropped at either end is of these characters.
LEMMA DropsOnly ==
    ASSUME NEW S, NEW s \in Seq(S), NEW chars
    PROVE  /\ DropWhile(s, chars) \in Seq(S)
           /\ ToSet(DropWhile(s, chars)) \subseteq ToSet(s)
           /\ ToSet(s) \ chars \subseteq ToSet(DropWhile(s, chars))
           /\ DropEnd(s, chars) \in Seq(S)
           /\ ToSet(DropEnd(s, chars)) \subseteq ToSet(s)
           /\ ToSet(s) \ chars \subseteq ToSet(DropEnd(s, chars))
  <1> DEFINE r == DropWhile(s, chars)
             e == DropEnd(s, chars)
  <1>1. r \in Seq(S) /\ \E m \in Nat : FrontGone(r, s, chars, m) BY DropWhileIs
  <1>2. e \in Seq(S) /\ EndGone(e, s, chars) BY DropEndIs
  <1> HIDE DEF r, e
  <1>3. /\ Len(s) \in Nat /\ Len(r) \in Nat /\ Len(e) \in Nat BY <1>1, <1>2, LenProperties
  <1>4. \A x : x \in ToSet(s) <=> \E i \in 1..Len(s) : s[i] = x BY SetOf
  <1>5. \A x : x \in ToSet(r) <=> \E i \in 1..Len(r) : r[i] = x BY <1>1, SetOf
  <1>6. \A x : x \in ToSet(e) <=> \E i \in 1..Len(e) : e[i] = x BY <1>2, SetOf
  <1>7. PICK m \in Nat : FrontGone(r, s, chars, m) BY <1>1
  <1>8. ToSet(r) \subseteq ToSet(s)
    <2>1. \A i \in 1..Len(r) : i + m \in 1..Len(s) /\ r[i] = s[i + m]
      BY <1>3, <1>7 DEF FrontGone
    <2>2. QED BY <1>4, <1>5, <2>1
  <1>9. ToSet(s) \ chars \subseteq ToSet(r)
    <2> SUFFICES ASSUME NEW x \in ToSet(s), x \notin chars PROVE x \in ToSet(r) OBVIOUS
    <2>1. PICK k \in 1..Len(s) : s[k] = x BY <1>4
    <2>2. ~(k \in 1..m) BY <1>7, <2>1 DEF FrontGone
    <2>3. k - m \in 1..Len(r) /\ (k - m) + m = k BY <1>3, <1>7, <2>2 DEF FrontGone
    <2>4. r[k - m] = x BY <1>7, <2>1, <2>3 DEF FrontGone
    <2>5. QED BY <1>5, <2>3, <2>4
  <1>10. ToSet(e) \subseteq ToSet(s)
    <2>1. \A i \in 1..Len(e) : i \in 1..Len(s) /\ e[i] = s[i] BY <1>2, <1>3 DEF EndGone
    <2>2. QED BY <1>4, <1>6, <2>1
  <1>11. ToSet(s) \ chars \subseteq ToSet(e)
    <2> SUFFICES ASSUME NEW x \in ToSet(s), x \notin chars PROVE x \in ToSet(e) OBVIOUS
    <2>1. PICK k \in 1..Len(s) : s[k] = x BY <1>4
    <2>2. ~(k \in (Len(e) + 1)..Len(s)) BY <1>2, <2>1 DEF EndGone
    <2>3. k \in 1..Len(e) BY <1>3, <2>2
    <2>4. e[k] = x BY <1>2, <2>1, <2>3 DEF EndGone
    <2>5. QED BY <1>6, <2>3, <2>4
  <1>12. QED BY <1>1, <1>2, <1>8, <1>9, <1>10, <1>11 DEF r, e

\* Nothing is dropped where the first, or the last, is not of these characters.
LEMMA NothingToDrop ==
    ASSUME NEW S, NEW s \in Seq(S), NEW chars
    PROVE  /\ s # <<>> /\ s[1] \notin chars => DropWhile(s, chars) = s
           /\ s # <<>> /\ s[Len(s)] \notin chars => DropEnd(s, chars) = s
           /\ s = <<>> => DropWhile(s, chars) = s /\ DropEnd(s, chars) = s
  <1> DEFINE r == DropWhile(s, chars)
             e == DropEnd(s, chars)
  <1>1. r \in Seq(S) /\ \E m \in Nat : FrontGone(r, s, chars, m) BY DropWhileIs
  <1>2. e \in Seq(S) /\ EndGone(e, s, chars) BY DropEndIs
  <1> HIDE DEF r, e
  <1>3. /\ Len(s) \in Nat /\ Len(r) \in Nat /\ Len(e) \in Nat BY <1>1, <1>2, LenProperties
  <1>4. s = <<>> => Len(s) = 0 OBVIOUS
  <1>5. s # <<>> => Len(s) # 0 OBVIOUS
  <1>6. PICK m \in Nat : FrontGone(r, s, chars, m) BY <1>1
  <1>7. ASSUME s = <<>> \/ s[1] \notin chars PROVE r = s
    <2>1. m = 0
      <3>1. CASE s = <<>> BY <1>4, <1>6, <3>1 DEF FrontGone
      <3>2. CASE s[1] \notin chars BY <1>6, <3>2 DEF FrontGone
      <3>3. QED BY <1>7, <3>1, <3>2
    <2>2. Len(r) = Len(s) /\ \A j \in 1..Len(r) : r[j] = s[j + m] BY <1>3, <1>6, <2>1 DEF FrontGone
    <2>3. \A j \in 1..Len(r) : j + m = j BY <2>1
    <2>4. \A j \in 1..Len(r) : r[j] = s[j] BY <2>2, <2>3
    <2>5. QED BY <1>1, <2>2, <2>4, SeqEqual
  <1>8. ASSUME s = <<>> \/ s[Len(s)] \notin chars PROVE e = s
    <2>1. Len(e) = Len(s)
      <3>1. CASE s = <<>> BY <1>2, <1>3, <1>4, <3>1 DEF EndGone
      <3>2. CASE s[Len(s)] \notin chars
        <4>1. ~(Len(s) \in (Len(e) + 1)..Len(s)) BY <1>2, <3>2 DEF EndGone
        <4>2. Len(e) <= Len(s) BY <1>2 DEF EndGone
        <4>3. QED BY <1>3, <4>1, <4>2
      <3>3. QED BY <1>8, <3>1, <3>2
    <2>2. \A j \in 1..Len(e) : e[j] = s[j] BY <1>2 DEF EndGone
    <2>3. QED BY <1>2, <2>1, <2>2, SeqEqual
  <1>9. QED BY <1>7, <1>8 DEF r, e

LEMMA TrimIs ==
    ASSUME NEW S, NEW s \in Seq(S)
    PROVE  /\ trim(s) \in Seq(S)
           /\ ToSet(trim(s)) \subseteq ToSet(s)
           /\ ToSet(s) \ {" "} \subseteq ToSet(trim(s))
           /\ " " \notin ToSet(s) => trim(s) = s
  <1> DEFINE d == DropWhile(s, {" "})
  <1>1. /\ d \in Seq(S) /\ ToSet(d) \subseteq ToSet(s) /\ ToSet(s) \ {" "} \subseteq ToSet(d)
    BY DropsOnly
  <1> HIDE DEF d
  <1>2. trim(s) = DropEnd(d, {" "}) BY DEF trim, d
  <1>3. /\ DropEnd(d, {" "}) \in Seq(S) /\ ToSet(DropEnd(d, {" "})) \subseteq ToSet(d)
        /\ ToSet(d) \ {" "} \subseteq ToSet(DropEnd(d, {" "}))
    BY <1>1, DropsOnly
  <1>4. ASSUME " " \notin ToSet(s) PROVE trim(s) = s
    <2>1. Len(s) \in Nat /\ \A i \in 1..Len(s) : s[i] # " " BY <1>4, SetOf
    <2>2. CASE s = <<>>
      <3>1. d = s BY <2>2, NothingToDrop DEF d
      <3>2. QED BY <1>2, <2>2, <3>1, NothingToDrop
    <2>3. CASE s # <<>>
      <3>1. Len(s) # 0 BY <2>3
      <3>2. s[1] \notin {" "} /\ s[Len(s)] \notin {" "}
        <4>1. \A l \in Nat : l # 0 => 1 \in 1..l /\ l \in 1..l OBVIOUS
        <4>2. 1 \in 1..Len(s) /\ Len(s) \in 1..Len(s) BY <2>1, <3>1, <4>1
        <4>3. QED BY <2>1, <4>2
      <3>3. d = s BY <2>3, <3>2, NothingToDrop DEF d
      <3>4. QED BY <1>2, <2>3, <3>2, <3>3, NothingToDrop
    <2>4. QED BY <2>2, <2>3
  <1>5. QED BY <1>1, <1>2, <1>3, <1>4

\* A flattened sequence holds what its parts hold.
LEMMA FlattenIs ==
    ASSUME NEW S, NEW parts \in Seq(Seq(S))
    PROVE  /\ FlattenSeq(parts) \in Seq(S)
           /\ \A x : x \in ToSet(FlattenSeq(parts))
                       <=> \E k \in DOMAIN parts : x \in ToSet(parts[k])
  <1> DEFINE n == Len(parts)
  <1>1. n \in Nat /\ DOMAIN parts = 1..n /\ \A k \in 1..n : parts[k] \in Seq(S) OBVIOUS
  <1>2. PICK T : Unrolled(T, S, parts) /\ FlattenSeq(parts) = T[n] BY Flattened
  <1> DEFINE P == {k \in Nat : k <= n =>
                      \A x : x \in ToSet(T[k]) <=> \E i \in 1..k : x \in ToSet(parts[i])}
  <1> HIDE DEF n
  <1>3. /\ \A k \in 0..n : T[k] \in Seq(S)
        /\ T[0] = <<>>
        /\ \A k \in 1..n : T[k] = T[k - 1] \o parts[k]
    BY <1>2 DEF Unrolled, n
  <1>4. 0 \in P
    <2>1. ToSet(<<>>) = {} BY DEF ToSet
    <2>2. QED BY <1>3, <2>1
  <1>5. ASSUME NEW k \in Nat, k \in P PROVE k + 1 \in P
    <2>1. SUFFICES ASSUME k + 1 <= n, NEW x
                   PROVE  x \in ToSet(T[k + 1]) <=> \E i \in 1..(k + 1) : x \in ToSet(parts[i])
      OBVIOUS
    <2>2. k + 1 \in 1..n /\ (k + 1) - 1 = k /\ k <= n /\ k \in 0..n BY <1>1, <2>1
    <2> DEFINE t == T[k]
               p == parts[k + 1]
    <2>3. t \in Seq(S) /\ p \in Seq(S) /\ T[k + 1] = t \o p BY <1>1, <1>3, <2>2
    <2>4. x \in ToSet(t) <=> \E i \in 1..k : x \in ToSet(parts[i]) BY <1>5, <2>2
    <2> HIDE DEF t, p
    <2>5. x \in ToSet(t \o p) <=> x \in ToSet(t) \/ x \in ToSet(p)
      <3> DEFINE c == t \o p
      <3>1. /\ c \in Seq(S) /\ Len(c) = Len(t) + Len(p) /\ Len(t) \in Nat /\ Len(p) \in Nat
            /\ \A i \in 1..(Len(t) + Len(p)) : c[i] = IF i <= Len(t) THEN t[i] ELSE p[i - Len(t)]
        BY <2>3, ConcatProperties, LenProperties
      <3> HIDE DEF c
      <3>2. /\ x \in ToSet(c) <=> \E i \in 1..Len(c) : c[i] = x
            /\ x \in ToSet(t) <=> \E i \in 1..Len(t) : t[i] = x
            /\ x \in ToSet(p) <=> \E i \in 1..Len(p) : p[i] = x
        BY <2>3, <3>1, SetOf
      <3>3. ASSUME NEW i \in 1..Len(c), c[i] = x PROVE x \in ToSet(t) \/ x \in ToSet(p)
        <4>1. CASE i <= Len(t) BY <3>1, <3>2, <3>3, <4>1
        <4>2. CASE ~(i <= Len(t))
          <5>1. i - Len(t) \in 1..Len(p) BY <3>1, <4>2
          <5>2. QED BY <3>1, <3>2, <3>3, <4>2, <5>1
        <4>3. QED BY <4>1, <4>2
      <3>4. ASSUME NEW i \in 1..Len(t), t[i] = x PROVE x \in ToSet(c)
        <4>1. i \in 1..Len(c) /\ i \in 1..(Len(t) + Len(p)) /\ i <= Len(t) BY <3>1
        <4>2. c[i] = x BY <3>1, <3>4, <4>1
        <4>3. QED BY <3>2, <4>1, <4>2
      <3>5. ASSUME NEW i \in 1..Len(p), p[i] = x PROVE x \in ToSet(c)
        <4> DEFINE j == i + Len(t)
        <4>1. j \in 1..Len(c) /\ j \in 1..(Len(t) + Len(p)) /\ ~(j <= Len(t)) /\ j - Len(t) = i
          BY <3>1
        <4> HIDE DEF j
        <4>2. c[j] = x BY <3>1, <3>5, <4>1
        <4>3. QED BY <3>2, <4>1, <4>2
      <3>6. QED BY <3>2, <3>3, <3>4, <3>5 DEF c
    <2>6. (\E i \in 1..(k + 1) : x \in ToSet(parts[i]))
            <=> (\E i \in 1..k : x \in ToSet(parts[i])) \/ x \in ToSet(p)
      <3>1. 1..(k + 1) = (1..k) \cup {k + 1} OBVIOUS
      <3>2. QED BY <3>1 DEF p
    <2>7. QED BY <2>3, <2>4, <2>5, <2>6
  <1> HIDE DEF P
  <1>6. n \in P BY <1>1, <1>4, <1>5, EveryNumber
  <1>7. \A x : x \in ToSet(T[n]) <=> \E i \in 1..n : x \in ToSet(parts[i]) BY <1>6 DEF P
  <1>8. T[n] \in Seq(S) BY <1>1, <1>3
  <1>9. QED BY <1>1, <1>2, <1>7, <1>8

LEMMA FlattenSingles ==
    ASSUME NEW S, NEW s \in Seq(S)
    PROVE  FlattenSeq([i \in DOMAIN s |-> <<s[i]>>]) = s
  <1> DEFINE parts == [i \in DOMAIN s |-> <<s[i]>>]
             n == Len(s)
  <1>1. n \in Nat /\ DOMAIN s = 1..n /\ \A i \in 1..n : s[i] \in S OBVIOUS
  <1>2. parts \in Seq(Seq(S)) /\ Len(parts) = n
    <2>1. \A i \in 1..n : <<s[i]>> \in Seq(S) BY <1>1
    <2>2. QED BY <1>1, <2>1
  <1>3. \A i \in 1..n : parts[i] = <<s[i]>> BY <1>1
  <1> HIDE DEF parts
  <1>4. PICK T : Unrolled(T, S, parts) /\ FlattenSeq(parts) = T[Len(parts)] BY <1>2, Flattened
  <1> HIDE DEF n
  <1>5. /\ \A k \in 0..n : T[k] \in Seq(S)
        /\ T[0] = <<>>
        /\ \A k \in 1..n : T[k] = T[k - 1] \o parts[k]
    BY <1>2, <1>4 DEF Unrolled
  <1> DEFINE P == {k \in Nat : k <= n => Len(T[k]) = k /\ \A j \in 1..k : T[k][j] = s[j]}
  <1>6. 0 \in P
    <2>1. Len(<<>>) = 0 OBVIOUS
    <2>2. QED BY <1>5, <2>1
  <1>7. ASSUME NEW k \in Nat, k \in P PROVE k + 1 \in P
    <2>1. SUFFICES ASSUME k + 1 <= n
                   PROVE  Len(T[k + 1]) = k + 1 /\ \A j \in 1..(k + 1) : T[k + 1][j] = s[j]
      OBVIOUS
    <2>2. k + 1 \in 1..n /\ (k + 1) - 1 = k /\ k <= n /\ k \in 0..n BY <1>1, <2>1
    <2> DEFINE t == T[k]
               x == s[k + 1]
               c == T[k + 1]
    <2>3. t \in Seq(S) /\ x \in S /\ c = t \o <<x>> BY <1>1, <1>3, <1>5, <2>2
    <2>4. Len(t) = k /\ \A j \in 1..k : t[j] = s[j] BY <1>7, <2>2
    <2> HIDE DEF t, c
    <2>5. <<x>> \in Seq(S) /\ Len(<<x>>) = 1 /\ <<x>>[1] = x BY <2>3
    <2>6. /\ Len(c) = k + 1
          /\ \A i \in 1..(k + 1) : c[i] = IF i <= k THEN t[i] ELSE <<x>>[i - k]
      BY <2>3, <2>4, <2>5, ConcatProperties
    <2>7. \A j \in 1..(k + 1) : c[j] = s[j]
      <3> SUFFICES ASSUME NEW j \in 1..(k + 1) PROVE c[j] = s[j] OBVIOUS
      <3>1. CASE j <= k BY <2>4, <2>6, <3>1
      <3>2. CASE ~(j <= k)
        <4>1. j = k + 1 /\ j - k = 1 BY <3>2
        <4> HIDE DEF x
        <4>2. c[j] = x BY <2>5, <2>6, <3>2, <4>1
        <4>3. QED BY <4>1, <4>2 DEF x
      <3>3. QED BY <3>1, <3>2
    <2>8. QED BY <2>6, <2>7 DEF c
  <1> HIDE DEF P
  <1>8. n \in P BY <1>1, <1>6, <1>7, EveryNumber
  <1>9. Len(T[n]) = n /\ \A j \in 1..n : T[n][j] = s[j] BY <1>1, <1>8 DEF P
  <1>10. T[n] \in Seq(S) BY <1>1, <1>5
  <1>11. T[n] = s
    <2> DEFINE t == T[n]
    <2>1. t \in Seq(S) /\ Len(t) = Len(s) /\ \A j \in 1..Len(t) : t[j] = s[j] BY <1>9, <1>10 DEF n
    <2> HIDE DEF t
    <2>2. t = s BY <2>1, SeqEqual
    <2>3. QED BY <2>2 DEF t
  <1>12. QED BY <1>2, <1>4, <1>11 DEF parts

-----------------------------------------------------------------------------
(* Names in kebab case *)

\* What toKebabCase makes of each character, in its three passes.
SplitParts(t) ==
    [i \in DOMAIN t |->
        IF t[i] = "A" /\ i > 1 /\ t[i - 1] \in {"a", "1"} THEN <<"-", "A">> ELSE <<t[i]>>]

DashParts(t) ==
    [i \in DOMAIN t |->
        IF t[i] \in Separators THEN <<"-">>
        ELSE IF t[i] \in Alnum THEN <<ToLower(t[i])>> ELSE <<>>]

SingleParts(t) ==
    [i \in DOMAIN t |-> IF t[i] = "-" /\ i > 1 /\ t[i - 1] = "-" THEN <<>> ELSE <<t[i]>>]

LEMMA KebabPasses ==
    ASSUME NEW n
    PROVE  toKebabCase(n) =
             DropEnd(DropWhile(
                FlattenSeq(SingleParts(FlattenSeq(DashParts(FlattenSeq(SplitParts(trim(n))))))),
                {"-"}), {"-"})
  BY Zenon DEF toKebabCase, Rewrite, SplitParts, DashParts, SingleParts

\* What each pass gives of a sequence.
LEMMA SplitIs ==
    ASSUME NEW t \in Seq(Characters)
    PROVE  /\ FlattenSeq(SplitParts(t)) \in Seq(Characters)
           /\ ToSet(t) \subseteq ToSet(FlattenSeq(SplitParts(t)))
           /\ "A" \notin ToSet(t) => FlattenSeq(SplitParts(t)) = t
  <1> DEFINE p == SplitParts(t)
             n == Len(t)
  <1>1. n \in Nat /\ DOMAIN t = 1..n /\ \A i \in 1..n : t[i] \in Characters OBVIOUS
  <1>2. /\ DOMAIN p = 1..n
        /\ \A i \in 1..n : \/ p[i] = <<"-", "A">> /\ t[i] = "A"
                           \/ p[i] = <<t[i]>>
    BY <1>1 DEF SplitParts
  <1>3. p \in Seq(Seq(Characters))
    <2>1. <<"-", "A">> \in Seq(Characters)
      <3>1. \A x, y \in Characters : <<x, y>> \in Seq(Characters) OBVIOUS
      <3>2. "-" \in Characters /\ "A" \in Characters BY DEF Characters
      <3>3. QED BY <3>1, <3>2
    <2>2. \A x \in Characters : <<x>> \in Seq(Characters) OBVIOUS
    <2>3. \A i \in 1..n : p[i] \in Seq(Characters) BY <1>1, <1>2, <2>1, <2>2
    <2>4. p = [i \in 1..n |-> p[i]] BY <1>1 DEF SplitParts
    <2> HIDE DEF p
    <2>5. QED BY <1>1, <2>3, <2>4
  <1>4. "A" \notin ToSet(t) => p = [i \in DOMAIN t |-> <<t[i]>>]
    BY <1>1, SetOf DEF SplitParts
  <1> HIDE DEF p
  <1>5. /\ FlattenSeq(p) \in Seq(Characters)
        /\ \A x : x \in ToSet(FlattenSeq(p)) <=> \E k \in DOMAIN p : x \in ToSet(p[k])
    BY <1>3, FlattenIs
  <1>6. ToSet(t) \subseteq ToSet(FlattenSeq(p))
    <2> SUFFICES ASSUME NEW i \in 1..n PROVE t[i] \in ToSet(FlattenSeq(p)) BY <1>1, SetOf
    <2>1. t[i] \in ToSet(p[i])
      <3>1. CASE p[i] = <<t[i]>>
        <4>1. \A x : x \in ToSet(<<x>>) BY DEF ToSet
        <4>2. QED BY <3>1, <4>1
      <3>2. CASE p[i] = <<"-", "A">> /\ t[i] = "A"
        <4>1. "A" \in ToSet(<<"-", "A">>)
          <5>1. <<"-", "A">>[2] = "A" /\ 2 \in DOMAIN <<"-", "A">> OBVIOUS
          <5>2. QED BY <5>1 DEF ToSet
        <4>2. QED BY <3>2, <4>1
      <3>3. QED BY <1>2, <3>1, <3>2
    <2>2. QED BY <1>2, <1>5, <2>1
  <1>7. "A" \notin ToSet(t) => FlattenSeq(p) = t BY <1>4, FlattenSingles
  <1>8. QED BY <1>5, <1>6, <1>7 DEF p

Lower == {"a", "1", "-"}

LEMMA DashIs ==
    ASSUME NEW t \in Seq(Characters)
    PROVE  /\ FlattenSeq(DashParts(t)) \in Seq(Lower)
           /\ ToSet(t) \cap {"a", "A"} # {} => "a" \in ToSet(FlattenSeq(DashParts(t)))
           /\ ToSet(t) \subseteq Lower => FlattenSeq(DashParts(t)) = t
  <1> DEFINE p == DashParts(t)
             n == Len(t)
  <1>1. n \in Nat /\ DOMAIN t = 1..n /\ \A i \in 1..n : t[i] \in Characters OBVIOUS
  <1>2. /\ DOMAIN p = 1..n
        /\ \A i \in 1..n : /\ p[i] \in {<<>>, <<"a">>, <<"1">>, <<"-">>}
                           /\ t[i] \in {"a", "A"} => p[i] = <<"a">>
                           /\ t[i] \in Lower => p[i] = <<t[i]>>
    BY <1>1 DEF DashParts, Characters, Separators, Alnum, ToLower, Lower
  <1>3. p \in Seq(Seq(Lower))
    <2>1. {<<>>, <<"a">>, <<"1">>, <<"-">>} \subseteq Seq(Lower) BY DEF Lower
    <2>2. \A i \in 1..n : p[i] \in Seq(Lower) BY <1>2, <2>1
    <2>3. p = [i \in 1..n |-> p[i]] BY <1>1 DEF DashParts
    <2> HIDE DEF p
    <2>4. QED BY <1>1, <2>2, <2>3
  <1>4. ToSet(t) \subseteq Lower => p = [i \in DOMAIN t |-> <<t[i]>>]
    <2> SUFFICES ASSUME ToSet(t) \subseteq Lower PROVE p = [i \in DOMAIN t |-> <<t[i]>>] OBVIOUS
    <2>1. \A i \in 1..n : t[i] \in Lower BY <1>1, SetOf
    <2>2. \A i \in 1..n : p[i] = <<t[i]>> BY <1>2, <2>1
    <2>3. p = [i \in 1..n |-> p[i]] BY <1>1 DEF DashParts
    <2> HIDE DEF p
    <2>4. QED BY <1>1, <2>2, <2>3
  <1> HIDE DEF p
  <1>5. /\ FlattenSeq(p) \in Seq(Lower)
        /\ \A x : x \in ToSet(FlattenSeq(p)) <=> \E k \in DOMAIN p : x \in ToSet(p[k])
    BY <1>3, FlattenIs
  <1>6. ASSUME ToSet(t) \cap {"a", "A"} # {} PROVE "a" \in ToSet(FlattenSeq(p))
    <2>1. PICK i \in 1..n : t[i] \in {"a", "A"} BY <1>1, <1>6, SetOf
    <2>2. "a" \in ToSet(<<"a">>) BY DEF ToSet
    <2>3. QED BY <1>2, <1>5, <2>1, <2>2
  <1>7. ToSet(t) \subseteq Lower => FlattenSeq(p) = t BY <1>4, FlattenSingles
  <1>8. QED BY <1>5, <1>6, <1>7 DEF p

\* No dash follows another.
NoDouble(s) == \A i \in 2..Len(s) : s[i] = "-" => s[i - 1] # "-"

LEMMA SingleIs ==
    ASSUME NEW t \in Seq(Lower)
    PROVE  /\ FlattenSeq(SingleParts(t)) \in Seq(Lower)
           /\ NoDouble(FlattenSeq(SingleParts(t)))
           /\ "a" \in ToSet(t) => "a" \in ToSet(FlattenSeq(SingleParts(t)))
           /\ NoDouble(t) => FlattenSeq(SingleParts(t)) = t
  <1> DEFINE p == SingleParts(t)
             n == Len(t)
  <1>1. n \in Nat /\ DOMAIN t = 1..n /\ \A i \in 1..n : t[i] \in Lower OBVIOUS
  <1>2. /\ DOMAIN p = 1..n
        /\ \A i \in 1..n : p[i] = IF t[i] = "-" /\ i > 1 /\ t[i - 1] = "-" THEN <<>> ELSE <<t[i]>>
    BY <1>1 DEF SingleParts
  <1>3. p \in Seq(Seq(Lower))
    <2>1. \A x \in Lower : <<x>> \in Seq(Lower) OBVIOUS
    <2>2. <<>> \in Seq(Lower) OBVIOUS
    <2>3. \A i \in 1..n : p[i] \in Seq(Lower) BY <1>1, <1>2, <2>1, <2>2
    <2>4. p = [i \in 1..n |-> p[i]] BY <1>1 DEF SingleParts
    <2> HIDE DEF p
    <2>5. QED BY <1>1, <2>3, <2>4
  <1>4. NoDouble(t) => p = [i \in DOMAIN t |-> <<t[i]>>]
    <2> SUFFICES ASSUME NoDouble(t) PROVE p = [i \in DOMAIN t |-> <<t[i]>>] OBVIOUS
    <2>1. \A i \in 1..n : i > 1 => i \in 2..n BY <1>1
    <2>2. \A i \in 1..n : p[i] = <<t[i]>> BY <1>2, <2>1 DEF NoDouble
    <2>3. p = [i \in 1..n |-> p[i]] BY <1>1 DEF SingleParts
    <2> HIDE DEF p
    <2>4. QED BY <1>1, <2>2, <2>3
  <1> HIDE DEF p
  <1>5. /\ FlattenSeq(p) \in Seq(Lower)
        /\ \A x : x \in ToSet(FlattenSeq(p)) <=> \E k \in DOMAIN p : x \in ToSet(p[k])
    BY <1>3, FlattenIs
  <1>6. ASSUME "a" \in ToSet(t) PROVE "a" \in ToSet(FlattenSeq(p))
    <2>1. PICK i \in 1..n : t[i] = "a" BY <1>1, <1>6, SetOf
    <2>2. "a" \in ToSet(<<"a">>) BY DEF ToSet
    <2>3. p[i] = <<"a">> BY <1>2, <2>1
    <2>4. QED BY <1>2, <1>5, <2>2, <2>3
  <1>7. NoDouble(t) => FlattenSeq(p) = t BY <1>4, FlattenSingles
  <1>8. NoDouble(FlattenSeq(p))
    <2>1. Len(p) = n BY <1>1, <1>2, <1>3, LenProperties
    <2>2. PICK T : Unrolled(T, Lower, p) /\ FlattenSeq(p) = T[n] BY <1>3, <2>1, Flattened
    <2>3. /\ \A k \in 0..n : T[k] \in Seq(Lower)
          /\ T[0] = <<>>
          /\ \A k \in 1..n : T[k] = T[k - 1] \o p[k]
      BY <2>1, <2>2 DEF Unrolled
    <2> DEFINE P == {k \in Nat : k <= n =>
                       /\ NoDouble(T[k])
                       /\ k > 0 => Len(T[k]) > 0 /\ T[k][Len(T[k])] = t[k]}
    <2> HIDE DEF n
    <2>4. 0 \in P
      <3>1. NoDouble(<<>>) BY DEF NoDouble
      <3>2. QED BY <2>3, <3>1
    <2>5. ASSUME NEW k \in Nat, k \in P PROVE k + 1 \in P
      <3>1. SUFFICES ASSUME k + 1 <= n
                     PROVE  /\ NoDouble(T[k + 1])
                            /\ Len(T[k + 1]) > 0 /\ T[k + 1][Len(T[k + 1])] = t[k + 1]
        OBVIOUS
      <3>2. k + 1 \in 1..n /\ (k + 1) - 1 = k /\ k <= n /\ k \in 0..n BY <1>1, <3>1
      <3> DEFINE u == T[k]
                 c == T[k + 1]
                 x == t[k + 1]
                 l == Len(u)
      <3>3. /\ u \in Seq(Lower) /\ c = u \o p[k + 1] /\ x \in Lower BY <1>1, <2>3, <3>2
      <3>4. NoDouble(u) /\ (k > 0 => l > 0 /\ u[l] = t[k]) BY <2>5, <3>2
      <3>5. p[k + 1] = IF x = "-" /\ k > 0 /\ t[k] = "-" THEN <<>> ELSE <<x>>
        <4>1. k + 1 > 1 <=> k > 0 OBVIOUS
        <4>2. QED BY <1>2, <3>2, <4>1
      <3>6. l \in Nat BY <3>3
      <3>7. k = 0 => l = 0
        <4>1. k = 0 => u = <<>> BY <2>3
        <4>2. QED BY <4>1
      <3> HIDE DEF u, c, x
      <3>8. CASE x = "-" /\ k > 0 /\ t[k] = "-"
        <4>1. c = u BY <3>3, <3>5, <3>8, ConcatEmptySeq
        <4>2. QED BY <3>4, <3>8, <4>1 DEF c, x
      <3>9. CASE ~(x = "-" /\ k > 0 /\ t[k] = "-")
        <4>1. c = u \o <<x>> BY <3>3, <3>5, <3>9
        <4>2. <<x>> \in Seq(Lower) /\ Len(<<x>>) = 1 /\ <<x>>[1] = x BY <3>3
        <4>3. /\ Len(c) = l + 1
              /\ \A i \in 1..(l + 1) : c[i] = IF i <= Len(u) THEN u[i] ELSE <<x>>[i - Len(u)]
          BY <3>3, <4>1, <4>2, ConcatProperties
        <4> HIDE DEF l
        <4>4. c[l + 1] = x
          <5>1. l + 1 \in 1..(l + 1) /\ ~(l + 1 <= l) /\ (l + 1) - l = 1 BY <3>6
          <5>2. c[l + 1] = <<x>>[1] BY <4>3, <5>1 DEF l
          <5>3. QED BY <4>2, <5>2
        <4>5. \A i \in 1..l : c[i] = u[i]
          <5>1. \A i \in 1..l : i \in 1..(l + 1) /\ i <= l BY <3>6
          <5>2. QED BY <4>3, <5>1 DEF l
        <4>6. NoDouble(c)
          <5> SUFFICES ASSUME NEW i \in 2..(l + 1), c[i] = "-" PROVE c[i - 1] # "-"
            BY <4>3 DEF NoDouble
          <5>1. CASE i <= l
            <6>1. i \in 2..l /\ i \in 1..l /\ i - 1 \in 1..l BY <3>6, <5>1
            <6>2. u[i] = "-" BY <4>5, <6>1
            <6>3. u[i - 1] # "-" BY <3>4, <6>1, <6>2 DEF NoDouble, l
            <6>4. QED BY <4>5, <6>1, <6>3
          <5>2. CASE ~(i <= l)
            <6>1. i = l + 1 /\ i - 1 = l /\ l \in 1..l /\ l # 0 BY <3>6, <5>2
            <6>2. x = "-" BY <4>4, <6>1
            <6>3. k > 0 BY <3>7, <6>1
            <6>4. u[l] = t[k] /\ t[k] # "-" BY <3>4, <3>9, <6>2, <6>3
            <6>5. QED BY <4>5, <6>1, <6>4
          <5>3. QED BY <5>1, <5>2
        <4>7. Len(c) > 0 /\ c[Len(c)] = x BY <3>6, <4>3, <4>4
        <4>8. QED BY <4>6, <4>7 DEF c, x
      <3>10. QED BY <3>8, <3>9
    <2> HIDE DEF P
    <2>6. n \in P BY <1>1, <2>4, <2>5, EveryNumber
    <2>7. QED BY <1>1, <2>2, <2>6 DEF P
  <1>9. QED BY <1>5, <1>6, <1>7, <1>8 DEF p

LEMMA LowerIsKnown ==
    ASSUME NEW s \in Seq(Lower)
    PROVE  s \in Seq(Characters)
  <1>1. Lower \subseteq Characters BY DEF Lower, Characters
  <1>2. QED BY <1>1, SeqMonotonic

\* Names in kebab case.
Kebab ==
    {k \in Seq(Lower) : NoDouble(k) /\ (k # <<>> => k[1] # "-" /\ k[Len(k)] # "-")}

LEMMA KebabIs ==
    ASSUME NEW n \in Seq(Characters)
    PROVE  /\ toKebabCase(n) \in Kebab
           /\ ToSet(n) \cap {"a", "A"} # {} => "a" \in ToSet(toKebabCase(n))
  <1> DEFINE t == trim(n)
             split == FlattenSeq(SplitParts(t))
             dashed == FlattenSeq(DashParts(split))
             single == FlattenSeq(SingleParts(dashed))
             d == DropWhile(single, {"-"})
             k == DropEnd(d, {"-"})
  <1>1. toKebabCase(n) = k BY KebabPasses
  <1>2. t \in Seq(Characters) /\ ToSet(n) \ {" "} \subseteq ToSet(t) BY TrimIs
  <1> HIDE DEF t
  <1>3. split \in Seq(Characters) /\ ToSet(t) \subseteq ToSet(split) BY <1>2, SplitIs
  <1> HIDE DEF split
  <1>4. /\ dashed \in Seq(Lower)
        /\ ToSet(split) \cap {"a", "A"} # {} => "a" \in ToSet(dashed)
    BY <1>3, DashIs
  <1> HIDE DEF dashed
  <1>5. /\ single \in Seq(Lower) /\ NoDouble(single)
        /\ "a" \in ToSet(dashed) => "a" \in ToSet(single)
    BY <1>4, SingleIs
  <1> HIDE DEF single
  <1>6. /\ d \in Seq(Lower) /\ ToSet(single) \ {"-"} \subseteq ToSet(d)
        /\ \E m \in Nat : FrontGone(d, single, {"-"}, m)
    BY <1>5, DropsOnly, DropWhileIs
  <1> HIDE DEF d
  <1>7. /\ k \in Seq(Lower) /\ ToSet(d) \ {"-"} \subseteq ToSet(k)
        /\ EndGone(k, d, {"-"})
    BY <1>6, DropsOnly, DropEndIs
  <1> HIDE DEF k
  <1>8. PICK m \in Nat : FrontGone(d, single, {"-"}, m) BY <1>6
  <1>9. Len(single) \in Nat /\ Len(d) \in Nat /\ Len(k) \in Nat BY <1>5, <1>6, <1>7, LenProperties
  <1>10. NoDouble(k)
    <2> SUFFICES ASSUME NEW i \in 2..Len(k), k[i] = "-" PROVE k[i - 1] # "-" BY DEF NoDouble
    <2>1. /\ i \in 1..Len(k) /\ i - 1 \in 1..Len(k) /\ i \in 1..Len(d) /\ i - 1 \in 1..Len(d)
      BY <1>7, <1>9 DEF EndGone
    <2>2. /\ i + m \in 2..Len(single) /\ (i - 1) + m = (i + m) - 1
      BY <1>8, <1>9, <2>1 DEF FrontGone
    <2>3. k[i] = d[i] /\ k[i - 1] = d[i - 1] BY <1>7, <2>1 DEF EndGone
    <2>4. d[i] = single[i + m] /\ d[i - 1] = single[(i + m) - 1] BY <1>8, <2>1, <2>2 DEF FrontGone
    <2>5. QED BY <1>5, <2>2, <2>3, <2>4 DEF NoDouble
  <1>11. k # <<>> => k[1] # "-" /\ k[Len(k)] # "-"
    <2> SUFFICES ASSUME k # <<>> PROVE k[1] # "-" /\ k[Len(k)] # "-" OBVIOUS
    <2>1. Len(k) # 0 BY <1>7
    <2>2. 1 \in 1..Len(k) BY <1>9, <2>1
    <2>3. k[1] = d[1] BY <1>7, <2>2 DEF EndGone
    <2>4. d # <<>>
      <3>1. Len(d) # 0 BY <1>7, <1>9, <2>1 DEF EndGone
      <3>2. QED BY <3>1
    <2>5. d[1] # "-" BY <1>8, <2>4 DEF FrontGone
    <2>6. k[Len(k)] # "-" BY <1>7 DEF EndGone
    <2>7. QED BY <2>3, <2>5, <2>6
  <1>12. k \in Kebab BY <1>7, <1>10, <1>11 DEF Kebab
  <1>13. ToSet(n) \cap {"a", "A"} # {} => "a" \in ToSet(k)
    BY <1>2, <1>3, <1>4, <1>5, <1>6, <1>7
  <1>14. QED BY <1>1, <1>12, <1>13

LEMMA KebabStable ==
    ASSUME NEW k \in Kebab
    PROVE  toKebabCase(k) = k
  <1>1. /\ k \in Seq(Lower) /\ k \in Seq(Characters) /\ NoDouble(k)
        /\ k # <<>> => k[1] # "-" /\ k[Len(k)] # "-"
    <2>1. k \in Seq(Lower) BY DEF Kebab
    <2>2. k \in Seq(Characters) BY <2>1, LowerIsKnown
    <2>3. QED BY <2>1, <2>2 DEF Kebab
  <1>2. ToSet(k) \subseteq Lower BY <1>1, SetOf
  <1>3. " " \notin ToSet(k) /\ "A" \notin ToSet(k) BY <1>2 DEF Lower
  <1>4. trim(k) = k BY <1>1, <1>3, TrimIs
  <1>5. FlattenSeq(SplitParts(k)) = k BY <1>1, <1>3, SplitIs
  <1>6. FlattenSeq(DashParts(k)) = k BY <1>1, <1>2, DashIs
  <1>7. FlattenSeq(SingleParts(k)) = k BY <1>1, SingleIs
  <1>8. DropWhile(k, {"-"}) = k /\ DropEnd(k, {"-"}) = k BY <1>1, NothingToDrop
  <1>9. QED BY <1>4, <1>5, <1>6, <1>7, <1>8, KebabPasses

-----------------------------------------------------------------------------
(* Names in camel case *)

CamelParts(t) ==
    [i \in DOMAIN t |->
        IF t[i] \in Separators
        THEN IF /\ {k \in (i + 1)..Len(t) : t[k] \notin Separators} # {}
                /\ t[Min({k \in (i + 1)..Len(t) : t[k] \notin Separators})] \in Alnum
             THEN <<>> ELSE <<t[i]>>
        ELSE IF i > 1 /\ t[i - 1] \in Separators THEN <<ToUpper(t[i])>> ELSE <<t[i]>>]

NoBeginning == {"1", "-", " ", "!"}

LEMMA CamelPasses ==
    ASSUME NEW n
    PROVE  toCamelCase(n) = DropWhile(FlattenSeq(CamelParts(trim(n))), NoBeginning)
  BY Zenon DEF toCamelCase, Rewrite, CamelParts, NoBeginning

LEMMA CamelIs ==
    ASSUME NEW n \in Seq(Characters)
    PROVE  /\ toCamelCase(n) \in Seq(Characters)
           /\ ToSet(n) \cap {"a", "A"} # {} => toCamelCase(n) # <<>>
           /\ ("!" \notin ToSet(n) /\ Last(trim(n)) \notin Separators) =>
                /\ ToSet(toCamelCase(n)) \subseteq Alnum
                /\ toCamelCase(n) # <<>> => Head(toCamelCase(n)) \in {"a", "A"}
  <1> DEFINE t == trim(n)
             p == CamelParts(t)
             l == Len(t)
             c == FlattenSeq(p)
             r == DropWhile(c, NoBeginning)
             After(i) == {k \in (i + 1)..l : t[k] \notin Separators}
  <1>1. /\ t \in Seq(Characters) /\ ToSet(t) \subseteq ToSet(n)
        /\ ToSet(n) \ {" "} \subseteq ToSet(t)
    BY TrimIs
  <1>2. l \in Nat /\ DOMAIN t = 1..l /\ \A i \in 1..l : t[i] \in Characters
    <2>1. t \in Seq(Characters) BY <1>1
    <2> HIDE DEF t
    <2>2. l \in Nat /\ DOMAIN t = 1..l BY <2>1, LenProperties
    <2>3. \A i \in 1..l : t[i] \in Characters BY <2>1, ElementOfSeq
    <2>4. QED BY <2>2, <2>3
  <1>3. \A x : x \in ToSet(t) <=> \E i \in 1..l : t[i] = x BY <1>1, SetOf
  <1> HIDE DEF t
  <1>4. /\ DOMAIN p = 1..l
        /\ \A i \in 1..l : p[i] =
             IF t[i] \in Separators
             THEN IF After(i) # {} /\ t[Min(After(i))] \in Alnum THEN <<>> ELSE <<t[i]>>
             ELSE IF i > 1 /\ t[i - 1] \in Separators THEN <<ToUpper(t[i])>> ELSE <<t[i]>>
    BY <1>2, Zenon DEF CamelParts
  <1>5. \A i \in 1..l : \/ p[i] = <<>> /\ t[i] \in Separators
                        \/ p[i] = <<t[i]>>
                        \/ p[i] = <<ToUpper(t[i])>> /\ t[i] \notin Separators
    BY <1>4
  <1>6. p = [i \in 1..l |-> p[i]] BY <1>2 DEF CamelParts
  <1> HIDE DEF p, l
  <1>7. \A x \in Characters : ToUpper(x) \in Characters
    BY DEF ToUpper, Characters
  <1>8. \A i \in 1..l : p[i] \in Seq(Characters)
    <2>1. \A x \in Characters : <<x>> \in Seq(Characters) OBVIOUS
    <2>2. <<>> \in Seq(Characters) OBVIOUS
    <2>3. SUFFICES ASSUME NEW i \in 1..l PROVE p[i] \in Seq(Characters) OBVIOUS
    <2>4. t[i] \in Characters /\ ToUpper(t[i]) \in Characters BY <1>2, <1>7
    <2>5. <<t[i]>> \in Seq(Characters) /\ <<ToUpper(t[i])>> \in Seq(Characters) BY <2>1, <2>4
    <2>6. p[i] = <<>> \/ p[i] = <<t[i]>> \/ p[i] = <<ToUpper(t[i])>> BY <1>5
    <2>7. QED BY <2>2, <2>5, <2>6, Zenon
  <1>9. p \in Seq(Seq(Characters))
    <2> DEFINE W == Seq(Characters)
    <2>1. \A i \in 1..l : p[i] \in W BY <1>8
    <2> HIDE DEF W
    <2>2. p \in [1..l -> W] BY <1>6, <2>1
    <2>3. p \in Seq(W) BY <1>2, <2>2, SeqDef
    <2>4. QED BY <2>3 DEF W
  <1>10. /\ c \in Seq(Characters)
         /\ \A x : x \in ToSet(c) <=> \E k \in 1..l : x \in ToSet(p[k])
    BY <1>4, <1>9, FlattenIs
  <1> HIDE DEF c
  <1>11. /\ r \in Seq(Characters) /\ ToSet(r) \subseteq ToSet(c)
         /\ ToSet(c) \ NoBeginning \subseteq ToSet(r)
         /\ \E m \in Nat : FrontGone(r, c, NoBeginning, m)
    BY <1>10, DropsOnly, DropWhileIs
  <1>12. toCamelCase(n) = r BY CamelPasses DEF c, p, t
  <1> HIDE DEF r
  <1>13. \A x, y : x \in ToSet(<<y>>) <=> x = y BY DEF ToSet
  <1>14. ASSUME ToSet(n) \cap {"a", "A"} # {} PROVE r # <<>>
    <2>1. PICK i \in 1..l : t[i] \in {"a", "A"} BY <1>1, <1>3, <1>14
    <2>2. t[i] \notin Separators BY <2>1 DEF Separators
    <2>3. ToUpper(t[i]) \in {"a", "A"} BY <2>1 DEF ToUpper
    <2>4. \E x \in {"a", "A"} : x \in ToSet(p[i]) BY <1>5, <1>13, <2>1, <2>2, <2>3
    <2>5. \E x \in {"a", "A"} : x \in ToSet(r)
      BY <1>10, <1>11, <2>4 DEF NoBeginning
    <2>6. ToSet(<<>>) = {} BY DEF ToSet
    <2>7. QED BY <2>5, <2>6
  <1>15. ASSUME "!" \notin ToSet(n), Last(t) \notin Separators
         PROVE  /\ ToSet(r) \subseteq Alnum
                /\ r # <<>> => Head(r) \in {"a", "A"}
    <2>1. \A i \in 1..l : t[i] \in Separators \/ t[i] \in Alnum
      BY <1>1, <1>2, <1>3, <1>15 DEF Characters, Separators, Alnum
    <2>2. \A x \in Alnum : ToUpper(x) \in Alnum BY DEF ToUpper, Alnum
    <2>3. \A i \in 1..l : t[i] \in Separators => p[i] = <<>>
      <3> SUFFICES ASSUME NEW i \in 1..l, t[i] \in Separators PROVE p[i] = <<>> OBVIOUS
      <3>1. t[l] \notin Separators BY <1>15 DEF Last, l
      <3>2. l \in (i + 1)..l
        <4>1. i # l BY <3>1
        <4>2. QED BY <1>2, <4>1
      <3> DEFINE I == After(i)
      <3>3. I \in SUBSET Nat /\ I # {} BY <1>2, <3>1, <3>2
      <3>4. \A k \in I : t[k] \in Alnum
        <4>1. \A k \in I : k \in 1..l /\ t[k] \notin Separators BY <1>2
        <4>2. QED BY <2>1, <4>1
      <3>5. p[i] = IF I # {} /\ t[Min(I)] \in Alnum THEN <<>> ELSE <<t[i]>> BY <1>4
      <3> HIDE DEF I
      <3>6. Min(I) \in I BY <3>3, MinIsIn
      <3>7. QED BY <3>3, <3>4, <3>5, <3>6
    <2>4. ASSUME NEW x \in ToSet(c) PROVE x \in Alnum
      <3>1. PICK i \in 1..l : x \in ToSet(p[i]) BY <1>10
      <3>2. ToSet(<<>>) = {} BY DEF ToSet
      <3>3. t[i] \in Alnum BY <2>1, <2>3, <3>1, <3>2
      <3>4. x = t[i] \/ x = ToUpper(t[i]) BY <1>5, <1>13, <3>1, <3>2
      <3>5. QED BY <2>2, <3>3, <3>4
    <2>5. ToSet(r) \subseteq Alnum BY <1>11, <2>4
    <2>6. ASSUME r # <<>> PROVE Head(r) \in {"a", "A"}
      <3>1. r[1] \notin NoBeginning BY <1>11, <2>6 DEF FrontGone
      <3>2. Len(r) \in Nat /\ Len(r) # 0 BY <1>11, <2>6
      <3>3. 1 \in 1..Len(r) BY <3>2
      <3>4. r[1] \in ToSet(r) BY <1>11, <3>3, SetOf
      <3>5. r[1] \in {"a", "A"} BY <2>5, <3>1, <3>4 DEF Alnum, NoBeginning
      <3>6. Head(r) = r[1] BY <1>11, <2>6
      <3>7. QED BY <3>5, <3>6
    <2>7. QED BY <2>5, <2>6
  <1>16. QED BY <1>11, <1>12, <1>14, <1>15 DEF t

LEMMA PascalIs ==
    ASSUME NEW n \in Seq(Characters)
    PROVE  toPascalCase(n) \in Seq(Characters)
  <1> DEFINE c == toCamelCase(n)
  <1>1. c \in Seq(Characters) BY CamelIs
  <1> HIDE DEF c
  <1>2. toPascalCase(n) = IF c = <<>> THEN <<>> ELSE <<ToUpper(Head(c))>> \o Tail(c)
    BY DEF toPascalCase, c
  <1>3. CASE c = <<>> BY <1>2, <1>3
  <1>4. CASE c # <<>>
    <2> DEFINE h == ToUpper(Head(c))
               u == Tail(c)
    <2>1. Head(c) \in Characters /\ u \in Seq(Characters) BY <1>1, <1>4, HeadTailProperties
    <2>2. h \in Characters BY <2>1 DEF ToUpper, Characters
    <2> HIDE DEF h, u
    <2>3. <<h>> \in Seq(Characters) BY <2>2
    <2>4. <<h>> \o u \in Seq(Characters) BY <2>1, <2>3, ConcatProperties
    <2>5. QED BY <1>2, <1>4, <2>4 DEF h, u
  <1>5. QED BY <1>3, <1>4

LEMMA NameIsUsable ==
    ASSUME NEW n \in Seq(Characters)
    PROVE  IsUsable(n)
  <1> DEFINE k == toKebabCase(n)
             c == toCamelCase(n)
             a == scaffoldAction(n)
             o == scaffoldOverride(n)
  <1>1. k \in Kebab /\ (ToSet(n) \cap {"a", "A"} # {} => "a" \in ToSet(k)) BY KebabIs
  <1>2. toKebabCase(k) = k BY <1>1, KebabStable
  <1>3. k \in Seq(Characters) /\ k \in Seq(Lower)
    <2> HIDE DEF k
    <2>1. k \in Seq(Lower) BY <1>1 DEF Kebab
    <2>2. QED BY <2>1, LowerIsKnown
  <1>4. /\ c \in Seq(Characters) /\ toCamelCase(k) \in Seq(Characters)
        /\ toPascalCase(n) \in Seq(Characters)
    BY <1>3, CamelIs, PascalIs
  <1>5. a = IF k = <<>> \/ c = <<>> THEN Failure
            ELSE [file |-> k, exportName |-> c, schemaName |-> toPascalCase(n)]
    BY DEF scaffoldAction
  <1>6. o = IF k = <<>> THEN Failure ELSE [file |-> k, key |-> toCamelCase(k)]
    BY DEF scaffoldOverride
  <1>7. \A i \in DOMAIN k : k[i] \in {"a", "1", "-"} BY <1>3 DEF Lower
  <1>8. k # <<>> => Head(k) # "-" /\ Last(k) # "-"
    <2> SUFFICES ASSUME k # <<>> PROVE Head(k) # "-" /\ Last(k) # "-" OBVIOUS
    <2> HIDE DEF k
    <2>1. k[1] # "-" /\ k[Len(k)] # "-" BY <1>1 DEF Kebab
    <2>2. Head(k) = k[1] BY <1>3
    <2>3. QED BY <2>1, <2>2 DEF Last
  <1>9. ASSUME a # Failure, "!" \notin ToSet(n), Last(trim(n)) \notin Separators
        PROVE  Head(a.exportName) \in {"a", "A"} /\ ToSet(a.exportName) \subseteq Alnum
    <2> HIDE DEF k, c, a
    <2>1. c # <<>> /\ a.exportName = c BY <1>5, <1>9
    <2>2. ToSet(c) \subseteq Alnum /\ (c # <<>> => Head(c) \in {"a", "A"}) BY <1>9, CamelIs DEF c
    <2>3. QED BY <2>1, <2>2
  <1>10. ASSUME {"a", "A"} \cap ToSet(n) # {} PROVE a # Failure /\ o # Failure
    <2>1. c # <<>> BY <1>10, CamelIs
    <2> HIDE DEF k, c, a, o
    <2>2. k # <<>>
      <3>1. ToSet(<<>>) = {} BY DEF ToSet
      <3>2. "a" \in ToSet(k) BY <1>1, <1>10
      <3>3. QED BY <3>1, <3>2
    <2>3. a \in [file : Seq(Characters), exportName : Seq(Characters), schemaName : Seq(Characters)]
      BY <1>3, <1>4, <1>5, <2>1, <2>2
    <2>4. o \in [file : Seq(Characters), key : Seq(Characters)] BY <1>3, <1>4, <1>6, <2>2
    <2>5. QED BY <2>3, <2>4, ScaffoldAssumption
  <1> HIDE DEF k, a, o
  <1>11. QED BY <1>2, <1>7, <1>8, <1>9, <1>10, Zenon DEF IsUsable, k, a, o

-----------------------------------------------------------------------------
(* The arguments of a command *)

LEMMA MaxIsIn ==
    ASSUME NEW n \in Nat, NEW I \in SUBSET (1..n), I # {}
    PROVE  Max(I) \in I /\ \A y \in I : y <= Max(I)
  <1> DEFINE J == {n - y : y \in I}
             m == n - Min(J)
  <1>1. J \in SUBSET Nat /\ J # {}
    <2>1. \A y \in I : n - y \in Nat OBVIOUS
    <2>2. QED BY <2>1
  <1>2. Min(J) \in J /\ \A y \in J : Min(J) <= y BY <1>1, MinIsIn
  <1>3. PICK x \in I : Min(J) = n - x BY <1>2
  <1>4. x \in 1..n /\ \A y \in I : y \in 1..n OBVIOUS
  <1>5. \A y \in I : y <= x
    <2> SUFFICES ASSUME NEW y \in I PROVE y <= x OBVIOUS
    <2>1. n - y \in J OBVIOUS
    <2>2. n - x <= n - y BY <1>2, <1>3, <2>1
    <2>3. QED BY <1>4, <2>2
  <1>6. \A a, b \in I : (a >= b /\ b >= a) => a = b BY <1>4
  <1>7. \A y \in I : x >= y BY <1>4, <1>5
  <1>8. Max(I) = x
    <2>1. Max(I) \in I /\ \A y \in I : Max(I) >= y BY <1>7, Zenon DEF Max
    <2>2. QED BY <1>6, <1>7, <2>1
  <1>9. QED BY <1>5, <1>8

\* As many parts as C says hold one element, the others none.
LEMMA FlattenCounts ==
    ASSUME NEW S, NEW parts \in Seq(Seq(S)), NEW C \in SUBSET (1..Len(parts)),
           \A k \in 1..Len(parts) : Len(parts[k]) = IF k \in C THEN 1 ELSE 0
    PROVE  Len(FlattenSeq(parts)) = Cardinality(C)
  <1> DEFINE n == Len(parts)
             D(k) == C \cap (1..k)
  <1>1. n \in Nat /\ \A k \in 1..n : parts[k] \in Seq(S) OBVIOUS
  <1>2. PICK T : Unrolled(T, S, parts) /\ FlattenSeq(parts) = T[n] BY Flattened
  <1>3. /\ \A k \in 0..n : T[k] \in Seq(S)
        /\ T[0] = <<>>
        /\ \A k \in 1..n : T[k] = T[k - 1] \o parts[k]
    BY <1>2 DEF Unrolled
  <1>4. \A k \in 1..n : Len(parts[k]) = IF k \in C THEN 1 ELSE 0 OBVIOUS
  <1>5. C \cap (1..n) = C OBVIOUS
  <1> HIDE DEF n
  <1>6. \A k \in Nat : IsFiniteSet(D(k))
    <2>1. \A k \in Nat : IsFiniteSet(1..k) BY FS_Interval
    <2>2. \A k \in Nat : D(k) \subseteq 1..k OBVIOUS
    <2>3. QED BY <2>1, <2>2, FS_Subset
  <1> DEFINE P == {k \in Nat : k <= n => Len(T[k]) = Cardinality(D(k))}
  <1>7. 0 \in P
    <2>1. D(0) = {} OBVIOUS
    <2>2. Cardinality(D(0)) = 0 BY <2>1, FS_EmptySet
    <2>3. Len(<<>>) = 0 OBVIOUS
    <2>4. QED BY <1>3, <2>2, <2>3
  <1>8. ASSUME NEW k \in Nat, k \in P PROVE k + 1 \in P
    <2>1. SUFFICES ASSUME k + 1 <= n PROVE Len(T[k + 1]) = Cardinality(D(k + 1)) OBVIOUS
    <2>2. k + 1 \in 1..n /\ (k + 1) - 1 = k /\ k <= n /\ k \in 0..n BY <1>1, <2>1
    <2> DEFINE t == T[k]
               p == parts[k + 1]
    <2>3. t \in Seq(S) /\ p \in Seq(S) /\ T[k + 1] = t \o p BY <1>1, <1>3, <2>2
    <2>4. Len(t) = Cardinality(D(k)) BY <1>8, <2>2
    <2>5. Len(p) = IF k + 1 \in C THEN 1 ELSE 0 BY <1>4, <2>2
    <2> HIDE DEF t, p
    <2>6. Len(t \o p) = Len(t) + Len(p) BY <2>3, ConcatProperties
    <2>7. D(k + 1) = IF k + 1 \in C THEN D(k) \cup {k + 1} ELSE D(k)
      <3>1. 1..(k + 1) = (1..k) \cup {k + 1} OBVIOUS
      <3>2. QED BY <3>1
    <2>8. k + 1 \notin D(k) OBVIOUS
    <2> DEFINE d == D(k)
               e == D(k + 1)
    <2>9. IsFiniteSet(d) BY <1>6
    <2> HIDE DEF d
    <2>10. Cardinality(d \cup {k + 1}) = Cardinality(d) + 1
      <3>1. k + 1 \notin d BY <2>8 DEF d
      <3>2. QED BY <2>9, <3>1, FS_AddElement
    <2>11. Cardinality(d) \in Nat BY <2>9, FS_CardinalityType
    <2>12. Len(t) = Cardinality(d) BY <2>4 DEF d
    <2>13. e = IF k + 1 \in C THEN d \cup {k + 1} ELSE d BY <2>7 DEF d
    <2> HIDE DEF e
    <2>14. Len(T[k + 1]) = Cardinality(e)
      <3>1. Len(T[k + 1]) = Len(t) + Len(p) BY <2>3, <2>6
      <3>2. CASE k + 1 \in C BY <2>5, <2>10, <2>12, <2>13, <3>1, <3>2
      <3>3. CASE k + 1 \notin C BY <2>5, <2>11, <2>12, <2>13, <3>1, <3>3
      <3>4. QED BY <3>2, <3>3
    <2>15. QED BY <2>14 DEF e
  <1> HIDE DEF P
  <1>9. n \in P BY <1>1, <1>7, <1>8, EveryNumber
  <1>10. Len(T[n]) = Cardinality(D(n)) BY <1>1, <1>9 DEF P
  <1>11. QED BY <1>2, <1>5, <1>10

\* A part that holds nothing may be left out.
LEMMA FlattenSkips ==
    ASSUME NEW S, NEW parts \in Seq(Seq(S)), NEW others \in Seq(Seq(S)),
           NEW i \in 1..Len(parts), parts[i] = <<>>,
           Len(others) = Len(parts) - 1,
           \A k \in 1..Len(others) : others[k] = parts[IF k < i THEN k ELSE k + 1]
    PROVE  FlattenSeq(others) = FlattenSeq(parts)
  <1> DEFINE n == Len(parts)
             m == Len(others)
  <1>1. n \in Nat /\ m \in Nat /\ m = n - 1 /\ i \in 1..n OBVIOUS
  <1>2. PICK T : Unrolled(T, S, parts) /\ FlattenSeq(parts) = T[n] BY Flattened
  <1>3. PICK U : Unrolled(U, S, others) /\ FlattenSeq(others) = U[m] BY Flattened
  <1>4. /\ \A k \in 0..n : T[k] \in Seq(S)
        /\ T[0] = <<>>
        /\ \A k \in 1..n : T[k] = T[k - 1] \o parts[k]
    BY <1>2 DEF Unrolled
  <1>5. /\ U[0] = <<>>
        /\ \A k \in 1..m : U[k] = U[k - 1] \o others[k]
    BY <1>3 DEF Unrolled
  <1>6. \A k \in 1..m : others[k] = parts[IF k < i THEN k ELSE k + 1] OBVIOUS
  <1>7. T[i] = T[i - 1]
    <2>1. i - 1 \in 0..n BY <1>1
    <2>2. T[i - 1] \in Seq(S) BY <1>4, <2>1
    <2>3. T[i] = T[i - 1] \o <<>> BY <1>1, <1>4
    <2>4. QED BY <2>2, <2>3, ConcatEmptySeq
  <1> HIDE DEF n, m
  <1> DEFINE P == {k \in Nat : k <= m => U[k] = T[IF k < i THEN k ELSE k + 1]}
  <1>8. 0 \in P
    <2>1. 0 < i BY <1>1
    <2>2. QED BY <1>4, <1>5, <2>1
  <1>9. ASSUME NEW k \in Nat, k \in P PROVE k + 1 \in P
    <2>1. SUFFICES ASSUME k + 1 <= m
                   PROVE  U[k + 1] = T[IF k + 1 < i THEN k + 1 ELSE (k + 1) + 1]
      OBVIOUS
    <2>2. k + 1 \in 1..m /\ (k + 1) - 1 = k /\ k <= m BY <1>1, <2>1
    <2>3. U[k] = T[IF k < i THEN k ELSE k + 1] BY <1>9, <2>2
    <2>4. U[k + 1] = U[k] \o others[k + 1] BY <1>5, <2>2
    <2>5. CASE k + 1 < i
      <3>1. k < i /\ k + 1 \in 1..n BY <1>1, <2>2, <2>5
      <3>2. U[k] = T[k] /\ others[k + 1] = parts[k + 1] BY <1>6, <2>2, <2>3, <2>5, <3>1
      <3>3. T[k + 1] = T[k] \o parts[k + 1] BY <1>4, <2>2, <3>1
      <3>4. QED BY <2>4, <2>5, <3>2, <3>3
    <2>6. CASE ~(k + 1 < i)
      <3>1. (k + 1) + 1 \in 1..n /\ ((k + 1) + 1) - 1 = k + 1 BY <1>1, <2>2
      <3>2. U[k] = T[k + 1]
        <4>1. CASE k < i
          <5>1. k = i - 1 /\ k + 1 = i BY <1>1, <2>6, <4>1
          <5>2. QED BY <1>7, <2>3, <4>1, <5>1
        <4>2. CASE ~(k < i) BY <2>3, <4>2
        <4>3. QED BY <4>1, <4>2
      <3>3. others[k + 1] = parts[(k + 1) + 1] BY <1>6, <2>2, <2>6
      <3>4. T[(k + 1) + 1] = T[k + 1] \o parts[(k + 1) + 1] BY <1>4, <3>1
      <3>5. QED BY <2>4, <2>6, <3>2, <3>3, <3>4
    <2>7. QED BY <2>5, <2>6
  <1> HIDE DEF P
  <1>10. m \in P BY <1>1, <1>8, <1>9, EveryNumber
  <1>11. U[m] = T[IF m < i THEN m ELSE m + 1] BY <1>1, <1>10 DEF P
  <1>12. U[m] = T[n]
    <2>1. CASE m < i
      <3>1. m = i - 1 /\ n = i BY <1>1, <2>1
      <3>2. QED BY <1>7, <1>11, <2>1, <3>1
    <2>2. CASE ~(m < i)
      <3>1. m + 1 = n BY <1>1
      <3>2. QED BY <1>11, <2>2, <3>1
    <2>3. QED BY <2>1, <2>2
  <1>13. QED BY <1>2, <1>3, <1>12

LEMMA ArgumentIs ==
    ASSUME NEW F, NEW V, NEW x \in ArgumentsOf(F, V)
    PROVE  /\ x.kind \in {"pair", "long", "short", "word"}
           /\ x.kind # "word" => x.flag \in F
           /\ x.kind \in {"pair", "word"} => x.value \in V
  BY DEF ArgumentsOf

WordsOf(argv) == {i \in DOMAIN argv : argv[i].kind = "word"}

PositionalParts(argv) ==
    [i \in DOMAIN argv |->
        IF argv[i].kind = "word" /\ ~IsValue(argv, i) THEN <<argv[i]>> ELSE <<>>]

FlagsOf(argv) == {argv[i].flag : i \in FlagPlaces(argv)}

LEMMA ParsedIs ==
    ASSUME NEW argv
    PROVE  parseArgs(argv) =
             [ positional |-> FlattenSeq(PositionalParts(argv)),
               flags      |-> [f \in FlagsOf(argv) |-> ReadAt(argv, Max(PlacesOf(argv, f)))] ]
  BY Zenon DEF parseArgs, PositionalParts, FlagsOf

LEMMA PositionalIs ==
    ASSUME NEW F, NEW V, NEW argv \in Seq(ArgumentsOf(F, V))
    PROVE  /\ PositionalParts(argv) \in Seq(Seq(ArgumentsOf(F, V)))
           /\ Len(PositionalParts(argv)) = Len(argv)
           /\ \A i \in 1..Len(argv) :
                PositionalParts(argv)[i] =
                  IF i \in WordsOf(argv) /\ ~IsValue(argv, i) THEN <<argv[i]>> ELSE <<>>
  <1> DEFINE S == ArgumentsOf(F, V)
             n == Len(argv)
             p == PositionalParts(argv)
             part(i) == IF i \in WordsOf(argv) /\ ~IsValue(argv, i) THEN <<argv[i]>> ELSE <<>>
  <1> HIDE DEF S
  <1>1. n \in Nat /\ DOMAIN argv = 1..n /\ \A i \in 1..n : argv[i] \in S
    BY LenProperties, ElementOfSeq DEF S
  <1>2. p = [i \in 1..n |-> part(i)] BY <1>1 DEF PositionalParts, WordsOf
  <1>3. \A i \in 1..n : part(i) \in Seq(S)
    <2>1. \A x \in S : <<x>> \in Seq(S) OBVIOUS
    <2>2. <<>> \in Seq(S) OBVIOUS
    <2>3. QED BY <1>1, <2>1, <2>2
  <1> HIDE DEF p, part, n
  <1>4. p \in Seq(Seq(S)) /\ Len(p) = n /\ \A i \in 1..n : p[i] = part(i) BY <1>1, <1>2, <1>3
  <1>5. QED BY <1>4 DEF p, part, n, S

\* What Joined gives: the flag and its value are one argument, the others stay.
LEMMA JoinedIs ==
    ASSUME NEW F, NEW V, NEW argv \in Seq(ArgumentsOf(F, V)), NEW h \in 1..(Len(argv) - 1),
           argv[h].kind = "long", argv[h + 1].kind = "word"
    PROVE  /\ Joined(argv, h) \in Seq(ArgumentsOf(F, V))
           /\ Len(Joined(argv, h)) = Len(argv) - 1
           /\ \A k \in 1..(h - 1) : Joined(argv, h)[k] = argv[k]
           /\ /\ Joined(argv, h)[h].kind = "pair"
              /\ Joined(argv, h)[h].flag = argv[h].flag
              /\ Joined(argv, h)[h].value = argv[h + 1].value
           /\ \A k \in (h + 1)..(Len(argv) - 1) : Joined(argv, h)[k] = argv[k + 1]
  <1> DEFINE S == ArgumentsOf(F, V)
             n == Len(argv)
             x == [kind |-> "pair", flag |-> argv[h].flag, value |-> argv[h + 1].value]
             a == SubSeq(argv, 1, h - 1)
             b == <<x>>
             c == SubSeq(argv, h + 2, n)
             ab == a \o b
             J == ab \o c
  <1>1. n \in Nat /\ DOMAIN argv = 1..n BY LenProperties
  <1>2. \A i \in 1..n : argv[i] \in S BY ElementOfSeq
  <1>3. h \in 1..n /\ h + 1 \in 1..n /\ h \in Nat /\ h < n BY <1>1
  <1>4. argv[h].flag \in F /\ argv[h + 1].value \in V
    <2>1. argv[h] \in S /\ argv[h + 1] \in S BY <1>2, <1>3
    <2>2. QED BY <2>1, ArgumentIs
  <1>5. x \in S BY <1>4 DEF ArgumentsOf
  <1>6. x.kind = "pair" /\ x.flag = argv[h].flag /\ x.value = argv[h + 1].value OBVIOUS
  <1>7. Joined(argv, h) = J BY DEF Joined
  <1> HIDE DEF S, n, x
  <1>8. a \in Seq(S) /\ Len(a) = h - 1 /\ \A k \in 1..(h - 1) : a[k] = argv[k]
    <2>1. \A i \in 1..(h - 1) : argv[i] \in S BY <1>1, <1>2, <1>3
    <2>2. 1 \in Int /\ h - 1 \in Int BY <1>3
    <2>3. /\ a \in Seq(S) /\ Len(a) = IF 1 <= h - 1 THEN (h - 1) - 1 + 1 ELSE 0
          /\ \A k \in 1..((h - 1) - 1 + 1) : a[k] = argv[1 + k - 1]
      BY <2>1, <2>2, SubSeqProperties
    <2>4. Len(a) = h - 1 BY <1>3, <2>3
    <2>5. \A k \in 1..(h - 1) : k \in 1..((h - 1) - 1 + 1) /\ 1 + k - 1 = k BY <1>3
    <2>6. QED BY <2>3, <2>4, <2>5
  <1>9. b \in Seq(S) /\ Len(b) = 1 /\ b[1] = x BY <1>5
  <1>10. /\ c \in Seq(S) /\ Len(c) = n - h - 1
         /\ \A k \in 1..(n - h - 1) : c[k] = argv[h + 1 + k]
    <2>1. \A i \in (h + 2)..n : argv[i] \in S BY <1>1, <1>2, <1>3
    <2>2. h + 2 \in Int /\ n \in Int BY <1>1, <1>3
    <2>3. /\ c \in Seq(S) /\ Len(c) = IF h + 2 <= n THEN n - (h + 2) + 1 ELSE 0
          /\ \A k \in 1..(n - (h + 2) + 1) : c[k] = argv[h + 2 + k - 1]
      BY <2>1, <2>2, SubSeqProperties, SMTT(30)
    <2>4. Len(c) = n - h - 1 BY <1>1, <1>3, <2>3
    <2>5. \A k \in 1..(n - h - 1) : k \in 1..(n - (h + 2) + 1) /\ h + 2 + k - 1 = h + 1 + k
      BY <1>1, <1>3
    <2>6. QED BY <2>3, <2>4, <2>5
  <1> HIDE DEF a, b, c
  <1>11. /\ ab \in Seq(S) /\ Len(ab) = h
         /\ \A k \in 1..h : ab[k] = IF k <= h - 1 THEN a[k] ELSE b[k - (h - 1)]
    <2>1. /\ ab \in Seq(S) /\ Len(ab) = Len(a) + Len(b)
          /\ \A k \in 1..(Len(a) + Len(b)) : ab[k] = IF k <= Len(a) THEN a[k] ELSE b[k - Len(a)]
      BY <1>8, <1>9, ConcatProperties
    <2>2. Len(a) + Len(b) = h BY <1>3, <1>8, <1>9
    <2> HIDE DEF ab
    <2>3. QED BY <1>8, <2>1, <2>2
  <1> HIDE DEF ab
  <1>12. /\ J \in Seq(S) /\ Len(J) = n - 1
         /\ \A k \in 1..(n - 1) : J[k] = IF k <= h THEN ab[k] ELSE c[k - h]
    <2>1. /\ J \in Seq(S) /\ Len(J) = Len(ab) + Len(c)
          /\ \A k \in 1..(Len(ab) + Len(c)) : J[k] = IF k <= Len(ab) THEN ab[k] ELSE c[k - Len(ab)]
      <3>1. ab \in Seq(S) /\ c \in Seq(S) BY <1>10, <1>11
      <3>2. QED BY <3>1, ConcatProperties
    <2>2. Len(ab) + Len(c) = n - 1 BY <1>1, <1>3, <1>10, <1>11
    <2> HIDE DEF J
    <2>3. QED BY <1>11, <2>1, <2>2
  <1> HIDE DEF J
  <1>13. \A k \in 1..(h - 1) : J[k] = argv[k]
    <2>1. \A k \in 1..(h - 1) : k \in 1..(n - 1) /\ k \in 1..h /\ k <= h /\ k <= h - 1
      BY <1>1, <1>3
    <2>2. QED BY <1>8, <1>11, <1>12, <2>1
  <1>14. J[h] = x
    <2>1. h \in 1..(n - 1) /\ h \in 1..h /\ h <= h /\ ~(h <= h - 1) /\ h - (h - 1) = 1
      BY <1>1, <1>3
    <2>2. J[h] = ab[h] /\ ab[h] = b[1] BY <1>11, <1>12, <2>1
    <2>3. QED BY <1>9, <2>2
  <1>15. \A k \in (h + 1)..(n - 1) : J[k] = argv[k + 1]
    <2>1. \A k \in (h + 1)..(n - 1) : /\ k \in 1..(n - 1) /\ ~(k <= h)
                                      /\ k - h \in 1..(n - h - 1) /\ h + 1 + (k - h) = k + 1
      BY <1>1, <1>3
    <2>2. QED BY <1>10, <1>12, <2>1
  <1>16. QED BY <1>6, <1>7, <1>12, <1>13, <1>14, <1>15 DEF S, n

\* What joining a flag with its value changes: nothing that the arguments are read for.
LEMMA JoiningKeeps ==
    ASSUME NEW F, NEW V, NEW argv \in Seq(ArgumentsOf(F, V)), NEW h \in 1..(Len(argv) - 1),
           argv[h].kind = "long", argv[h].flag \notin Switches, argv[h + 1].kind = "word",
           argv[h + 1].value # EmptyText
    PROVE  parseArgs(Joined(argv, h)) = parseArgs(argv)
  <1> DEFINE S == ArgumentsOf(F, V)
             n == Len(argv)
             J == Joined(argv, h)
             Old(k) == IF k <= h THEN k ELSE k + 1
             New(k) == IF k <= h THEN k ELSE k - 1
  <1>1. n \in Nat /\ DOMAIN argv = 1..n BY LenProperties
  <1>2. h \in Nat /\ h >= 1 /\ h < n BY <1>1
  <1>3. /\ J \in Seq(S) /\ Len(J) = n - 1
        /\ \A k \in 1..(h - 1) : J[k] = argv[k]
        /\ J[h].kind = "pair" /\ J[h].flag = argv[h].flag /\ J[h].value = argv[h + 1].value
        /\ \A k \in (h + 1)..(n - 1) : J[k] = argv[k + 1]
    BY JoinedIs
  <1>4. argv \in Seq(S) OBVIOUS
  <1>5. /\ argv[h].kind = "long" /\ argv[h].flag \notin Switches
        /\ argv[h + 1].kind = "word" /\ argv[h + 1].value # EmptyText
    OBVIOUS
  <1> HIDE DEF S, n, J
  <1>6. DOMAIN J = 1..(n - 1) /\ n - 1 \in Nat
    <2>1. DOMAIN J = 1..Len(J) /\ Len(J) \in Nat BY <1>3, LenProperties
    <2>2. QED BY <1>3, <2>1
  <1>7. \A k \in 1..(n - 1) : k # h => J[k] = argv[Old(k)]
    <2> SUFFICES ASSUME NEW k \in 1..(n - 1), k # h PROVE J[k] = argv[Old(k)] OBVIOUS
    <2>1. CASE k < h
      <3>1. k \in 1..(h - 1) /\ Old(k) = k BY <1>2, <2>1
      <3> HIDE DEF Old
      <3>2. QED BY <1>3, <3>1
    <2>2. CASE ~(k < h)
      <3>1. k \in (h + 1)..(n - 1) /\ Old(k) = k + 1 BY <1>1, <1>2, <2>2
      <3> HIDE DEF Old
      <3>2. QED BY <1>3, <3>1
    <2>3. QED BY <2>1, <2>2
  <1>8. \A k \in 1..(n - 1) : Old(k) \in 1..n /\ Old(k) # h + 1 /\ New(Old(k)) = k
    BY <1>1, <1>2
  <1>9. \A k \in 1..n : k # h + 1 => New(k) \in 1..(n - 1) /\ Old(New(k)) = k
    BY <1>1, <1>2
  <1>10. \A k, l \in 1..(n - 1) : k <= l => Old(k) <= Old(l) BY <1>1, <1>2
  <1>11. Old(h) = h BY <1>2
  <1>12. h \in 1..(n - 1) /\ h \in 1..n /\ h + 1 \in 1..n BY <1>1, <1>2
  <1>13. "pair" # "word" /\ "long" # "word" /\ "pair" # "long" OBVIOUS
  \* Which arguments are words, and which of them are values.
  <1>14. \A k \in 1..(n - 1) : k \in WordsOf(J) <=> Old(k) \in WordsOf(argv)
    <2> SUFFICES ASSUME NEW k \in 1..(n - 1)
                 PROVE  k \in WordsOf(J) <=> Old(k) \in WordsOf(argv)
      OBVIOUS
    <2>1. k \in WordsOf(J) <=> J[k].kind = "word" BY <1>6 DEF WordsOf
    <2>2. Old(k) \in 1..n BY <1>8
    <2>3. Old(k) \in WordsOf(argv) <=> argv[Old(k)].kind = "word"
      BY <1>1, <2>2 DEF WordsOf
    <2> HIDE DEF Old
    <2>4. CASE k = h BY <1>3, <1>5, <1>11, <1>13, <2>1, <2>3, <2>4
    <2>5. CASE k # h BY <1>7, <2>1, <2>3, <2>5
    <2>6. QED BY <2>4, <2>5
  <1>15. h + 1 \in WordsOf(argv) /\ IsValue(argv, h + 1)
    <2>1. (h + 1) - 1 = h /\ h + 1 > 1 BY <1>2
    <2>2. QED BY <1>1, <1>5, <1>12, <2>1 DEF WordsOf, IsValue
  <1>16. h \notin WordsOf(argv) /\ h \notin WordsOf(J)
    BY <1>3, <1>5, <1>13 DEF WordsOf
  \* The argument after one that stays is a value before if it is one after.
  <1>17. \A k \in 1..(n - 1) : k # h => (IsValue(J, k + 1) <=> IsValue(argv, Old(k) + 1))
    <2> SUFFICES ASSUME NEW k \in 1..(n - 1), k # h
                 PROVE  IsValue(J, k + 1) <=> IsValue(argv, Old(k) + 1)
      OBVIOUS
    <2>1. /\ k + 1 > 1 /\ (k + 1) - 1 = k /\ Old(k) + 1 > 1 /\ (Old(k) + 1) - 1 = Old(k)
      BY <1>2
    <2>2. J[k] = argv[Old(k)] BY <1>7
    <2>3. IsValue(J, k + 1) <=> /\ k + 1 \in 1..(n - 1) /\ J[k + 1].kind = "word"
                                /\ J[k + 1].value # EmptyText
                                /\ J[k].kind = "long" /\ J[k].flag \notin Switches
      BY <1>6, <2>1 DEF IsValue
    <2>4. IsValue(argv, Old(k) + 1) <=>
            /\ Old(k) + 1 \in 1..n /\ argv[Old(k) + 1].kind = "word"
            /\ argv[Old(k) + 1].value # EmptyText
            /\ argv[Old(k)].kind = "long" /\ argv[Old(k)].flag \notin Switches
      BY <1>1, <2>1 DEF IsValue
    <2>5. (k + 1 \in 1..(n - 1) /\ J[k + 1].kind = "word" /\ J[k + 1].value # EmptyText)
            <=> (/\ Old(k) + 1 \in 1..n /\ argv[Old(k) + 1].kind = "word"
                 /\ argv[Old(k) + 1].value # EmptyText)
      <3>1. CASE k + 1 = h
        <4>1. Old(k) + 1 = h BY <1>2, <3>1
        <4> HIDE DEF Old
        <4>2. QED BY <1>3, <1>5, <1>13, <3>1, <4>1
      <3>2. CASE k + 1 # h
        <4>1. Old(k + 1) = Old(k) + 1 BY <1>2, <3>2
        <4>2. k + 1 \in 1..(n - 1) <=> Old(k) + 1 \in 1..n BY <1>1, <1>2
        <4>3. k + 1 \in 1..(n - 1) => J[k + 1] = argv[Old(k) + 1]
          <5> HIDE DEF Old
          <5>1. QED BY <1>7, <3>2, <4>1
        <4> HIDE DEF Old
        <4>4. QED BY <4>2, <4>3
      <3>3. QED BY <3>1, <3>2
    <2> HIDE DEF Old
    <2>6. QED BY <2>2, <2>3, <2>4, <2>5
  <1>18. \A k \in 1..(n - 1) : k \in WordsOf(J) => (IsValue(J, k) <=> IsValue(argv, Old(k)))
    <2> SUFFICES ASSUME NEW k \in 1..(n - 1), k \in WordsOf(J)
                 PROVE  IsValue(J, k) <=> IsValue(argv, Old(k))
      OBVIOUS
    <2>1. k # h BY <1>16
    <2>2. CASE k = 1
      <3>1. Old(k) = 1 BY <1>2, <2>2
      <3> HIDE DEF Old
      <3>2. QED BY <2>2, <3>1 DEF IsValue
    <2>3. CASE k = h + 1
      <3>1. k - 1 = h /\ Old(k) - 1 = h + 1 BY <1>2, <2>3
      <3>2. ~IsValue(J, k) BY <1>3, <1>13, <3>1 DEF IsValue
      <3> HIDE DEF Old
      <3>3. ~IsValue(argv, Old(k)) BY <1>5, <1>13, <3>1 DEF IsValue
      <3>4. QED BY <3>2, <3>3
    <2>4. CASE k # 1 /\ k # h + 1
      <3> DEFINE l == k - 1
      <3>1. l \in 1..(n - 1) /\ l # h /\ l + 1 = k /\ Old(l) + 1 = Old(k)
        BY <1>1, <1>2, <2>1, <2>4
      <3> HIDE DEF l, Old
      <3>2. QED BY <1>17, <3>1
    <2>5. QED BY <2>2, <2>3, <2>4
  \* The words that are no values.
  <1>19. FlattenSeq(PositionalParts(J)) = FlattenSeq(PositionalParts(argv))
    <2> DEFINE p == PositionalParts(argv)
               q == PositionalParts(J)
               i == h + 1
    <2>1. /\ p \in Seq(Seq(S)) /\ Len(p) = n
          /\ \A k \in 1..n : p[k] = IF k \in WordsOf(argv) /\ ~IsValue(argv, k) THEN <<argv[k]>> ELSE <<>>
      BY PositionalIs DEF S, n
    <2>2. /\ q \in Seq(Seq(S)) /\ Len(q) = n - 1
          /\ \A k \in 1..(n - 1) : q[k] = IF k \in WordsOf(J) /\ ~IsValue(J, k) THEN <<J[k]>> ELSE <<>>
      BY <1>3, PositionalIs DEF S
    <2> HIDE DEF p, q
    <2>3. p[i] = <<>> /\ i \in 1..n BY <1>12, <1>15, <2>1
    <2>4. \A k \in 1..(n - 1) : q[k] = p[Old(k)]
      <3> SUFFICES ASSUME NEW k \in 1..(n - 1) PROVE q[k] = p[Old(k)] OBVIOUS
      <3>1. Old(k) \in 1..n BY <1>8
      <3> HIDE DEF Old
      <3>2. k # h => J[k] = argv[Old(k)] BY <1>7
      <3>3. k \in WordsOf(J) => k # h BY <1>16
      <3>4. QED BY <1>14, <1>18, <2>1, <2>2, <3>1, <3>2, <3>3
    <2>5. \A k \in 1..(n - 1) : Old(k) = IF k < i THEN k ELSE k + 1 BY <1>2
    <2> HIDE DEF Old, i
    <2>6. \A k \in 1..(n - 1) : q[k] = p[IF k < i THEN k ELSE k + 1] BY <2>4, <2>5
    <2>7. FlattenSeq(q) = FlattenSeq(p) BY <2>1, <2>2, <2>3, <2>6, FlattenSkips
    <2>8. QED BY <2>7 DEF p, q
  \* The flags, where each is given last, and what is read there.
  <1>20. \A k \in 1..(n - 1) : /\ k \in FlagPlaces(J) <=> Old(k) \in FlagPlaces(argv)
                               /\ k \notin WordsOf(J) => J[k].flag = argv[Old(k)].flag
    <2> SUFFICES ASSUME NEW k \in 1..(n - 1)
                 PROVE  /\ k \in FlagPlaces(J) <=> Old(k) \in FlagPlaces(argv)
                        /\ k \notin WordsOf(J) => J[k].flag = argv[Old(k)].flag
      OBVIOUS
    <2>1. Old(k) \in 1..n BY <1>8
    <2> HIDE DEF Old
    <2>2. CASE k = h
      <3>1. k \in FlagPlaces(J) BY <1>3, <1>6, <2>2 DEF FlagPlaces
      <3>2. h \in FlagPlaces(argv) BY <1>1, <1>5, <1>12 DEF FlagPlaces
      <3>3. QED BY <1>3, <1>11, <2>2, <3>1, <3>2
    <2>3. CASE k # h
      <3>1. J[k] = argv[Old(k)] BY <1>7, <2>3
      <3>2. QED BY <1>1, <1>6, <2>1, <3>1 DEF FlagPlaces
    <2>4. QED BY <2>2, <2>3
  <1>21. \A f : \A k \in 1..(n - 1) : k \in PlacesOf(J, f) <=> Old(k) \in PlacesOf(argv, f)
    <2> SUFFICES ASSUME NEW f, NEW k \in 1..(n - 1)
                 PROVE  k \in PlacesOf(J, f) <=> Old(k) \in PlacesOf(argv, f)
      OBVIOUS
    <2>1. Old(k) \in 1..n BY <1>8
    <2> HIDE DEF Old
    <2>2. k \in FlagPlaces(J) => k \notin WordsOf(J) BY DEF FlagPlaces, WordsOf
    <2>3. QED BY <1>20, <2>2 DEF PlacesOf
  <1>22. \A f : /\ PlacesOf(J, f) \in SUBSET (1..(n - 1))
                /\ PlacesOf(argv, f) \in SUBSET (1..n)
                /\ h + 1 \notin PlacesOf(argv, f)
    BY <1>1, <1>6, <1>15 DEF PlacesOf, FlagPlaces, WordsOf
  <1>23. \A f : PlacesOf(J, f) # {} <=> PlacesOf(argv, f) # {}
    <2> SUFFICES ASSUME NEW f PROVE PlacesOf(J, f) # {} <=> PlacesOf(argv, f) # {} OBVIOUS
    <2>1. ASSUME NEW k \in PlacesOf(J, f) PROVE PlacesOf(argv, f) # {}
      <3>1. k \in 1..(n - 1) BY <1>22
      <3> HIDE DEF Old
      <3>2. QED BY <1>21, <3>1
    <2>2. ASSUME NEW k \in PlacesOf(argv, f) PROVE PlacesOf(J, f) # {}
      <3>1. k \in 1..n /\ k # h + 1 BY <1>22
      <3>2. New(k) \in 1..(n - 1) /\ Old(New(k)) = k BY <1>9, <3>1
      <3> HIDE DEF Old, New
      <3>3. New(k) \in PlacesOf(J, f) BY <1>21, <3>2
      <3>4. QED BY <3>3
    <2>3. QED BY <2>1, <2>2
  <1>24. FlagsOf(J) = FlagsOf(argv)
    <2>1. \A a, f : f \in FlagsOf(a) <=> PlacesOf(a, f) # {} BY DEF FlagsOf, PlacesOf
    <2>2. \A f : f \in FlagsOf(J) <=> f \in FlagsOf(argv) BY <1>23, <2>1
    <2>3. QED BY <2>2, Zenon DEF FlagsOf
  <1>25. \A f : PlacesOf(argv, f) # {} => Max(PlacesOf(argv, f)) = Old(Max(PlacesOf(J, f)))
    <2> SUFFICES ASSUME NEW f, PlacesOf(argv, f) # {}
                 PROVE  Max(PlacesOf(argv, f)) = Old(Max(PlacesOf(J, f)))
      OBVIOUS
    <2> DEFINE A == PlacesOf(argv, f)
               B == PlacesOf(J, f)
               a == Max(A)
               b == Max(B)
    <2>1. A \in SUBSET (1..n) /\ B \in SUBSET (1..(n - 1)) /\ A # {} /\ B # {} BY <1>22, <1>23
    <2>2. h + 1 \notin A BY <1>22
    <2>3. \A k \in 1..(n - 1) : k \in B <=> Old(k) \in A BY <1>21
    <2> HIDE DEF A, B
    <2>4. a \in A /\ \A y \in A : y <= a BY <1>1, <2>1, MaxIsIn
    <2>5. b \in B /\ \A y \in B : y <= b BY <1>6, <2>1, MaxIsIn
    <2> HIDE DEF a, b
    <2>6. a \in 1..n /\ b \in 1..(n - 1) /\ a # h + 1 BY <2>1, <2>2, <2>4, <2>5
    <2>7. New(a) \in 1..(n - 1) /\ Old(New(a)) = a /\ Old(b) \in 1..n BY <1>8, <1>9, <2>6
    <2> HIDE DEF Old, New
    <2>8. New(a) \in B BY <2>3, <2>4, <2>7
    <2>9. a <= Old(b) BY <1>10, <2>5, <2>6, <2>7, <2>8
    <2>10. Old(b) \in A BY <2>3, <2>5, <2>6
    <2>11. Old(b) <= a BY <2>4, <2>10
    <2>12. a = Old(b) BY <2>6, <2>7, <2>9, <2>11
    <2>13. QED BY <2>12 DEF a, b, A, B
  <1>26. \A k \in 1..(n - 1) : k \notin WordsOf(J) => ReadAt(J, k) = ReadAt(argv, Old(k))
    <2> SUFFICES ASSUME NEW k \in 1..(n - 1), k \notin WordsOf(J)
                 PROVE  ReadAt(J, k) = ReadAt(argv, Old(k))
      OBVIOUS
    <2>1. CASE k = h
      <3>1. ReadAt(J, k) = argv[h + 1].value BY <1>3, <2>1 DEF ReadAt
      <3> HIDE DEF Old
      <3>2. ReadAt(argv, h) = argv[h + 1].value BY <1>5, <1>13, <1>15 DEF ReadAt
      <3>3. QED BY <1>11, <2>1, <3>1, <3>2
    <2>2. CASE k # h
      <3>1. J[k] = argv[Old(k)] /\ (IsValue(J, k + 1) <=> IsValue(argv, Old(k) + 1))
        BY <1>7, <1>17, <2>2
      <3>2. IsValue(J, k + 1) => J[k + 1] = argv[Old(k) + 1]
        <4> SUFFICES ASSUME IsValue(J, k + 1) PROVE J[k + 1] = argv[Old(k) + 1] OBVIOUS
        <4>1. k + 1 \in 1..(n - 1) /\ J[k + 1].kind = "word" BY <1>6 DEF IsValue
        <4>2. k + 1 # h BY <1>3, <1>13, <4>1
        <4>3. Old(k + 1) = Old(k) + 1 BY <1>2, <2>2, <4>2
        <4> HIDE DEF Old
        <4>4. QED BY <1>7, <4>1, <4>2, <4>3
      <3> HIDE DEF Old
      <3>3. QED BY <3>1, <3>2 DEF ReadAt
    <2>3. QED BY <2>1, <2>2
  <1>27. \A f \in FlagsOf(argv) :
           ReadAt(J, Max(PlacesOf(J, f))) = ReadAt(argv, Max(PlacesOf(argv, f)))
    <2> SUFFICES ASSUME NEW f \in FlagsOf(argv)
                 PROVE  ReadAt(J, Max(PlacesOf(J, f))) = ReadAt(argv, Max(PlacesOf(argv, f)))
      OBVIOUS
    <2> DEFINE B == PlacesOf(J, f)
               b == Max(B)
    <2>1. PlacesOf(argv, f) # {} BY DEF FlagsOf, PlacesOf
    <2>2. B # {} /\ B \in SUBSET (1..(n - 1)) BY <1>22, <1>23, <2>1
    <2>3. \A k \in B : k \notin WordsOf(J) BY DEF PlacesOf, FlagPlaces, WordsOf
    <2>4. Max(PlacesOf(argv, f)) = Old(b) BY <1>25, <2>1
    <2> HIDE DEF B
    <2>5. b \in B BY <1>6, <2>2, MaxIsIn
    <2> HIDE DEF b, Old
    <2>6. ReadAt(J, b) = ReadAt(argv, Old(b)) BY <1>26, <2>2, <2>3, <2>5
    <2>7. QED BY <2>4, <2>6 DEF b, B
  <1>28. [f \in FlagsOf(J) |-> ReadAt(J, Max(PlacesOf(J, f)))]
           = [f \in FlagsOf(argv) |-> ReadAt(argv, Max(PlacesOf(argv, f)))]
    BY <1>24, <1>27
  <1>29. parseArgs(J) = parseArgs(argv) BY <1>19, <1>28, ParsedIs
  <1>30. QED BY <1>29 DEF J

LEMMA EachIsReadOnce ==
    ASSUME NEW F, NEW V, NEW argv \in Seq(ArgumentsOf(F, V))
    PROVE  IsReadOnce(argv)
  <1> DEFINE S == ArgumentsOf(F, V)
             n == Len(argv)
             read == parseArgs(argv)
             words == WordsOf(argv)
             values == {i \in words : IsValue(argv, i)}
             p == PositionalParts(argv)
  <1>1. n \in Nat /\ DOMAIN argv = 1..n BY LenProperties
  <1>2. \A i \in 1..n : argv[i] \in S BY ElementOfSeq
  <1>3. read.positional = FlattenSeq(p) BY ParsedIs
  <1>4. \A f \in FlagsOf(argv) : read.flags[f] = ReadAt(argv, Max(PlacesOf(argv, f)))
    <2> DEFINE given(f) == ReadAt(argv, Max(PlacesOf(argv, f)))
    <2>1. read.flags = [f \in FlagsOf(argv) |-> given(f)] BY ParsedIs
    <2> HIDE DEF given, read
    <2>2. \A f \in FlagsOf(argv) : read.flags[f] = given(f) BY <2>1
    <2>3. QED BY <2>2 DEF given
  <1>5. Len(read.positional) = Cardinality(words \ values)
    <2> DEFINE C == words \ values
    <2>1. /\ p \in Seq(Seq(S)) /\ Len(p) = n
          /\ \A i \in 1..n : p[i] = IF i \in words /\ ~IsValue(argv, i) THEN <<argv[i]>> ELSE <<>>
      BY PositionalIs
    <2>2. \A i : i \in C <=> i \in words /\ ~IsValue(argv, i) OBVIOUS
    <2>3. C \in SUBSET (1..n) BY <1>1 DEF WordsOf
    <2> HIDE DEF p, C, S, n
    <2>4. \A x : Len(<<x>>) = 1 OBVIOUS
    <2>5. Len(<<>>) = 0 OBVIOUS
    <2>6. \A i \in 1..n : Len(p[i]) = IF i \in C THEN 1 ELSE 0 BY <2>1, <2>2, <2>4, <2>5
    <2>7. Len(FlattenSeq(p)) = Cardinality(C) BY <2>1, <2>3, <2>6, FlattenCounts
    <2>8. QED BY <1>3, <2>7 DEF C
  <1>6. ASSUME NEW i \in values
        PROVE  /\ parseArgs(Joined(argv, i - 1)) = read
               /\ \/ read.flags[argv[i - 1].flag] = argv[i].value
                  \/ \E k \in PlacesOf(argv, argv[i - 1].flag) : k > i
    <2> DEFINE h == i - 1
               f == argv[h].flag
               P == PlacesOf(argv, f)
               m == Max(P)
    <2>1. /\ i \in 1..n /\ i > 1 /\ argv[i].kind = "word" /\ argv[i].value # EmptyText
          /\ argv[h].kind = "long" /\ argv[h].flag \notin Switches
      BY <1>1 DEF WordsOf, IsValue
    <2>2. h \in 1..(n - 1) /\ h \in 1..n /\ h + 1 = i BY <1>1, <2>1
    <2>3. IsValue(argv, h + 1) BY <2>2
    <2> HIDE DEF h, words, values
    <2>4. parseArgs(Joined(argv, h)) = read BY <2>1, <2>2, JoiningKeeps
    <2>5. h \in FlagPlaces(argv) BY <1>1, <2>1, <2>2 DEF FlagPlaces
    <2>6. h \in P /\ f \in FlagsOf(argv) BY <2>5 DEF PlacesOf, FlagsOf
    <2>7. P \in SUBSET (1..n) BY <1>1 DEF PlacesOf, FlagPlaces
    <2>8. i \notin P BY <2>1 DEF PlacesOf, FlagPlaces
    <2> HIDE DEF P, f
    <2>9. m \in P /\ \A y \in P : y <= m BY <1>1, <2>6, <2>7, MaxIsIn
    <2>10. read.flags[f] = ReadAt(argv, m) BY <1>4, <2>6 DEF P
    <2> HIDE DEF m, read
    <2>11. CASE m = h
      <3>1. ReadAt(argv, h) = argv[h + 1].value BY <2>1, <2>3 DEF ReadAt
      <3>2. read.flags[f] = argv[i].value BY <2>2, <2>10, <2>11, <3>1
      <3>3. QED BY <2>4, <3>2 DEF f, h
    <2>12. CASE m # h
      <3>1. m \in 1..n /\ h <= m /\ m # i BY <2>6, <2>7, <2>8, <2>9
      <3>2. m > i BY <1>1, <2>1, <2>2, <2>12, <3>1
      <3>3. QED BY <2>4, <2>9, <3>2 DEF P, f, h
    <2>13. QED BY <2>11, <2>12
  <1>7. QED
    <2>1. words = {i \in DOMAIN argv : argv[i].kind = "word"} BY DEF WordsOf
    <2> HIDE DEF words, read
    <2>2. IsReadOnce(argv) <=>
            /\ Len(read.positional) = Cardinality(words \ values)
            /\ \A i \in values :
                 /\ parseArgs(Joined(argv, i - 1)) = read
                 /\ \/ read.flags[argv[i - 1].flag] = argv[i].value
                    \/ \E k \in PlacesOf(argv, argv[i - 1].flag) : k > i
      BY <2>1, Zenon DEF IsReadOnce, read
    <2> HIDE DEF values
    <2>3. QED BY <1>5, <1>6, <2>2

-----------------------------------------------------------------------------
(* The files of a generated project *)

LEMMA FilesAre ==
    ASSUME NEW o \in ResolvedOptions
    PROVE  \A x : x \in files(o) <=>
             \/ x \in {"package.json", "tsconfig.json", "intellibiz.config.ts", "src/index.ts",
                       "src/actions/greet.ts", "README.md", ".gitignore", ".env.example"}
             \/ x = "src/actions/quote.ts" /\ Finance(o)
             \/ x = "src/actions/whoami.ts" /\ Identity(o)
             \/ x \in {"src/types.ts", "src/payments/dev-provider.ts", "src/payments/register.ts",
                       "src/actions/create-order.ts", "src/webhooks/payment.ts"} /\ Commerce(o)
             \/ x = "tests/app.test.ts" /\ o.tests
             \/ x = "docker-compose.yml" /\ o.docker
             \/ x = ".github/workflows/ci.yml" /\ o.ci
  <1>1. o.tests \in BOOLEAN /\ o.docker \in BOOLEAN /\ o.ci \in BOOLEAN BY DEF ResolvedOptions
  <1>2. Finance(o) \in BOOLEAN /\ Commerce(o) \in BOOLEAN /\ Identity(o) \in BOOLEAN BY DEF Finance, Commerce, Identity
  <1>3. QED BY <1>1, <1>2 DEF files, Given

\* The source of each file that has one.
LEMMA SourcesAre ==
    ASSUME NEW o \in ResolvedOptions, NEW f \in DOMAIN SourceOf(o)
    PROVE  /\ f \in files(o)
           /\ \/ /\ f = "intellibiz.config.ts"
                 /\ SourceOf(o)[f] = Source({}, From("intellibiz", {"defineConfig"}),
                                            Given(Identity(o), {"JWT_SECRET"}))
              \/ f = "src/index.ts" /\ SourceOf(o)[f] = buildEntrySource(o)
              \/ f = "src/actions/greet.ts" /\ SourceOf(o)[f] = buildGreetAction
              \/ f = "src/actions/quote.ts" /\ Finance(o) /\ SourceOf(o)[f] = buildQuoteAction
              \/ f = "src/actions/whoami.ts" /\ Identity(o) /\ SourceOf(o)[f] = buildWhoamiAction
              \/ f = "src/types.ts" /\ Commerce(o) /\ SourceOf(o)[f] = buildEventRegistry
              \/ f = "src/payments/dev-provider.ts" /\ Commerce(o) /\ SourceOf(o)[f] = buildDevProvider
              \/ f = "src/payments/register.ts" /\ Commerce(o) /\ SourceOf(o)[f] = buildProviderRegistration
              \/ f = "src/actions/create-order.ts" /\ Commerce(o) /\ SourceOf(o)[f] = buildCreateOrderAction
              \/ f = "src/webhooks/payment.ts" /\ Commerce(o) /\ SourceOf(o)[f] = buildWebhookHandler
              \/ f = "tests/app.test.ts" /\ o.tests /\ SourceOf(o)[f] = buildTestSuite(o)
  <1>1. DOMAIN SourceOf(o) =
          {g \in files(o) : g \notin {"package.json", "tsconfig.json", "README.md", ".gitignore",
                ".env.example", "docker-compose.yml", ".github/workflows/ci.yml"}}
    BY DEF SourceOf
  <1>2. f \in files(o) BY <1>1
  <1>3. f \notin {"package.json", "tsconfig.json", "README.md", ".gitignore",
                ".env.example", "docker-compose.yml", ".github/workflows/ci.yml"}
    BY <1>1
  <1>4. \/ f = "intellibiz.config.ts" \/ f = "src/index.ts" \/ f = "src/actions/greet.ts"
        \/ f = "src/actions/quote.ts" /\ Finance(o)
        \/ f = "src/actions/whoami.ts" /\ Identity(o)
        \/ f = "src/types.ts" /\ Commerce(o)
        \/ f = "src/payments/dev-provider.ts" /\ Commerce(o)
        \/ f = "src/payments/register.ts" /\ Commerce(o)
        \/ f = "src/actions/create-order.ts" /\ Commerce(o)
        \/ f = "src/webhooks/payment.ts" /\ Commerce(o)
        \/ f = "tests/app.test.ts" /\ o.tests
    BY <1>2, <1>3, FilesAre
  <1>5. /\ f = "intellibiz.config.ts" =>
             SourceOf(o)[f] = Source({}, From("intellibiz", {"defineConfig"}),
                                     Given(Identity(o), {"JWT_SECRET"}))
        /\ f = "src/index.ts" => SourceOf(o)[f] = buildEntrySource(o)
        /\ f = "src/actions/greet.ts" => SourceOf(o)[f] = buildGreetAction
        /\ f = "src/actions/quote.ts" => SourceOf(o)[f] = buildQuoteAction
        /\ f = "src/actions/whoami.ts" => SourceOf(o)[f] = buildWhoamiAction
        /\ f = "src/types.ts" => SourceOf(o)[f] = buildEventRegistry
        /\ f = "src/payments/dev-provider.ts" => SourceOf(o)[f] = buildDevProvider
        /\ f = "src/payments/register.ts" => SourceOf(o)[f] = buildProviderRegistration
        /\ f = "src/actions/create-order.ts" => SourceOf(o)[f] = buildCreateOrderAction
        /\ f = "src/webhooks/payment.ts" => SourceOf(o)[f] = buildWebhookHandler
        /\ f = "tests/app.test.ts" => SourceOf(o)[f] = buildTestSuite(o)
    BY <1>2, <1>3 DEF SourceOf
  <1>6. QED BY <1>2, <1>4, <1>5

\* What a file may import of packages: names that are exported, of declared dependencies.
LEMMA ImportsFit ==
    ASSUME NEW o \in ResolvedOptions
    PROVE  /\ \A S : \A n \in From("intellibiz", S) : n[1] = "intellibiz" /\ n[2] \in S
           /\ \A S : \A n \in From("zod", S) : n[1] = "zod"
           /\ \A S : \A n \in From("@intellibiz/core", S) : n[1] = "@intellibiz/core"
           /\ \A S : \A n \in From("vitest", S) : n[1] = "vitest"
           /\ \A S : \A n \in From("@intellibiz/testing", S) : n[1] = "@intellibiz/testing"
           /\ {"intellibiz", "zod"} \subseteq dependencies(o)
           /\ Commerce(o) => "@intellibiz/core" \in dependencies(o)
           /\ o.tests => {"vitest", "@intellibiz/testing"} \subseteq devDependencies(o)
  <1>1. \A p, S : \A n \in From(p, S) : n[1] = p /\ n[2] \in S BY DEF From
  <1>2. o.tests \in BOOLEAN /\ Commerce(o) \in BOOLEAN BY DEF ResolvedOptions, Commerce
  <1>3. QED BY <1>1, <1>2 DEF dependencies, devDependencies, Given

\* What the source s, of the file f, needs of the project.
Fits(o, f, s) ==
    /\ s.local \subseteq files(o)
    /\ \A n \in s.names :
         /\ n[1] \in dependencies(o) \cup devDependencies(o)
         /\ n[1] = "intellibiz" /\ n[2] \notin intellibizExports => f = "src/payments/dev-provider.ts"
    /\ s.env \subseteq buildEnvExample(o)

LEMMA EachFits ==
    ASSUME NEW o \in ResolvedOptions, NEW f \in DOMAIN SourceOf(o)
    PROVE  Fits(o, f, SourceOf(o)[f])
  <1> USE FilesAre, ImportsFit
  <1>1. o.tests \in BOOLEAN /\ o.docker \in BOOLEAN /\ o.ci \in BOOLEAN BY DEF ResolvedOptions
  <1>2. Finance(o) \in BOOLEAN /\ Commerce(o) \in BOOLEAN /\ Identity(o) \in BOOLEAN
    BY DEF Finance, Commerce, Identity
  <1>3. /\ {"PORT", "JWT_SECRET"} \subseteq buildEnvExample(o)
        /\ Commerce(o) => {"STRIPE_SECRET_KEY", "STRIPE_WEBHOOK_SECRET"} \subseteq buildEnvExample(o)
    BY <1>1, <1>2 DEF buildEnvExample, Given
  <1> DEFINE config == Source({}, From("intellibiz", {"defineConfig"}), Given(Identity(o), {"JWT_SECRET"}))
  <1>4. Fits(o, f, config) BY <1>2, <1>3 DEF Fits, Source, Given, intellibizExports
  <1>5. Fits(o, f, buildEntrySource(o))
    <2>1. /\ buildEntrySource(o).local =
               {"src/actions/greet.ts"} \cup Given(Finance(o), {"src/actions/quote.ts"}) \cup
               Given(Commerce(o), {"src/actions/create-order.ts", "src/payments/register.ts",
                                   "src/webhooks/payment.ts"}) \cup
               Given(Identity(o), {"src/actions/whoami.ts"})
          /\ buildEntrySource(o).names = From("intellibiz", {"http"} \cup Given(Commerce(o), {"commerce"}))
          /\ buildEntrySource(o).env = {"PORT"}
      BY DEF buildEntrySource
    <2>2. buildEntrySource(o).local \subseteq files(o) BY <1>2, <2>1 DEF Given
    <2>3. {"http"} \cup Given(Commerce(o), {"commerce"}) \subseteq intellibizExports
      BY DEF Given, intellibizExports
    <2>4. QED BY <1>3, <2>1, <2>2, <2>3 DEF Fits
  <1>6. Fits(o, f, buildGreetAction)
    BY DEF Fits, buildGreetAction, Source, Zod, intellibizExports
  <1>7. Fits(o, f, buildQuoteAction)
    BY DEF Fits, buildQuoteAction, Source, Zod, intellibizExports
  <1>8. Fits(o, f, buildWhoamiAction)
    BY DEF Fits, buildWhoamiAction, Source, intellibizExports
  <1>9. Commerce(o) => Fits(o, f, buildEventRegistry)
    BY DEF Fits, buildEventRegistry, Source
  <1>10. f = "src/payments/dev-provider.ts" => Fits(o, f, buildDevProvider)
    BY DEF Fits, buildDevProvider, Source
  <1>11. Commerce(o) => Fits(o, f, buildProviderRegistration)
    BY DEF Fits, buildProviderRegistration, Source, intellibizExports
  <1>12. Fits(o, f, buildCreateOrderAction)
    BY DEF Fits, buildCreateOrderAction, Source, Zod, intellibizExports
  <1>13. Commerce(o) => Fits(o, f, buildWebhookHandler)
    BY <1>3 DEF Fits, buildWebhookHandler, Source, intellibizExports
  <1>14. o.tests => Fits(o, f, buildTestSuite(o))
    <2>1. {"src/actions/greet.ts"} \cup Given(Finance(o), {"src/actions/quote.ts"}) \cup
          Given(Commerce(o), {"src/actions/create-order.ts", "src/payments/register.ts"}) \subseteq files(o)
      BY <1>2 DEF Given
    <2>2. QED BY <2>1 DEF Fits, buildTestSuite, Source
  <1> HIDE DEF config
  <1>15. QED BY <1>4, <1>5, <1>6, <1>7, <1>8, <1>9, <1>10, <1>11, <1>12, <1>13, <1>14, SourcesAre DEF config

LEMMA AllFilesFit == \A o \in ResolvedOptions : FilesFit(o)
  <1> SUFFICES ASSUME NEW o \in ResolvedOptions PROVE FilesFit(o) OBVIOUS
  <1>1. o.tests \in BOOLEAN /\ Finance(o) \in BOOLEAN /\ Commerce(o) \in BOOLEAN /\ Identity(o) \in BOOLEAN
    BY DEF ResolvedOptions, Finance, Commerce, Identity
  <1>2. ASSUME NEW f \in DOMAIN SourceOf(o)
        PROVE  /\ SourceOf(o)[f].local \subseteq files(o)
               /\ {n[1] : n \in SourceOf(o)[f].names} \subseteq dependencies(o) \cup devDependencies(o)
               /\ SourceOf(o)[f].env \subseteq buildEnvExample(o)
               /\ {n \in SourceOf(o)[f].names : n[1] = "intellibiz" /\ n[2] \notin intellibizExports} # {}
                    => f = "src/payments/dev-provider.ts"
    BY EachFits DEF Fits
  <1> DEFINE E == buildEntrySource(o)
             R == {"/health", "/greet"} \cup
                 Given(Finance(o), {"/quote"}) \cup Given(Identity(o), {"/me"}) \cup
                 Given(Commerce(o), {"/orders", "/webhooks/payment"})
             D == buildReadme(o)
  <1>3. E.banner = R BY DEF buildEntrySource
  <1>4. E.mounted = R \cup {"/"} BY DEF buildEntrySource
  <1>5. D.routes = R \cup {"/"} BY DEF buildReadme
  <1>6. D.tried = {"/health"} \cup Given(Commerce(o) /\ o.tests, {"/greet", "/quote", "/orders"})
    BY DEF buildReadme
  <1>7. D.tried \subseteq R \cup {"/"}
    <2>1. Commerce(o) => Finance(o) BY DEF Finance
    <2>2. QED BY <1>1, <1>6, <2>1 DEF Given
  <1>8. D.scripts \subseteq scripts(o) BY <1>1 DEF buildReadme, scripts, Given
  <1> HIDE DEF E, R, D
  <1>9. QED BY <1>2, <1>3, <1>4, <1>5, <1>7, <1>8 DEF FilesFit, E, D

-----------------------------------------------------------------------------
(* The configuration of a generated project *)

\* What filling in keeps and what it adds.
LEMMA FilledHas ==
    ASSUME NEW fields, NEW given, NEW f \in DOMAIN fields
    PROVE  /\ f \in DOMAIN given => f \in DOMAIN Filled(fields, given) /\ Filled(fields, given)[f] = given[f]
           /\ f \notin DOMAIN given /\ fields[f].default # NoValue
                => f \in DOMAIN Filled(fields, given) /\ Filled(fields, given)[f] = fields[f].default
  <1> DEFINE D == {g \in DOMAIN fields : g \in DOMAIN given \/ fields[g].default # NoValue}
  <1>1. Filled(fields, given) = [g \in D |-> IF g \in DOMAIN given THEN given[g] ELSE fields[g].default]
    BY DEF Filled
  <1>2. QED BY <1>1

\* The sections of a generated configuration.
TenancySection == [strategy |-> "column", key |-> "org_id", type |-> "uuid", strict |-> "true"]
EnvironmentSection == [trace |-> "true", logLevel |-> "info"]
AuthSection == [provider |-> "internal", jwtSecret |-> "text"]
FinanceSection == [baseCurrency |-> "USD", rounding |-> "bankers"]
CommerceSection == [invoicing |-> "auto"]
LedgerSection == [mode |-> "atomic"]
WebhookSection == [provider |-> "memory", ttlHours |-> "positive"]

Accepts(fields, given) == \A f \in DOMAIN fields : ~Rejects(fields, given, f)

LEMMA SectionsAreAccepted ==
    /\ Accepts(TenancySchema, TenancySection)
    /\ Accepts(EnvironmentSchema, EnvironmentSection)
    /\ Accepts(AuthSchema, AuthSection)
    /\ Accepts(FinanceSchema, FinanceSection)
    /\ Accepts(CommerceSchema, CommerceSection)
    /\ Accepts([mode |-> LedgerMode], LedgerSection)
    /\ Accepts(WebhookDedupSchema, WebhookSection)
  <1>1. /\ \A V, d : Enum(V, d).accepts = V /\ Enum(V, d).required = FALSE
        /\ \A V : Required(V).accepts = V
        /\ \A d : Flag(d).accepts = {"true", "false"} /\ Flag(d).required = FALSE
        /\ \A d : Text(d).required = FALSE
        /\ Positive.accepts = {"positive"}
    BY DEF Enum, Required, Flag, Text, Positive
  <1> USE <1>1 DEF Accepts, Rejects
  <1>2. Accepts(TenancySchema, TenancySection) BY DEF TenancySchema, TenancySection
  <1>3. Accepts(EnvironmentSchema, EnvironmentSection) BY DEF EnvironmentSchema, EnvironmentSection
  <1>4. Accepts(AuthSchema, AuthSection) BY DEF AuthSchema, AuthSection
  <1>5. Accepts(FinanceSchema, FinanceSection) BY DEF FinanceSchema, FinanceSection
  <1>6. Accepts(CommerceSchema, CommerceSection) BY DEF CommerceSchema, CommerceSection
  <1>7. Accepts([mode |-> LedgerMode], LedgerSection) BY DEF LedgerMode, LedgerSection
  <1>8. Accepts(WebhookDedupSchema, WebhookSection) BY DEF WebhookDedupSchema, WebhookSection
  <1> HIDE DEF Accepts, Rejects
  <1>9. QED BY <1>2, <1>3, <1>4, <1>5, <1>6, <1>7, <1>8

\* The fields that the dependency rules read.
LEMMA RuleFields ==
    /\ {"provider", "jwtSecret"} \subseteq DOMAIN AuthSchema
    /\ "dryRun" \in DOMAIN EnvironmentSchema /\ EnvironmentSchema["dryRun"].default = "false"
    /\ "baseCurrency" \in DOMAIN FinanceSchema
    /\ NoValue \notin {"text", "true", "false", "USD"}
  <1>1. /\ {"provider", "jwtSecret"} \subseteq DOMAIN AuthSchema
        /\ "text" \in AuthSchema["jwtSecret"].accepts
    BY DEF AuthSchema, Enum
  <1>2. /\ "dryRun" \in DOMAIN EnvironmentSchema /\ EnvironmentSchema["dryRun"].default = "false"
        /\ {"true", "false"} \subseteq EnvironmentSchema["dryRun"].accepts
    BY DEF EnvironmentSchema, Flag, Enum
  <1>3. "baseCurrency" \in DOMAIN FinanceSchema /\ "USD" \in FinanceSchema["baseCurrency"].accepts
    BY DEF FinanceSchema, Required
  <1>4. /\ {"auth", "environment", "finance"} \subseteq DOMAIN SectionSchema
        /\ SectionSchema["auth"] = AuthSchema
        /\ SectionSchema["environment"] = EnvironmentSchema
        /\ SectionSchema["finance"] = FinanceSchema
    BY DEF SectionSchema
  <1>5. QED BY <1>1, <1>2, <1>3, <1>4, ConfigAssumption

LEMMA ConfigBoots ==
    ASSUME NEW o \in ResolvedOptions, NEW production \in BOOLEAN
    PROVE  Throws(defineConfig(buildConfigSource(o), production))
             <=> Commerce(o) /\ "finance" \notin o.modules
  <1> DEFINE c == buildConfigSource(o)
             S == c.sections
             D == {"tenancy", "environment"} \cup
                  Given(Identity(o), {"auth"}) \cup
                  Given("finance" \in o.modules, {"finance"}) \cup
                  Given(Commerce(o), {"commerce", "commerce.ledger", "commerce.webhookDedup"})
             R == [s \in D |-> Filled(SectionSchema[s], S[s])]
             r == safeParse(c)
  <1>1. c = [modules |-> o.modules, sections |-> S] /\ c.modules = o.modules
    BY DEF buildConfigSource
  <1>2. S = [s \in D |->
            CASE s = "tenancy"     -> TenancySection
              [] s = "environment" -> EnvironmentSection
              [] s = "auth"        -> AuthSection
              [] s = "finance"     -> FinanceSection
              [] s = "commerce"    -> CommerceSection
              [] s = "commerce.ledger"       -> LedgerSection
              [] s = "commerce.webhookDedup" -> WebhookSection]
    BY DEF buildConfigSource, TenancySection, EnvironmentSection, AuthSection, FinanceSection,
           CommerceSection, LedgerSection, WebhookSection
  <1>3. \A x : x \in D <=> \/ x \in {"tenancy", "environment"}
                           \/ x = "auth" /\ Identity(o)
                           \/ x = "finance" /\ "finance" \in o.modules
                           \/ x \in {"commerce", "commerce.ledger", "commerce.webhookDedup"} /\ Commerce(o)
    BY DEF Given
  <1>4. DOMAIN S = D BY <1>2
  <1> HIDE DEF D
  <1>5. /\ S["tenancy"] = TenancySection /\ S["environment"] = EnvironmentSection
        /\ "auth" \in D => S["auth"] = AuthSection
        /\ "finance" \in D => S["finance"] = FinanceSection
        /\ "commerce" \in D => S["commerce"] = CommerceSection
        /\ "commerce.ledger" \in D => S["commerce.ledger"] = LedgerSection
        /\ "commerce.webhookDedup" \in D => S["commerce.webhookDedup"] = WebhookSection
    BY <1>2, <1>3
  <1> HIDE DEF S, c
  <1>6. /\ {"tenancy", "environment", "auth", "finance", "commerce", "commerce.ledger",
            "commerce.webhookDedup"} \subseteq DOMAIN SectionSchema
        /\ SectionSchema["tenancy"] = TenancySchema
        /\ SectionSchema["environment"] = EnvironmentSchema
        /\ SectionSchema["auth"] = AuthSchema
        /\ SectionSchema["finance"] = FinanceSchema
        /\ SectionSchema["commerce"] = CommerceSchema
        /\ SectionSchema["commerce.ledger"] = [mode |-> LedgerMode]
        /\ SectionSchema["commerce.webhookDedup"] = WebhookDedupSchema
    BY DEF SectionSchema
  <1>7. D \subseteq DOMAIN SectionSchema BY <1>3, <1>6
  <1>8. \A s \in D : Accepts(SectionSchema[s], S[s])
    BY <1>3, <1>5, <1>6, SectionsAreAccepted
  <1>9. o.modules \subseteq ConfigModules
    BY DEF ResolvedOptions, MODULE_NAMES, ConfigModules
  <1>10. r = [c EXCEPT !.sections = R]
    <2>1. c.sections = S BY <1>1
    <2>2. DOMAIN c.sections \cap DOMAIN SectionSchema = D BY <1>4, <1>7, <2>1
    <2>3. \A s \in D : \A f \in DOMAIN SectionSchema[s] : ~Rejects(SectionSchema[s], c.sections[s], f)
      BY <1>8, <2>1 DEF Accepts
    <2>4. QED BY <1>1, <1>9, <2>1, <2>2, <2>3 DEF safeParse
  <1>11. r = [modules |-> o.modules, sections |-> R]
    <2> HIDE DEF r, R
    <2>1. QED BY <1>1, <1>10
  <1> HIDE DEF r
  <1>12. r.sections = R /\ DOMAIN R = D BY <1>11
  <1>13. \A s \in D : R[s] = Filled(SectionSchema[s], S[s]) OBVIOUS
  <1> HIDE DEF R
  <1>14. ~Throws(r)
    <2>1. \A m, x, e : [modules |-> m, sections |-> x] # [code |-> e] OBVIOUS
    <2>2. QED BY <1>11, <2>1 DEF Throws, ConfigValidationError, ConfigDependencyError
  <1>15. Get(r, "auth", "provider") = "internal" => Get(r, "auth", "jwtSecret") = "text"
    <2> SUFFICES ASSUME Get(r, "auth", "provider") = "internal"
                 PROVE  Get(r, "auth", "jwtSecret") = "text"
      OBVIOUS
    <2>1. ~("auth" \in D) => NoValue = "internal" BY <1>12 DEF Get
    <2>2. "internal" \in AuthSchema["provider"].accepts BY DEF AuthSchema, Required
    <2>3. NoValue # "internal" BY <2>2, <1>6, RuleFields, ConfigAssumption
    <2>4. "auth" \in D BY <2>1, <2>3
    <2>5. R["auth"] = Filled(AuthSchema, AuthSection) BY <1>5, <1>6, <1>13, <2>4
    <2>6. "jwtSecret" \in DOMAIN AuthSection /\ AuthSection["jwtSecret"] = "text" BY DEF AuthSection
    <2>7. "jwtSecret" \in DOMAIN R["auth"] /\ R["auth"]["jwtSecret"] = "text"
      BY <2>5, <2>6, FilledHas, RuleFields
    <2>8. QED BY <1>12, <2>4, <2>7 DEF Get
  <1>16. Has(r, "tenancy") BY <1>3, <1>12 DEF Has
  <1>17. Get(r, "governance", "allowSudo") = NoValue BY <1>3, <1>12 DEF Get
  <1>18. Get(r, "environment", "dryRun") # "true"
    <2>1. "dryRun" \notin DOMAIN EnvironmentSection BY DEF EnvironmentSection
    <2>2. R["environment"] = Filled(EnvironmentSchema, EnvironmentSection)
      BY <1>3, <1>5, <1>6, <1>13
    <2>3. "dryRun" \in DOMAIN R["environment"] /\ R["environment"]["dryRun"] = "false"
      BY <2>1, <2>2, FilledHas, RuleFields
    <2>4. QED BY <1>3, <1>12, <2>3 DEF Get
  <1>19. Has(r, "commerce") <=> Commerce(o) BY <1>3, <1>12 DEF Has
  <1>20. Get(r, "finance", "baseCurrency") = NoValue <=> "finance" \notin o.modules
    <2>1. CASE "finance" \notin o.modules BY <1>3, <1>12, <2>1 DEF Get
    <2>2. CASE "finance" \in o.modules
      <3>1. R["finance"] = Filled(FinanceSchema, FinanceSection) /\ "finance" \in D
        BY <1>3, <1>5, <1>6, <1>13, <2>2
      <3>2. "baseCurrency" \in DOMAIN FinanceSection /\ FinanceSection["baseCurrency"] = "USD"
        BY DEF FinanceSection
      <3>3. "baseCurrency" \in DOMAIN R["finance"] /\ R["finance"]["baseCurrency"] = "USD"
        BY <3>1, <3>2, FilledHas, RuleFields
      <3>4. Get(r, "finance", "baseCurrency") = "USD" BY <1>12, <3>1, <3>3 DEF Get
      <3>5. QED BY <2>2, <3>4, RuleFields
    <2>3. QED BY <2>1, <2>2
  <1>21. DEPENDENCY_RULES(r, production) <=> Commerce(o) /\ "finance" \notin o.modules
    <2>1. "text" \notin {NoValue, "empty"} BY RuleFields
    <2>2. NoValue # "true" BY RuleFields
    <2>3. QED BY <1>15, <1>16, <1>17, <1>18, <1>19, <1>20, <2>1, <2>2 DEF DEPENDENCY_RULES
  <1>22. QED BY <1>14, <1>21 DEF defineConfig, Throws, r, c

-----------------------------------------------------------------------------
(* Generated projects *)

LEMMA WorkflowFits ==
    ASSUME NEW o \in ResolvedOptions, NEW name \in {"app", "shop"}
    PROVE  /\ o.ci => (buildCiWorkflow \subseteq scripts(o) <=> o.tests)
           /\ buildCompose(name) = EnvDatabase <=> name = "app"
  <1>1. o.tests \in BOOLEAN BY DEF ResolvedOptions
  <1>2. buildCiWorkflow \subseteq scripts(o) <=> o.tests BY <1>1 DEF buildCiWorkflow, scripts, Given
  <1>3. buildCompose(name) = EnvDatabase <=> name = "app" BY DEF buildCompose, EnvDatabase
  <1>4. QED BY <1>2, <1>3

\* Leaving out no flag changes nothing.
LEMMA FlagsAgree ==
    ASSUME NEW flags, NonEmpty(Texts(flags)) = DOMAIN Texts(flags)
    PROVE  initOptions(Texts(flags)) = createOptions(Texts(flags))
  <1> DEFINE given == Texts(flags)
             texts == {f \in OptionFlags \cap DOMAIN flags : flags[f] # BooleanTrue}
             D == DOMAIN flags \cap texts
  <1>1. given = [x \in D |-> flags[x]] BY Zenon DEF Texts, Restriction
  <1> HIDE DEF given, texts
  <1>2. DOMAIN given = D /\ \A x \in D : given[x] = flags[x] BY <1>1
  <1>3. DOMAIN given \cap D = D BY <1>2
  <1>4. Restriction(given, D) = [x \in D |-> given[x]] BY <1>3, Zenon DEF Restriction
  <1> HIDE DEF D
  <1>5. Restriction(given, D) = given BY <1>1, <1>2, <1>4
  <1>6. NonEmpty(given) = D BY <1>2 DEF given
  <1>7. QED BY <1>5, <1>6, Zenon DEF initOptions, createOptions, given

\* What main reads: a switch, and the strings among the flags.
LEMMA RunIs ==
    ASSUME NEW F, NEW V, NEW argv \in Seq(ArgumentsOf(F, V))
    PROVE  LET read == parseArgs(argv).flags
           IN  /\ DOMAIN read = FlagsOf(argv)
               /\ \A f : f \in FlagsOf(argv) <=> PlacesOf(argv, f) # {}
               /\ \A f \in FlagsOf(argv) :
                    /\ Max(PlacesOf(argv, f)) \in PlacesOf(argv, f)
                    /\ read[f] = ReadAt(argv, Max(PlacesOf(argv, f)))
  <1> DEFINE n == Len(argv)
             read == parseArgs(argv).flags
             at(f) == ReadAt(argv, Max(PlacesOf(argv, f)))
  <1>1. n \in Nat /\ DOMAIN argv = 1..n BY LenProperties
  <1>2. read = [f \in FlagsOf(argv) |-> at(f)] BY ParsedIs
  <1> HIDE DEF read, at
  <1>3. DOMAIN read = FlagsOf(argv) /\ \A f \in FlagsOf(argv) : read[f] = at(f) BY <1>2
  <1>4. \A f : f \in FlagsOf(argv) <=> PlacesOf(argv, f) # {} BY DEF FlagsOf, PlacesOf
  <1>5. \A f : PlacesOf(argv, f) \in SUBSET (1..n) BY <1>1 DEF PlacesOf, FlagPlaces
  <1>6. \A f : PlacesOf(argv, f) # {} => Max(PlacesOf(argv, f)) \in PlacesOf(argv, f)
    BY <1>1, <1>5, MaxIsIn
  <1>7. QED BY <1>3, <1>4, <1>6 DEF read, at

LEMMA SwitchIsRead ==
    ASSUME NEW F, NEW V, BooleanTrue \notin V, NEW argv \in Seq(ArgumentsOf(F, V)),
           NEW s \in Switches
    PROVE  LET read == parseArgs(argv).flags
               holds == s \in DOMAIN read /\ read[s] = BooleanTrue
           IN  /\ IsOnly(argv, s, "long") \/ IsOnly(argv, s, "short") => holds
               /\ IsOnly(argv, s, "pair") => ~holds
               /\ PlacesOf(argv, s) = {} => ~holds
  <1> DEFINE read == parseArgs(argv).flags
             P == PlacesOf(argv, s)
             m == Max(P)
  <1>1. DOMAIN argv = 1..Len(argv) BY LenProperties
  <1>2. s \in DOMAIN read <=> P # {} BY RunIs
  <1>3. P # {} => m \in P /\ read[s] = ReadAt(argv, m) BY RunIs
  <1> HIDE DEF read
  <1>4. ASSUME NEW i \in P
        PROVE  /\ i \in 1..Len(argv) /\ argv[i].flag = s /\ argv[i].kind # "word"
               /\ argv[i].kind \in {"long", "short"} => ReadAt(argv, i) = BooleanTrue
               /\ argv[i].kind = "pair" => ReadAt(argv, i) # BooleanTrue
    <2>1. i \in 1..Len(argv) /\ argv[i].flag = s /\ argv[i].kind # "word"
      BY <1>1 DEF PlacesOf, FlagPlaces
    <2>2. (i + 1) - 1 = i BY <2>1
    <2>3. ~IsValue(argv, i + 1) BY <2>1, <2>2 DEF IsValue
    <2>4. argv[i] \in ArgumentsOf(F, V) BY <2>1, ElementOfSeq
    <2>5. argv[i].kind = "pair" => argv[i].value \in V BY <2>4, ArgumentIs
    <2>6. QED BY <2>1, <2>3, <2>5 DEF ReadAt
  <1> HIDE DEF m, P
  <1>5. \A k : IsOnly(argv, s, k) => P # {} /\ argv[m].kind = k BY <1>3 DEF IsOnly, P
  <1>6. QED BY <1>2, <1>3, <1>4, <1>5 DEF read, P

LEMMA ProgramsReadAlike ==
    ASSUME NEW F, NEW V, BooleanTrue \notin V, NEW argv \in Seq(ArgumentsOf(F, V))
    PROVE  ReadAlike(argv)
  <1> DEFINE read == parseArgs(argv).flags
             c == createRun(argv)
             i == initRun(argv)
             held(s) == s \in DOMAIN read /\ read[s] = BooleanTrue
             Written(s) == \E k \in PlacesOf(argv, s) :
                              \/ argv[k].kind = "long"
                              \/ argv[k].kind = "pair" /\ argv[k].value \notin {EmptyText, "false"}
             given == Texts(read)
  <1>1. /\ c.yes = held("yes") /\ c.force = held("force")
        /\ c.asks = (~held("yes") /\ NonEmpty(given) = {})
        /\ c.options = createOptions(given)
    BY Zenon DEF createRun
  <1>2. /\ i.yes = Written("yes") /\ i.force = Written("force")
        /\ i.asks = (~Written("yes") /\ NonEmpty(given) = {})
        /\ i.options = initOptions(given)
    BY Zenon DEF initRun
  <1>3. \A s \in Switches :
          /\ IsOnly(argv, s, "long") \/ IsOnly(argv, s, "short") => held(s)
          /\ IsOnly(argv, s, "pair") => ~held(s)
          /\ PlacesOf(argv, s) = {} => ~held(s)
    BY SwitchIsRead
  <1>4. \A s : /\ IsOnly(argv, s, "long") => Written(s)
               /\ IsOnly(argv, s, "short") => ~Written(s)
               /\ PlacesOf(argv, s) = {} => ~Written(s)
               /\ (IsOnly(argv, s, "pair") /\ \A k \in PlacesOf(argv, s) : argv[k].value = "true")
                    => Written(s)
    <2>1. "true" \notin {EmptyText, "false"} BY Zenon DEF EmptyText
    <2>2. QED BY <2>1 DEF IsOnly
  <1>5. {"yes", "force"} \subseteq Switches BY DEF Switches
  <1> HIDE DEF held, Written
  <1>6. ASSUME IsPlain(argv)
        PROVE  /\ \A s \in {"yes", "force"} : held(s) <=> Written(s)
               /\ createOptions(given) = initOptions(given)
    <2>1. \A s \in Switches : PlacesOf(argv, s) = {} \/ IsOnly(argv, s, "long")
      BY <1>6 DEF IsPlain, IsOnly, PlacesOf
    <2>2. \A s \in {"yes", "force"} : held(s) <=> Written(s) BY <1>3, <1>4, <1>5, <2>1
    <2>3. NonEmpty(given) = DOMAIN given
      <3> SUFFICES ASSUME NEW f \in DOMAIN given PROVE given[f] # EmptyText BY Zenon DEF NonEmpty
      <3>1. f \in OptionFlags /\ f \in DOMAIN read /\ given[f] = read[f]
        BY DEF Texts, Restriction
      <3>2. f \notin Switches BY <3>1 DEF OptionFlags, Switches
      <3> HIDE DEF given
      <3> DEFINE m == Max(PlacesOf(argv, f))
      <3>3. m \in PlacesOf(argv, f) /\ read[f] = ReadAt(argv, m) BY <3>1, RunIs
      <3> HIDE DEF m, read
      <3>4. m \in FlagPlaces(argv) /\ argv[m].flag = f BY <3>3 DEF PlacesOf
      <3>5. ReadAt(argv, m) # EmptyText BY <1>6, <3>2, <3>4 DEF IsPlain
      <3>6. QED BY <3>1, <3>3, <3>5
    <2>4. QED BY <2>2, <2>3, FlagsAgree
  <1> HIDE DEF c, i, given
  <1>7. IsPlain(argv) =>
          /\ c.force = i.force /\ c.asks = i.asks
          /\ resolveScaffoldOptions(c.options) = resolveScaffoldOptions(i.options)
    <2> SUFFICES ASSUME IsPlain(argv)
                 PROVE  /\ c.force = i.force /\ c.asks = i.asks
                        /\ resolveScaffoldOptions(c.options) = resolveScaffoldOptions(i.options)
      OBVIOUS
    <2>1. (held("yes") <=> Written("yes")) /\ (held("force") <=> Written("force")) BY <1>6
    <2>2. held("force") = Written("force") BY <2>1, Zenon DEF held, Written
    <2>3. (~held("yes") /\ NonEmpty(given) = {}) = (~Written("yes") /\ NonEmpty(given) = {})
      BY <2>1, Zenon DEF held, Written
    <2>4. c.options = i.options BY <1>1, <1>2, <1>6
    <2>5. c.force = i.force BY <1>1, <1>2, <2>2, Zenon
    <2>6. c.asks = i.asks BY <1>1, <1>2, <2>3, Zenon
    <2>7. QED BY <2>4, <2>5, <2>6, Zenon
  <1>8. ASSUME NEW s \in {"yes", "force"}
        PROVE  /\ IsOnly(argv, s, "short") => c[s] /\ ~i[s]
               /\ (IsOnly(argv, s, "pair") /\ \A k \in PlacesOf(argv, s) : argv[k].value = "true")
                    => ~c[s] /\ i[s]
    <2>1. c[s] = held(s) /\ i[s] = Written(s) BY <1>1, <1>2
    <2>2. QED BY <1>3, <1>4, <1>5, <2>1
  <1>9. QED BY <1>7, <1>8, Zenon DEF ReadAlike, c, i

LEMMA FunctionIsSeq == ASSUME NEW S, NEW n \in 0..4, NEW s \in [1..n -> S] PROVE s \in Seq(S)
  <1>1. n \in Nat OBVIOUS
  <1>2. QED BY <1>1, SeqDef

LEMMA NamesAreWords == Names \subseteq Seq(Characters)
  <1> SUFFICES ASSUME NEW n \in 0..4, NEW s \in [1..n -> {"a", "A", "1", "-", " ", "!"}]
               PROVE  s \in Seq(Characters)
    BY DEF Names
  <1>1. {"a", "A", "1", "-", " ", "!"} \subseteq Characters BY DEF Characters
  <1>2. \A S, T : S \subseteq T => [1..n -> S] \subseteq [1..n -> T] OBVIOUS
  <1>3. s \in [1..n -> Characters] BY <1>1, <1>2
  <1>4. QED BY <1>3, FunctionIsSeq

LEMMA CommandLinesAre ==
    \A argv \in ArgLists : argv \in Seq(ArgumentsOf(SomeFlags, SomeValues))
  <1> DEFINE S == ArgumentsOf(SomeFlags, SomeValues)
             Pairs(f, W) == [kind : {"pair"}, flag : {f}, value : W]
  <1>1. SomeArguments \subseteq S
    <2>1. \A W : \A f \in SomeFlags : W \subseteq SomeValues => Pairs(f, W) \subseteq S
      BY DEF ArgumentsOf
    <2>2. /\ Pairs("template", {"api", EmptyText}) \subseteq S
          /\ Pairs("modules", {"commerce,other", EmptyText}) \subseteq S
          /\ Pairs("features", {"ci", EmptyText}) \subseteq S
          /\ Pairs("yes", {"true"}) \subseteq S /\ Pairs("force", {"true"}) \subseteq S
      <3> HIDE DEF Pairs, S
      <3>1. QED BY <2>1 DEF SomeFlags, SomeValues
    <2>3. [kind : {"long"}, flag : {"template", "modules", "yes", "force"}] \subseteq S
      BY DEF ArgumentsOf, SomeFlags
    <2>4. [kind : {"short"}, flag : {"yes", "force", "other"}] \subseteq S
      BY DEF ArgumentsOf, SomeFlags
    <2>5. [kind : {"word"}, value : {"shop", "api", EmptyText}] \subseteq S
      BY DEF ArgumentsOf, SomeValues
    <2> HIDE DEF S
    <2>6. QED BY <2>2, <2>3, <2>4, <2>5, Zenon DEF SomeArguments
  <1>2. FewArguments \subseteq S BY <1>1 DEF FewArguments
  <1> HIDE DEF S
  <1>3. ASSUME NEW n \in 0..4, NEW A, A \subseteq S, NEW s \in [1..n -> A] PROVE s \in Seq(S)
    <2>1. s \in [1..n -> S] BY <1>3
    <2>2. QED BY <2>1, FunctionIsSeq
  <1>4. \A n \in 0..3 : n \in 0..4 OBVIOUS
  <1>5. SUFFICES ASSUME NEW argv \in ArgLists PROVE argv \in Seq(S) BY DEF S
  <1>6. CASE argv \in LongLists BY <1>2, <1>3, <1>6 DEF LongLists
  <1>7. CASE argv \in ShortLists
    <2>1. PICK n \in 0..3 : argv \in [1..n -> SomeArguments] BY <1>7 DEF ShortLists
    <2>2. QED BY <1>1, <1>3, <1>4, <2>1
  <1>8. QED BY <1>6, <1>7 DEF ArgLists

(***************************************************************************)
(* toKebabCase, toCamelCase and scaffoldAction (packages/cli/src/          *)
(* scaffold.ts): for a name of any length, the name of the generated file  *)
(* is stable under another conversion, the export is an identifier where   *)
(* the name allows one, and a name is refused only for want of letters.    *)
(***************************************************************************)
THEOREM EveryNameIsUsable == \A n \in Seq(Characters) : IsUsable(n)
  BY NameIsUsable

(***************************************************************************)
(* parseArgs (tools/create-intellibiz/src/bin.ts): for a command line of   *)
(* any length, over any flags and values, a flag that takes a value is     *)
(* read alike with "=" and without, and no word is read twice or dropped.  *)
(***************************************************************************)
THEOREM EveryArgumentIsReadOnce ==
    \A F, V : \A argv \in Seq(ArgumentsOf(F, V)) : IsReadOnce(argv)
  BY EachIsReadOnce

(***************************************************************************)
(* main of create-intellibiz and intellibiz init: for a command line of    *)
(* any length, over any flags and any values that are strings, both ask,   *)
(* write over files and choose options alike if its switches are written   *)
(* --yes and --force and no flag has an empty value; -y and -f hold for    *)
(* the first only, --yes=true and --force=true for the second only.        *)
(***************************************************************************)
THEOREM CommandLinesAgree ==
    \A F, V : BooleanTrue \notin V => \A argv \in Seq(ArgumentsOf(F, V)) : ReadAlike(argv)
  BY ProgramsReadAlike

(***************************************************************************)
(* intellibiz init and create-intellibiz: whatever options are chosen, the *)
(* generated files fit together and the configuration passes defineConfig, *)
(* names are usable, and both programs make the same of a command line, up *)
(* to the exceptions that the parts name.                                  *)
(***************************************************************************)
THEOREM ProjectsWork == Spec => []GeneratedProjectsWork
  <1>1. GeneratedFilesFit BY AllFilesFit DEF GeneratedFilesFit
  <1>2. GeneratedConfigBoots BY ConfigBoots DEF GeneratedConfigBoots
  <1>3. WorkflowRunsScripts BY WorkflowFits DEF WorkflowRunsScripts
  <1>4. NamesAreUsable BY EveryNameIsUsable, NamesAreWords DEF NamesAreUsable
  <1>5. CreatorsAgree BY CommandLinesAgree, CommandLinesAre, CommandAssumption DEF CreatorsAgree
  <1>6. ArgumentsAreReadOnce BY EveryArgumentIsReadOnce, CommandLinesAre DEF ArgumentsAreReadOnce
  <1>7. GeneratedProjectsWork BY <1>1, <1>2, <1>3, <1>4, <1>5, <1>6 DEF GeneratedProjectsWork
  <1>8. QED BY <1>7, PTL

=============================================================================
