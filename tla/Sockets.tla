------------------------------- MODULE Sockets -------------------------------
(***************************************************************************)
(* Socket contexts (packages/core/src/context/builders.ts).  Each message  *)
(* of a connection gets a context of its own, which keeps the room that it *)
(* broadcasts to; the driver of the socket library keeps the rooms of the  *)
(* connection.  Handlers of several messages run at once.                  *)
(***************************************************************************)
EXTENDS Integers, FiniteSets

CONSTANTS
    Connections,
    Messages,   \* the messages that arrive
    Rooms,
    NoRoom

ASSUME SocketAssumption == NoRoom \notin Rooms

VARIABLES
    rooms,      \* the driver: the rooms of each connection
    connected,  \* the connections that are open
    socket      \* message -> its context [connection, room, open]

socketVars == <<rooms, connected, socket>>

Idle == [connection : Connections, room : {NoRoom}, open : {FALSE}]

SocketTypeOK ==
    /\ rooms \in [Connections -> SUBSET Rooms]
    /\ connected \subseteq Connections
    /\ socket \in [Messages -> [connection : Connections, room : Rooms \cup {NoRoom}, open : BOOLEAN]]

SocketInit ==
    /\ rooms = [c \in Connections |-> {}]
    /\ connected = Connections
    /\ socket \in [Messages -> Idle]

\* The connection of the message's context.
Conn(m) == socket[m].connection

\* A message arrives; the runtime passes a room of the connection, or none.
buildSocketContext(m) ==
    /\ ~socket[m].open /\ Conn(m) \in connected
    /\ \E r \in rooms[Conn(m)] \cup {NoRoom} :
         socket' = [socket EXCEPT ![m].open = TRUE, ![m].room = r]
    /\ UNCHANGED <<rooms, connected>>

\* The driver ignores a connection that is closed.
join(m, r) ==
    /\ socket[m].open
    /\ rooms' = [rooms EXCEPT ![Conn(m)] = IF Conn(m) \in connected THEN @ \cup {r} ELSE @]
    /\ socket' = [socket EXCEPT ![m].room = r]
    /\ UNCHANGED connected

\* A plausible bug: leaving a room does not clear it.
leave_Keeps(m, r) ==
    /\ socket[m].open
    /\ rooms' = [rooms EXCEPT ![Conn(m)] = @ \ {r}]
    /\ UNCHANGED <<connected, socket>>

leave(m, r) ==
    /\ socket[m].open
    /\ rooms' = [rooms EXCEPT ![Conn(m)] = @ \ {r}]
    /\ socket' = [socket EXCEPT ![m].room = IF @ = r THEN NoRoom ELSE @]
    /\ UNCHANGED connected

disconnect(m) ==
    /\ socket[m].open
    /\ connected' = connected \ {Conn(m)}
    /\ rooms' = [rooms EXCEPT ![Conn(m)] = {}]
    /\ UNCHANGED socket

\* The handler returns.
Handled(m) ==
    /\ socket[m].open
    /\ socket' = [socket EXCEPT ![m].open = FALSE, ![m].room = NoRoom]
    /\ UNCHANGED <<rooms, connected>>

SocketNext ==
    \E m \in Messages :
        \/ buildSocketContext(m) \/ disconnect(m) \/ Handled(m)
        \/ \E r \in Rooms : join(m, r) \/ leave(m, r)

-----------------------------------------------------------------------------
(* Properties *)

\* The context would broadcast to a room that its connection is not in.
OutOfStep(m) == socket[m].open /\ socket[m].room # NoRoom /\ socket[m].room \notin rooms[Conn(m)]

(***************************************************************************)
(* "A subsequent broadcast() targets the room the connection is actually   *)
(* in" (builders.ts 107): within one handler it does.  A context gets out  *)
(* of step only when the handler of another message of its connection      *)
(* leaves the room, or when the connection is or was closed.               *)
(***************************************************************************)
BroadcastsGoToOwnRoom ==
    \A m \in Messages : (~OutOfStep(m) /\ OutOfStep(m)') =>
        \/ Conn(m) \notin connected'
        \/ \E n \in Messages \ {m} : /\ Conn(n) = Conn(m)
                                     /\ socket[n].open
                                     /\ rooms'[Conn(m)] = rooms[Conn(m)] \ {socket[m].room}
                                     /\ socket'[m] = socket[m]
                                     /\ socket'[n].room # socket[m].room

\* What the context says of its rooms.
KnowsNoRoom(m) == socket[m].open /\ socket[m].room = NoRoom

(***************************************************************************)
(* A handler that broadcast fails for want of a room has not joined one    *)
(* since it began or since it left its room: another handler's leave never *)
(* makes it fail, but leaving the last of several rooms does, although the *)
(* connection is still in the others.                                      *)
(***************************************************************************)
RoomLostOnlyByLeaving ==
    \A m \in Messages : (socket[m].open /\ ~KnowsNoRoom(m) /\ KnowsNoRoom(m)') =>
        rooms' = [rooms EXCEPT ![Conn(m)] = @ \ {socket[m].room}]

(***************************************************************************)
(* The room of a context changes with the rooms of its connection, but for *)
(* what other handlers of the connection do.                               *)
(***************************************************************************)
RoomsFollowTheHandler == [][BroadcastsGoToOwnRoom /\ RoomLostOnlyByLeaving]_socketVars

=============================================================================
