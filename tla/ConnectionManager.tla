-------------------------- MODULE ConnectionManager --------------------------
(***************************************************************************)
(* backend/app/ws/manager.py: the WebSocket connections of each room and   *)
(* the broadcasts over them.  RoomState.lock is only ever held between two *)
(* awaits, so no task finds it taken and a critical section is one step    *)
(* with what surrounds it.  A broadcast is a step that takes the snapshot, *)
(* one step per awaited send, and one that drops the dead connections.     *)
(* No caller passes "exclude".                                             *)
(***************************************************************************)
EXTENDS FiniteSets

CONSTANTS Rooms,      \* room slugs
          Sockets,    \* WebSocket objects; one is used again when forgotten
          Casters,    \* tasks that broadcast
          Objects,    \* RoomState objects; used again when collected
          NoObject

VARIABLES
  rooms,      \* self._rooms: room -> its RoomState, NoObject when absent
  members,    \* RoomState.connections
  at,         \* the rooms a socket's endpoint has it connected to (0 or 1)
  gone,       \* sockets whose client has gone, or which the endpoint has
              \* closed: a send may raise
  cast        \* a task's broadcast: the RoomState it holds, targets to come,
              \* and "dead"

vars == <<rooms, members, at, gone, cast>>

ASSUME ObjectsAssumption == NoObject \notin Objects

NoCast == [obj |-> NoObject, todo |-> {}, dead |-> {}]

Held == {cast[c].obj : c \in Casters}
Stored == {rooms[r] : r \in Rooms} \ {NoObject}

Casting(c) == cast[c] # NoCast
Targeted(s) == \E c \in Casters : s \in cast[c].todo \cup cast[c].dead

-----------------------------------------------------------------------------
\* After accept: self._rooms[room_id] makes the RoomState when it is missing.
Connect(s, r) ==
  /\ at[s] = {} /\ ~ Targeted(s)
  /\ \E o \in Objects :
       /\ IF rooms[r] = NoObject THEN o \notin Held \cup Stored
                                 ELSE o = rooms[r]
       /\ rooms' = [rooms EXCEPT ![r] = o]
       /\ members' = [members EXCEPT ![o] = @ \cup {s}]
  /\ at' = [at EXCEPT ![s] = {r}]
  /\ gone' = gone \ {s}
  /\ UNCHANGED cast

\* Mutants of Discard: the RoomState is dropped whoever is left; it is never
\* dropped; the connection stays in it.
DiscardAll(s, r) ==
  /\ rooms' = [rooms EXCEPT ![r] = NoObject]
  /\ UNCHANGED members

DiscardSocket(s, r) ==
  /\ UNCHANGED rooms
  /\ members' = [o \in Objects |->
                   IF o = rooms[r] THEN members[o] \ {s} ELSE members[o]]

DiscardNothing(s, r) == UNCHANGED <<rooms, members>>

\* The RoomState is dropped with its last connection.
Discard(s, r) ==
  IF rooms[r] = NoObject
    THEN UNCHANGED <<rooms, members>>
    ELSE LET left == members[rooms[r]] \ {s}
         IN  /\ members' = [members EXCEPT ![rooms[r]] = left]
             /\ rooms' = IF left = {} THEN [rooms EXCEPT ![r] = NoObject]
                                      ELSE rooms

Disconnect(s, r) ==
  /\ r \in at[s]
  /\ Discard(s, r)
  /\ at' = [at EXCEPT ![s] = {}]
  /\ UNCHANGED <<gone, cast>>

\* The client vanishes; the server's endpoint has yet to notice.
ClientGoes(s) ==
  /\ at[s] # {} /\ s \notin gone
  /\ gone' = gone \cup {s}
  /\ UNCHANGED <<rooms, members, at, cast>>

Broadcast(c, r) ==
  /\ ~ Casting(c)
  /\ rooms[r] # NoObject
  /\ cast' = [cast EXCEPT ![c] = [obj  |-> rooms[r],
                                  todo |-> members[rooms[r]],
                                  dead |-> {}]]
  /\ UNCHANGED <<rooms, members, at, gone>>

\* One send_json: to a client that has gone, or whose endpoint has closed
\* the connection meanwhile, it is lost or raises.
Send(c, s) ==
  /\ s \in cast[c].todo
  /\ \/ cast' = [cast EXCEPT ![c].todo = @ \ {s}]
     \/ /\ s \in gone \/ at[s] = {}
        /\ cast' = [cast EXCEPT ![c].todo = @ \ {s}, ![c].dead = @ \cup {s}]
  /\ UNCHANGED <<rooms, members, at, gone>>

\* The sends are over: the dead leave the RoomState the broadcast holds.
Finish(c) ==
  /\ Casting(c) /\ cast[c].todo = {}
  /\ members' = [members EXCEPT ![cast[c].obj] = @ \ cast[c].dead]
  /\ cast' = [cast EXCEPT ![c] = NoCast]
  /\ UNCHANGED <<rooms, at, gone>>

-----------------------------------------------------------------------------
Init ==
  /\ rooms = [r \in Rooms |-> NoObject]
  /\ members = [o \in Objects |-> {}]
  /\ at = [s \in Sockets |-> {}]
  /\ gone = {}
  /\ cast = [c \in Casters |-> NoCast]

Next ==
  \/ \E s \in Sockets : \/ \E r \in Rooms : Connect(s, r) \/ Disconnect(s, r)
                        \/ ClientGoes(s)
  \/ \E c \in Casters : \/ \E r \in Rooms : Broadcast(c, r)
                        \/ \E s \in Sockets : Send(c, s)
                        \/ Finish(c)

Spec == Init /\ [][Next]_vars

\* A send ends, and the endpoint of a client that has gone reads the
\* disconnect and leaves its loop.
Fairness ==
  /\ \A c \in Casters : WF_vars(Finish(c) \/ \E s \in Sockets : Send(c, s))
  /\ \A s \in Sockets :
       WF_vars(s \in gone /\ \E r \in Rooms : Disconnect(s, r))

FairSpec == Spec /\ Fairness

-----------------------------------------------------------------------------
TypeOK ==
  /\ rooms \in [Rooms -> Objects \cup {NoObject}]
  /\ members \in [Objects -> SUBSET Sockets]
  /\ at \in [Sockets -> SUBSET Rooms]
  /\ gone \subseteq Sockets
  /\ cast \in [Casters -> [obj : Objects \cup {NoObject},
                           todo : SUBSET Sockets, dead : SUBSET Sockets]]

(***************************************************************************)
(* A connected client is in the very set the next broadcast to its room    *)
(* reads: no join is recorded in a RoomState that a departure has just     *)
(* dropped, and no broadcast drops a client that is still there.           *)
(***************************************************************************)
ConnectedIsReached ==
  \A s \in Sockets \ gone : \A r \in at[s] :
    rooms[r] # NoObject /\ s \in members[rooms[r]]

(***************************************************************************)
(* Whoever is in a RoomState is connected to the room that holds it: a     *)
(* client that left is never in the next snapshot, and a dropped RoomState *)
(* which some broadcast still holds is empty.                              *)
(***************************************************************************)
NoStrays ==
  \A o \in Objects : \A s \in members[o] :
    \E r \in at[s] : rooms[r] = o

(***************************************************************************)
(* A room whose clients have all gone disappears from _rooms, even when a  *)
(* broadcast has emptied it without dropping it (manager.py:53, 83).       *)
(***************************************************************************)
EmptyRoomsGo ==
  \A r \in Rooms :
    rooms[r] # NoObject /\ members[rooms[r]] = {} ~>
      rooms[r] = NoObject \/ members[rooms[r]] # {}
=============================================================================
