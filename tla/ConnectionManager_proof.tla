----------------------- MODULE ConnectionManager_proof -----------------------
(***************************************************************************)
(* Proofs about ConnectionManager: for any rooms, clients and broadcasts,  *)
(* the set a broadcast reads is the set of the clients connected.          *)
(***************************************************************************)
EXTENDS ConnectionManager, TLAPS

\* A socket's endpoint has it connected to one room at most.
OneRoom == \A s \in Sockets : \A r, q \in at[s] : r = q

\* Two rooms never share a RoomState.
OwnState ==
  \A r, q \in Rooms : rooms[r] = rooms[q] /\ rooms[r] # NoObject => r = q

\* Whom a broadcast takes for dead has gone or left: the removal after the
\* sends, from a RoomState taken before them, concerns nobody else.
DeadAreGone ==
  \A c \in Casters : \A s \in cast[c].dead : s \in gone \/ at[s] = {}

IInv ==
  /\ TypeOK /\ OneRoom /\ OwnState /\ DeadAreGone
  /\ ConnectedIsReached /\ NoStrays

-----------------------------------------------------------------------------
(***************************************************************************)
(* What Discard does: the connection leaves the RoomState of its room and  *)
(* every other one stays as it is; only a RoomState left empty is dropped. *)
(***************************************************************************)
LEMMA DiscardEffect ==
  ASSUME TypeOK, OwnState, NEW s \in Sockets, NEW r \in Rooms, Discard(s, r)
  PROVE  /\ \A o \in Objects :
              members'[o] = IF o = rooms[r] THEN members[o] \ {s} ELSE members[o]
         /\ \A q \in Rooms \ {r} : rooms'[q] = rooms[q]
         /\ rooms'[r] \in {rooms[r], NoObject}
         /\ rooms[r] # NoObject /\ rooms'[r] = NoObject =>
              members[rooms[r]] \subseteq {s}
         /\ rooms' \in [Rooms -> Objects \cup {NoObject}]
         /\ members' \in [Objects -> SUBSET Sockets]
  <1>1. CASE rooms[r] = NoObject
    BY <1>1, ObjectsAssumption DEF Discard, TypeOK
  <1>2. CASE rooms[r] # NoObject
    BY <1>2 DEF Discard, TypeOK
  <1>3. QED BY <1>1, <1>2

(***************************************************************************)
(* What Connect does: the socket enters the RoomState of its room, which   *)
(* is the one that was there or one that no room and no broadcast has.     *)
(***************************************************************************)
LEMMA ConnectEffect ==
  ASSUME TypeOK, NEW s \in Sockets, NEW r \in Rooms, Connect(s, r)
  PROVE  \E o \in Objects :
           /\ IF rooms[r] = NoObject THEN o \notin Stored ELSE o = rooms[r]
           /\ rooms' = [rooms EXCEPT ![r] = o]
           /\ members' = [members EXCEPT ![o] = @ \cup {s}]
  BY DEF Connect

(***************************************************************************)
(* Every step keeps the types.                                             *)
(***************************************************************************)
LEMMA TypeStep == TypeOK /\ OwnState /\ [Next]_vars => TypeOK'
  <1> SUFFICES ASSUME TypeOK, OwnState, [Next]_vars PROVE TypeOK'
    OBVIOUS
  <1>1. ASSUME NEW s \in Sockets, NEW r \in Rooms, Connect(s, r)
        PROVE  TypeOK'
    BY <1>1 DEF Connect, TypeOK
  <1>2. ASSUME NEW s \in Sockets, NEW r \in Rooms, Disconnect(s, r)
        PROVE  TypeOK'
    <2>1. Discard(s, r)
      BY <1>2 DEF Disconnect
    <2>2. QED BY <1>2, <2>1, DiscardEffect DEF Disconnect, TypeOK
  <1>3. ASSUME NEW s \in Sockets, ClientGoes(s)
        PROVE  TypeOK'
    BY <1>3 DEF ClientGoes, TypeOK
  <1>4. ASSUME NEW c \in Casters, NEW r \in Rooms, Broadcast(c, r)
        PROVE  TypeOK'
    BY <1>4 DEF Broadcast, TypeOK
  <1>5. ASSUME NEW c \in Casters, NEW s \in Sockets, Send(c, s)
        PROVE  TypeOK'
    BY <1>5 DEF Send, TypeOK
  <1>6. ASSUME NEW c \in Casters, Finish(c)
        PROVE  TypeOK'
    BY <1>6 DEF Finish, TypeOK, NoCast
  <1>7. CASE UNCHANGED vars
    BY <1>7 DEF vars, TypeOK
  <1>8. QED BY <1>1, <1>2, <1>3, <1>4, <1>5, <1>6, <1>7 DEF Next

(***************************************************************************)
(* A join keeps the invariant: a new RoomState is empty, for whoever is in *)
(* one is connected to a room that holds it.                               *)
(***************************************************************************)
LEMMA ConnectStep ==
  ASSUME IInv, TypeOK', NEW s \in Sockets, NEW r \in Rooms, Connect(s, r)
  PROVE  IInv'
  <1>1. PICK o \in Objects :
          /\ IF rooms[r] = NoObject THEN o \notin Stored ELSE o = rooms[r]
          /\ rooms' = [rooms EXCEPT ![r] = o]
          /\ members' = [members EXCEPT ![o] = @ \cup {s}]
    BY ConnectEffect DEF IInv
  <1>2. /\ at[s] = {} /\ at' = [at EXCEPT ![s] = {r}]
        /\ gone' = gone \ {s} /\ cast' = cast
        /\ \A c \in Casters : s \notin cast[c].dead
    BY DEF Connect, Targeted
  <1>3. \A q \in Rooms : rooms[q] # NoObject => rooms'[q] = rooms[q]
    BY <1>1 DEF IInv, TypeOK
  <1>4. rooms'[r] = o /\ o # NoObject
    BY <1>1, ObjectsAssumption DEF IInv, TypeOK
  <1>5. OneRoom'
    BY <1>2 DEF IInv, OneRoom, TypeOK
  <1>6. OwnState'
    BY <1>1 DEF IInv, OwnState, TypeOK, Stored
  <1>7. DeadAreGone'
    BY <1>2 DEF IInv, DeadAreGone, TypeOK
  <1>8. ConnectedIsReached'
    <2> SUFFICES ASSUME NEW u \in Sockets \ gone', NEW q \in at'[u]
                 PROVE  rooms'[q] # NoObject /\ u \in members'[rooms'[q]]
      BY DEF ConnectedIsReached
    <2>1. CASE u = s
      BY <1>1, <1>2, <1>4, <2>1 DEF IInv, TypeOK
    <2>2. CASE u # s
      <3>1. u \in Sockets \ gone /\ q \in at[u] /\ q \in Rooms
        BY <1>2, <2>2 DEF IInv, TypeOK
      <3>2. rooms[q] # NoObject /\ u \in members[rooms[q]]
        BY <3>1 DEF IInv, ConnectedIsReached
      <3>3. QED BY <1>1, <1>3, <3>1, <3>2 DEF IInv, TypeOK
    <2>3. QED BY <2>1, <2>2
  <1>9. NoStrays'
    <2> SUFFICES ASSUME NEW p \in Objects, NEW u \in members'[p]
                 PROVE  \E q \in at'[u] : rooms'[q] = p
      BY DEF NoStrays
    <2>1. CASE u = s /\ p = o
      BY <1>2, <1>4, <2>1 DEF IInv, TypeOK
    <2>2. CASE ~ (u = s /\ p = o)
      <3>1. u \in members[p]
        BY <1>1, <2>2 DEF IInv, TypeOK
      <3>2. PICK q \in at[u] : rooms[q] = p
        BY <3>1 DEF IInv, NoStrays
      <3>3. u \in Sockets /\ q \in Rooms /\ u # s
        BY <1>2, <3>1, <3>2 DEF IInv, TypeOK
      <3>4. q \in at'[u]
        BY <1>2, <3>2, <3>3 DEF IInv, TypeOK
      <3>5. rooms'[q] = p
        BY <1>3, <3>2, <3>3, ObjectsAssumption
      <3>6. QED BY <3>4, <3>5
    <2>3. QED BY <2>1, <2>2
  <1>10. QED BY <1>5, <1>6, <1>7, <1>8, <1>9 DEF IInv

(***************************************************************************)
(* A departure keeps the invariant: it drops a RoomState only when nobody  *)
(* else is in it.                                                          *)
(***************************************************************************)
LEMMA DisconnectStep ==
  ASSUME IInv, TypeOK', NEW s \in Sockets, NEW r \in Rooms, Disconnect(s, r)
  PROVE  IInv'
  <1>1. /\ r \in at[s] /\ at' = [at EXCEPT ![s] = {}]
        /\ gone' = gone /\ cast' = cast /\ Discard(s, r)
    BY DEF Disconnect
  <1>2. /\ \A o \in Objects :
             members'[o] = IF o = rooms[r] THEN members[o] \ {s} ELSE members[o]
        /\ \A q \in Rooms \ {r} : rooms'[q] = rooms[q]
        /\ rooms'[r] \in {rooms[r], NoObject}
        /\ rooms[r] # NoObject /\ rooms'[r] = NoObject =>
             members[rooms[r]] \subseteq {s}
    BY <1>1, DiscardEffect DEF IInv
  <1>3. OneRoom'
    BY <1>1 DEF IInv, OneRoom, TypeOK
  <1>4. OwnState'
    BY <1>2 DEF IInv, OwnState
  <1>5. DeadAreGone'
    BY <1>1 DEF IInv, DeadAreGone, TypeOK
  <1>6. ConnectedIsReached'
    <2> SUFFICES ASSUME NEW u \in Sockets \ gone', NEW q \in at'[u]
                 PROVE  rooms'[q] # NoObject /\ u \in members'[rooms'[q]]
      BY DEF ConnectedIsReached
    <2>1. u # s /\ u \in Sockets \ gone /\ q \in at[u] /\ q \in Rooms
      BY <1>1 DEF IInv, TypeOK
    <2>2. rooms[q] # NoObject /\ u \in members[rooms[q]]
      BY <2>1 DEF IInv, ConnectedIsReached
    <2>3. rooms'[q] = rooms[q] /\ rooms[q] \in Objects
      BY <1>2, <2>1, <2>2 DEF IInv, TypeOK
    <2>4. u \in members'[rooms[q]]
      BY <1>2, <2>1, <2>2, <2>3
    <2>5. QED BY <2>2, <2>3, <2>4
  <1>7. NoStrays'
    <2> SUFFICES ASSUME NEW p \in Objects, NEW u \in members'[p]
                 PROVE  \E q \in at'[u] : rooms'[q] = p
      BY DEF NoStrays
    <2>1. u \in members[p]
      BY <1>2
    <2>2. PICK q \in at[u] : rooms[q] = p
      BY <2>1 DEF IInv, NoStrays
    <2>3. u \in Sockets /\ q \in Rooms /\ p # NoObject
      BY <2>1, <2>2, ObjectsAssumption DEF IInv, TypeOK
    <2>4. u # s
      <3>1. SUFFICES ASSUME u = s PROVE FALSE
        OBVIOUS
      <3>2. q = r
        BY <1>1, <2>2, <3>1 DEF IInv, OneRoom
      <3>3. QED BY <1>2, <2>2, <3>1, <3>2
    <2>5. q \in at'[u]
      BY <1>1, <2>2, <2>3, <2>4 DEF IInv, TypeOK
    <2>6. rooms'[q] = p
      BY <1>2, <2>1, <2>2, <2>3, <2>4
    <2>7. QED BY <2>5, <2>6
  <1>8. QED BY <1>3, <1>4, <1>5, <1>6, <1>7 DEF IInv

(***************************************************************************)
(* A broadcast keeps the invariant: nobody who is there is taken for dead. *)
(***************************************************************************)
LEMMA CastStep ==
  ASSUME IInv, TypeOK', NEW c \in Casters,
         \/ \E r \in Rooms : Broadcast(c, r)
         \/ \E s \in Sockets : Send(c, s)
         \/ Finish(c)
  PROVE  IInv'
  <1>1. rooms' = rooms /\ at' = at /\ gone' = gone
    BY DEF Broadcast, Send, Finish
  <1>2. OneRoom' /\ OwnState'
    BY <1>1 DEF IInv, OneRoom, OwnState
  <1>3. DeadAreGone'
    <2> SUFFICES ASSUME NEW d \in Casters, NEW u \in cast'[d].dead
                 PROVE  u \in gone \/ at[u] = {}
      BY <1>1 DEF DeadAreGone
    <2>1. CASE u \in cast[d].dead
      BY <2>1 DEF IInv, DeadAreGone
    <2>2. CASE u \notin cast[d].dead
      <3>1. ASSUME NEW r \in Rooms, Broadcast(c, r)
            PROVE  FALSE
        BY <2>2, <3>1 DEF Broadcast, IInv, TypeOK
      <3>2. ASSUME NEW s \in Sockets, Send(c, s)
            PROVE  u \in gone \/ at[u] = {}
        BY <2>2, <3>2 DEF Send, IInv, TypeOK
      <3>3. ~ Finish(c)
        BY <2>2 DEF Finish, NoCast, IInv, TypeOK
      <3>4. QED BY <3>1, <3>2, <3>3
    <2>3. QED BY <2>1, <2>2
  <1>4. CASE members' = members
    BY <1>1, <1>2, <1>3, <1>4 DEF IInv, ConnectedIsReached, NoStrays
  <1>5. CASE Finish(c)
    <2>1. members' = [members EXCEPT ![cast[c].obj] = @ \ cast[c].dead]
      BY <1>5 DEF Finish
    <2>2. ConnectedIsReached'
      <3> SUFFICES ASSUME NEW u \in Sockets \ gone, NEW q \in at[u]
                   PROVE  rooms[q] # NoObject /\ u \in members'[rooms[q]]
        BY <1>1 DEF ConnectedIsReached
      <3>1. rooms[q] # NoObject /\ u \in members[rooms[q]]
        BY DEF IInv, ConnectedIsReached
      <3>2. u \notin cast[c].dead
        BY DEF IInv, DeadAreGone
      <3>3. QED BY <2>1, <3>1, <3>2 DEF IInv, TypeOK
    <2>3. NoStrays'
      BY <1>1, <2>1 DEF IInv, NoStrays, TypeOK
    <2>4. QED BY <1>2, <1>3, <2>2, <2>3 DEF IInv
  <1>6. QED BY <1>4, <1>5 DEF Broadcast, Send

(***************************************************************************)
(* Every step preserves the invariant.                                     *)
(***************************************************************************)
LEMMA NextIInv == IInv /\ [Next]_vars => IInv'
  <1> SUFFICES ASSUME IInv, [Next]_vars PROVE IInv'
    OBVIOUS
  <1>1. TypeOK'
    BY TypeStep DEF IInv
  <1>2. ASSUME NEW s \in Sockets, NEW r \in Rooms,
               Connect(s, r) \/ Disconnect(s, r)
        PROVE  IInv'
    BY <1>1, <1>2, ConnectStep, DisconnectStep
  <1>3. ASSUME NEW s \in Sockets, ClientGoes(s)
        PROVE  IInv'
    BY <1>1, <1>3 DEF ClientGoes, IInv, OneRoom, OwnState, DeadAreGone,
                      ConnectedIsReached, NoStrays
  <1>4. ASSUME NEW c \in Casters,
               \/ \E r \in Rooms : Broadcast(c, r)
               \/ \E s \in Sockets : Send(c, s)
               \/ Finish(c)
        PROVE  IInv'
    BY <1>1, <1>4, CastStep
  <1>5. CASE UNCHANGED vars
    BY <1>1, <1>5 DEF vars, IInv, OneRoom, OwnState, DeadAreGone,
                      ConnectedIsReached, NoStrays
  <1>6. QED BY <1>2, <1>3, <1>4, <1>5 DEF Next

(***************************************************************************)
(* The inductive invariant holds in every behaviour of the manager.        *)
(***************************************************************************)
THEOREM ManagerInvariant == Spec => []IInv
  <1>1. Init => IInv
    BY DEF Init, IInv, TypeOK, OneRoom, OwnState, DeadAreGone,
           ConnectedIsReached, NoStrays, NoCast
  <1>2. QED BY <1>1, NextIInv, PTL DEF Spec

(***************************************************************************)
(* Type correctness of manager.py's tables.                                *)
(***************************************************************************)
THEOREM TypeCorrect == Spec => []TypeOK
  BY ManagerInvariant, PTL DEF IInv

(***************************************************************************)
(* Whoever is connected is reached by the next broadcast to the room, in   *)
(* spite of every join, departure and broadcast under way (manager.py:34   *)
(* to 86).                                                                 *)
(***************************************************************************)
THEOREM ConnectedAreReached == Spec => []ConnectedIsReached
  BY ManagerInvariant, PTL DEF IInv

(***************************************************************************)
(* No RoomState keeps a client that has left.                              *)
(***************************************************************************)
THEOREM NobodyStrays == Spec => []NoStrays
  BY ManagerInvariant, PTL DEF IInv
=============================================================================
