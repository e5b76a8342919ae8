---------------------------- MODULE SandboxPool ----------------------------
(***************************************************************************)
(* What the rest of the backend relies on SandboxManager for: every room   *)
(* has at most one sandbox, at most MaxRooms rooms have one, a room keeps  *)
(* its sandbox until that sandbox is given up, and a sandbox that is       *)
(* handed out was never handed out before.  Containers are numbered in the *)
(* order the docker daemon makes them.                                     *)
(***************************************************************************)
EXTENDS Naturals, FiniteSets

CONSTANTS Rooms,      \* room slugs
          MaxRooms,   \* settings.max_rooms
          MaxIds      \* bound: containers the daemon ever makes

VARIABLES sandbox,    \* room -> its sandbox, 0 when it has none
          last        \* the youngest container made so far

vars == <<sandbox, last>>

Occupied == {r \in Rooms : sandbox[r] # 0}

Init ==
  /\ sandbox = [r \in Rooms |-> 0]
  /\ last = 0

\* A room without a sandbox gets the container just made for it.
Allocate(r) ==
  /\ sandbox[r] = 0
  /\ Cardinality(Occupied) < MaxRooms
  /\ last < MaxIds
  /\ last' = last + 1
  /\ sandbox' = [sandbox EXCEPT ![r] = last']

\* A container is made and handed to nobody.
Discard ==
  /\ last < MaxIds
  /\ last' = last + 1
  /\ UNCHANGED sandbox

\* The room's sandbox is given up (reset of the room).
Free(r) ==
  /\ sandbox[r] # 0
  /\ sandbox' = [sandbox EXCEPT ![r] = 0]
  /\ UNCHANGED last

\* The backend process ends; one container may be made on the way out.
Restart ==
  /\ sandbox' = [r \in Rooms |-> 0]
  /\ \/ last' = last
     \/ last < MaxIds /\ last' = last + 1

Next == Discard \/ Restart \/ \E r \in Rooms : Allocate(r) \/ Free(r)

Spec == Init /\ [][Next]_vars
=============================================================================
