--------------------------- MODULE SandboxManager ---------------------------
(***************************************************************************)
(* backend/app/docker/sandbox.py: the SandboxManager singleton, the        *)
(* asyncio tasks that call it (WebSocket handlers, the reset and metrics   *)
(* endpoints), the docker daemon it drives, and the backend process around *)
(* it (lifespan in backend/app/main.py).                                   *)
(*                                                                         *)
(* A step is what one task does between two awaits.  Every docker call is  *)
(* an await (asyncio.to_thread), so it ends a step, and its outcomes are   *)
(* the alternatives of the step that receives the answer:                  *)
(*   "error"   the call ended in a SandboxError, which the callers handle; *)
(*   "raised"  any other exception (a docker APIError the code does not    *)
(*             wrap, a transport error of the docker SDK).                 *)
(***************************************************************************)
EXTENDS Naturals, FiniteSets

CONSTANTS Rooms,      \* room slugs
          Tasks,      \* asyncio tasks that may be inside the manager at once
          MaxRooms,   \* settings.max_rooms
          MaxIds,     \* bound: containers the daemon ever makes
          NoTask,     \* nobody holds the lock
          NoRoom      \* a task that is not in a call

ASSUME SandboxAssumption ==
  /\ IsFiniteSet(Rooms)
  /\ MaxRooms \in Nat /\ MaxIds \in Nat
  /\ NoTask \notin Tasks
  /\ NoRoom \notin Rooms

VARIABLES
  \* the process
  serving,     \* "starting", "cleanup" (cleanup_orphans' loop) or "serving"
  containers,  \* self._containers: room -> container id, 0 when absent
  client,      \* self._client is not None
  lock,        \* self._lock: the task inside "async with", or NoTask
  orphans,     \* cleanup_orphans: listed containers still to be removed
  \* the tasks
  pc,          \* where the task is, or how its last call ended
  room,        \* its room_id argument
  cid,         \* the container id it holds in a local variable
  \* the docker daemon
  docker,      \* container name -> id of the container, 0 when none has it
  running,     \* ids of the containers whose process runs
  lastId       \* ids 1..lastId have been given out

process == <<serving, client, orphans>>
daemon  == <<docker, running, lastId>>
vars == <<process, containers, lock, pc, room, cid, daemon>>

-----------------------------------------------------------------------------
Ids == 1..MaxIds

Idle == {"idle", "ok", "error", "raised"}

\* The steps of a call that are taken inside "async with self._lock".
StartSteps == {"start_connect", "start_run", "adopt_get", "adopt_remove",
               "start_retry"}
StopSteps  == {"stop_connect", "stop_get", "stop_stop", "stop_remove"}
Critical   == StartSteps \cup StopSteps

Entries  == {"start", "stop", "exec", "usage"}
Unlocked == {"exec_connect", "exec_get", "exec_run",
             "usage_connect", "usage_stats"}

\* What follows _client_or_connect in each of its callers.
AfterConnect ==
  [start_connect |-> "start_run",  stop_connect |-> "stop_get",
   exec_connect  |-> "exec_get",   usage_connect |-> "usage_stats"]

\* name = f"git-trainer-{room_id}": one name per room, so a room names it.
Name(r) == r

Registered == {r \in Rooms : containers[r] # 0}
Present == {docker[n] : n \in Rooms} \ {0}

-----------------------------------------------------------------------------
(* Control of a task.                                                      *)

Goto(t, l) == pc' = [pc EXCEPT ![t] = l]

\* _client_or_connect: skip the connection when there already is a client.
GotoClient(t, connect) ==
  Goto(t, IF client THEN AfterConnect[connect] ELSE connect)

Acquire(t) == lock = NoTask /\ lock' = t

\* Mutant of Return: the lock is given back on the foreseen ways out only.
ReturnKeepsLock(t, outcome) ==
  /\ Goto(t, outcome)
  /\ room' = [room EXCEPT ![t] = NoRoom]
  /\ cid' = [cid EXCEPT ![t] = 0]
  /\ lock' = IF lock = t /\ outcome # "raised" THEN NoTask ELSE lock

\* The call ends; "async with" gives the lock back on every way out.
Return(t, outcome) ==
  /\ Goto(t, outcome)
  /\ room' = [room EXCEPT ![t] = NoRoom]
  /\ cid' = [cid EXCEPT ![t] = 0]
  /\ lock' = IF lock = t THEN NoTask ELSE lock

Failed(t) == \E outcome \in {"error", "raised"} : Return(t, outcome)

Call(t, entry, r) ==
  /\ serving = "serving"
  /\ pc[t] \in Idle
  /\ Goto(t, entry)
  /\ room' = [room EXCEPT ![t] = r]
  /\ UNCHANGED <<process, containers, lock, cid, daemon>>

Connect(t) ==
  /\ pc[t] \in DOMAIN AfterConnect
  /\ client' = TRUE
  /\ Goto(t, AfterConnect[pc[t]])
  /\ UNCHANGED <<serving, orphans, containers, lock, room, cid, daemon>>

ConnectFails(t) ==
  /\ pc[t] \in DOMAIN AfterConnect
  /\ Failed(t)
  /\ UNCHANGED <<process, containers, daemon>>

-----------------------------------------------------------------------------
(* The docker daemon.  It refuses a second container of the same name.     *)

\* containers.run made a container that is now running.
Created(r) ==
  /\ docker[Name(r)] = 0
  /\ lastId < MaxIds
  /\ lastId' = lastId + 1
  /\ docker' = [docker EXCEPT ![Name(r)] = lastId']

Destroyed(id) ==
  /\ docker' = [n \in Rooms |-> IF docker[n] = id THEN 0 ELSE docker[n]]
  /\ running' = running \ {id}
  /\ UNCHANGED lastId

\* A container is killed (its memory limit) or removed behind the manager.
ContainerDies(id) ==
  /\ id \in Present
  /\ \/ Destroyed(id)
     \/ id \in running /\ running' = running \ {id} /\ UNCHANGED <<docker, lastId>>
  /\ UNCHANGED <<process, containers, lock, pc, room, cid>>

-----------------------------------------------------------------------------
(* start                                                                   *)

StartFindsExisting(t) ==
  /\ pc[t] = "start" /\ lock = NoTask
  /\ containers[room[t]] # 0
  /\ Return(t, "ok")
  /\ UNCHANGED <<process, containers, daemon>>

StartAtLimit(t) ==
  /\ pc[t] = "start" /\ lock = NoTask
  /\ containers[room[t]] = 0
  /\ Cardinality(Registered) >= MaxRooms
  /\ Return(t, "error")
  /\ UNCHANGED <<process, containers, daemon>>

\* Mutants of StartEnters: one room too many; and a start that makes a new
\* sandbox for a room that has one.
StartEntersOneMore(t) ==
  /\ pc[t] = "start"
  /\ containers[room[t]] = 0
  /\ Cardinality(Registered) <= MaxRooms
  /\ Acquire(t)
  /\ GotoClient(t, "start_connect")
  /\ UNCHANGED <<process, containers, room, cid, daemon>>

StartEntersBlindly(t) ==
  /\ pc[t] = "start"
  /\ Cardinality(Registered \ {room[t]}) < MaxRooms
  /\ Acquire(t)
  /\ GotoClient(t, "start_connect")
  /\ UNCHANGED <<process, containers, room, cid, daemon>>

StartEnters(t) ==
  /\ pc[t] = "start"
  /\ containers[room[t]] = 0
  /\ Cardinality(Registered) < MaxRooms
  /\ Acquire(t)
  /\ GotoClient(t, "start_connect")
  /\ UNCHANGED <<process, containers, room, cid, daemon>>

\* Mutant of StartRecords: the name is recorded where the id belongs.
StartRecordsName(t) ==
  /\ pc[t] \in {"start_run", "start_retry"}
  /\ Created(room[t])
  /\ running' = running \cup {lastId'}
  /\ containers' = [containers EXCEPT ![room[t]] = Name(room[t])]
  /\ Return(t, "ok")
  /\ UNCHANGED process

\* run returned a container (first attempt or retry): record it and leave.
StartRecords(t) ==
  /\ pc[t] \in {"start_run", "start_retry"}
  /\ Created(room[t])
  /\ running' = running \cup {lastId'}
  /\ containers' = [containers EXCEPT ![room[t]] = lastId']
  /\ Return(t, "ok")
  /\ UNCHANGED process

\* 409 at the first attempt: the branch that adopts the name.
StartConflicts(t) ==
  /\ pc[t] = "start_run"
  /\ docker[Name(room[t])] # 0
  /\ Goto(t, "adopt_get")
  /\ UNCHANGED <<process, containers, lock, room, cid, daemon>>

\* run is create and then start: a failed start leaves the container behind.
StartFails(t) ==
  /\ pc[t] \in {"start_run", "start_retry"}
  /\ \/ UNCHANGED <<docker, lastId>>
     \/ Created(room[t])
  /\ Failed(t)
  /\ UNCHANGED <<process, containers, running>>

AdoptFinds(t) ==
  /\ pc[t] = "adopt_get"
  /\ docker[Name(room[t])] # 0
  /\ cid' = [cid EXCEPT ![t] = docker[Name(room[t])]]
  /\ Goto(t, "adopt_remove")
  /\ UNCHANGED <<process, containers, lock, room, daemon>>

\* get or remove answers NotFound: nothing is left to adopt.
AdoptMissing(t) ==
  /\ \/ pc[t] = "adopt_get" /\ docker[Name(room[t])] = 0
     \/ pc[t] = "adopt_remove" /\ cid[t] \notin Present
  /\ Goto(t, "start_retry")
  /\ UNCHANGED <<process, containers, lock, room, cid, daemon>>

AdoptRemoves(t) ==
  /\ pc[t] = "adopt_remove"
  /\ cid[t] \in Present
  /\ Destroyed(cid[t])
  /\ Goto(t, "start_retry")
  /\ UNCHANGED <<process, containers, lock, room, cid>>

AdoptFails(t) ==
  /\ pc[t] \in {"adopt_get", "adopt_remove"}
  /\ Failed(t)
  /\ UNCHANGED <<process, containers, daemon>>

-----------------------------------------------------------------------------
(* stop                                                                    *)

StopFindsNothing(t) ==
  /\ pc[t] = "stop" /\ lock = NoTask
  /\ containers[room[t]] = 0
  /\ Return(t, "ok")
  /\ UNCHANGED <<process, containers, daemon>>

\* Mutant of StopPops: the entry is read and not popped.
StopReads(t) ==
  /\ pc[t] = "stop"
  /\ containers[room[t]] # 0
  /\ Acquire(t)
  /\ cid' = [cid EXCEPT ![t] = containers[room[t]]]
  /\ GotoClient(t, "stop_connect")
  /\ UNCHANGED <<process, containers, room, daemon>>

\* The entry is popped before anything is asked of the daemon.
StopPops(t) ==
  /\ pc[t] = "stop"
  /\ containers[room[t]] # 0
  /\ Acquire(t)
  /\ cid' = [cid EXCEPT ![t] = containers[room[t]]]
  /\ containers' = [containers EXCEPT ![room[t]] = 0]
  /\ GotoClient(t, "stop_connect")
  /\ UNCHANGED <<process, room, daemon>>

StopGets(t) ==
  /\ pc[t] = "stop_get"
  /\ IF cid[t] \in Present
       THEN Goto(t, "stop_stop") /\ UNCHANGED <<lock, room, cid>>
       ELSE Return(t, "ok")
  /\ UNCHANGED <<process, containers, daemon>>

\* containers.get fails otherwise, or the transport does at any call.
StopRaises(t) ==
  /\ pc[t] \in {"stop_get", "stop_stop", "stop_remove"}
  /\ Return(t, "raised")
  /\ UNCHANGED <<process, containers, daemon>>

\* container.stop; its APIError and NotFound are logged only.
StopStops(t) ==
  /\ pc[t] = "stop_stop"
  /\ running' \in {running, running \ {cid[t]}}
  /\ Goto(t, "stop_remove")
  /\ UNCHANGED <<process, containers, lock, room, cid, docker, lastId>>

StopRemoves(t) ==
  /\ pc[t] = "stop_remove"
  /\ Destroyed(cid[t])
  /\ Return(t, "ok")
  /\ UNCHANGED <<process, containers>>

\* remove(force) answers APIError: logged, and the call returns normally.
StopLeaks(t) ==
  /\ pc[t] = "stop_remove"
  /\ Return(t, "ok")
  /\ UNCHANGED <<process, containers, daemon>>

-----------------------------------------------------------------------------
(* exec and memory_usage hold the lock only to read self._containers.      *)

ExecLooksUp(t) ==
  /\ pc[t] = "exec" /\ lock = NoTask
  /\ IF containers[room[t]] = 0
       THEN Return(t, "error")
       ELSE /\ cid' = [cid EXCEPT ![t] = containers[room[t]]]
            /\ GotoClient(t, "exec_connect")
            /\ UNCHANGED <<lock, room>>
  /\ UNCHANGED <<process, containers, daemon>>

ExecGets(t) ==
  /\ pc[t] = "exec_get"
  /\ IF cid[t] \in Present
       THEN Goto(t, "exec_run") /\ UNCHANGED <<lock, room, cid>>
       ELSE Return(t, "error")
  /\ UNCHANGED <<process, containers, daemon>>

\* exec_run answered: the daemon runs it only in a running container.
ExecRuns(t) ==
  /\ pc[t] = "exec_run"
  /\ cid[t] \in running
  /\ Return(t, "ok")
  /\ UNCHANGED <<process, containers, daemon>>

\* wait_for's time-out (the command goes on in the container), or APIError.
ExecErrs(t) ==
  /\ pc[t] = "exec_run"
  /\ Return(t, "error")
  /\ UNCHANGED <<process, containers, daemon>>

\* get maps NotFound only, exec_run APIError only.
ExecRaises(t) ==
  /\ pc[t] \in {"exec_get", "exec_run"}
  /\ Return(t, "raised")
  /\ UNCHANGED <<process, containers, daemon>>

UsageLooksUp(t) ==
  /\ pc[t] = "usage" /\ lock = NoTask
  /\ IF Registered = {}
       THEN Return(t, "ok")
       ELSE GotoClient(t, "usage_connect") /\ UNCHANGED <<lock, room, cid>>
  /\ UNCHANGED <<process, containers, daemon>>

UsageSamples(t) ==
  /\ pc[t] = "usage_stats"
  /\ \E outcome \in {"ok", "raised"} : Return(t, outcome)
  /\ UNCHANGED <<process, containers, daemon>>

-----------------------------------------------------------------------------
(* The process: lifespan's startup with cleanup_orphans, and its end.      *)

\* containers.list: every container of the manager, whatever its state.
CleanupLists ==
  /\ serving = "starting"
  /\ client' = TRUE
  /\ orphans' = Present
  /\ serving' = "cleanup"
  /\ UNCHANGED <<containers, lock, pc, room, cid, daemon>>

\* Its SandboxError is only logged: the process serves with the orphans.
CleanupSkipped ==
  /\ serving = "starting"
  /\ client' \in BOOLEAN
  /\ serving' = "serving"
  /\ UNCHANGED <<orphans, containers, lock, pc, room, cid, daemon>>

\* remove(force) succeeds, or NotFound.
CleanupRemoves(id) ==
  /\ serving = "cleanup" /\ id \in orphans
  /\ orphans' = orphans \ {id}
  /\ Destroyed(id)
  /\ UNCHANGED <<serving, client, containers, lock, pc, room, cid>>

\* remove(force) answers APIError: logged, the loop goes on.
CleanupPasses(id) ==
  /\ serving = "cleanup" /\ id \in orphans
  /\ orphans' = orphans \ {id}
  /\ UNCHANGED <<serving, client, containers, lock, pc, room, cid, daemon>>

CleanupEnds ==
  /\ serving = "cleanup" /\ orphans = {}
  /\ serving' = "serving"
  /\ UNCHANGED <<client, orphans, containers, lock, pc, room, cid, daemon>>

\* The process ends, by a crash or by lifespan's shutdown, which leaves the
\* containers alone.  A run on its way to the daemon may still make one.
Exit ==
  /\ serving' = "starting"
  /\ client' = FALSE
  /\ orphans' = {}
  /\ containers' = [r \in Rooms |-> 0]
  /\ lock' = NoTask
  /\ pc' = [t \in Tasks |-> "idle"]
  /\ room' = [t \in Tasks |-> NoRoom]
  /\ cid' = [t \in Tasks |-> 0]
  /\ \/ UNCHANGED daemon
     \/ \E t \in Tasks : /\ pc[t] \in {"start_run", "start_retry"}
                         /\ Created(room[t])
                         /\ running' \in {running, running \cup {lastId'}}

-----------------------------------------------------------------------------
Init ==
  /\ serving = "starting" /\ client = FALSE /\ orphans = {}
  /\ containers = [r \in Rooms |-> 0]
  /\ lock = NoTask
  /\ pc = [t \in Tasks |-> "idle"]
  /\ room = [t \in Tasks |-> NoRoom]
  /\ cid = [t \in Tasks |-> 0]
  /\ docker = [n \in Rooms |-> 0] /\ running = {} /\ lastId = 0

\* Steps that wait for self._lock.
Enter(t) ==
  \/ StartFindsExisting(t) \/ StartAtLimit(t) \/ StartEnters(t)
  \/ StopFindsNothing(t) \/ StopPops(t)
  \/ ExecLooksUp(t) \/ UsageLooksUp(t)

StartStep(t) ==
  \/ StartRecords(t) \/ StartConflicts(t) \/ StartFails(t)
  \/ AdoptFinds(t) \/ AdoptMissing(t) \/ AdoptRemoves(t) \/ AdoptFails(t)

StopStep(t) ==
  \/ StopGets(t) \/ StopRaises(t) \/ StopStops(t)
  \/ StopRemoves(t) \/ StopLeaks(t)

ReadStep(t) ==
  \/ ExecGets(t) \/ ExecRuns(t) \/ ExecErrs(t) \/ ExecRaises(t)
  \/ UsageSamples(t)

\* Steps that receive the answer of a docker call.
Answer(t) ==
  \/ Connect(t) \/ ConnectFails(t)
  \/ StartStep(t) \/ StopStep(t) \/ ReadStep(t)

Startup ==
  \/ CleanupLists \/ CleanupSkipped \/ CleanupEnds
  \/ \E id \in Ids : CleanupRemoves(id) \/ CleanupPasses(id)

Next ==
  \/ \E t \in Tasks : \E r \in Rooms : \E entry \in Entries : Call(t, entry, r)
  \/ \E t \in Tasks : Enter(t) \/ Answer(t)
  \/ \E id \in Ids : ContainerDies(id)
  \/ Startup
  \/ Exit

Spec == Init /\ [][Next]_vars

\* A docker call comes back (the SDK has time-outs), asyncio.Lock wakes its
\* waiters in turn, and the process is not restarted for ever.
Fairness ==
  /\ \A t \in Tasks : WF_vars(Answer(t)) /\ SF_vars(Enter(t))
  /\ WF_vars(Startup)

FairSpec == Spec /\ Fairness

-----------------------------------------------------------------------------
TypeOK ==
  /\ serving \in {"starting", "cleanup", "serving"}
  /\ containers \in [Rooms -> 0..MaxIds]
  /\ client \in BOOLEAN
  /\ lock \in Tasks \cup {NoTask}
  /\ orphans \subseteq Ids
  /\ pc \in [Tasks -> Idle \cup Entries \cup Critical \cup Unlocked]
  /\ room \in [Tasks -> Rooms \cup {NoRoom}]
  /\ cid \in [Tasks -> 0..MaxIds]
  /\ docker \in [Rooms -> 0..MaxIds]
  /\ running \subseteq Ids
  /\ lastId \in 0..MaxIds
  /\ \A t \in Tasks : pc[t] \notin Idle => room[t] \in Rooms

(***************************************************************************)
(* The registry never holds more than max_rooms sandboxes, although start  *)
(* checks the limit several awaits before it records the container.        *)
(***************************************************************************)
WithinLimit == Cardinality(Registered) <= MaxRooms

(***************************************************************************)
(* A container some call is about to remove by force, because start wants  *)
(* its name or stop was asked to, is no room's sandbox: a start never      *)
(* destroys what another start has just recorded, and no exec can still    *)
(* look up a container that stop has begun to take down.                   *)
(***************************************************************************)
DoomedIsNobodys ==
  \A t \in Tasks :
    pc[t] \in {"adopt_remove"} \cup StopSteps =>
      \A r \in Rooms : containers[r] # cid[t]

(***************************************************************************)
(* When a room has a sandbox, the container that bears the room's name is  *)
(* that sandbox or there is none (it died): what an earlier reset or an    *)
(* earlier process left behind is gone once start has returned.            *)
(***************************************************************************)
NameIsCurrent ==
  \A r \in Rooms :
    containers[r] # 0 => docker[Name(r)] \in {0, containers[r]}

\* Two rooms never share a container.
OwnContainer ==
  \A r, q \in Rooms :
    r # q /\ containers[r] # 0 => containers[r] # containers[q]

(***************************************************************************)
(* A call never swaps the sandbox of a room for another one: between two   *)
(* different sandboxes there is a time without any, so a second start that *)
(* raced the first returned the first one's sandbox.                       *)
(***************************************************************************)
NeverSwapped ==
  [][\A r \in Rooms :
       containers[r] # 0 => containers'[r] \in {0, containers[r]}]_vars

\* The manager hands out sandboxes the way SandboxPool says.
Pool == INSTANCE SandboxPool WITH sandbox <- containers, last <- lastId
ImplementsPool == Pool!Spec

(***************************************************************************)
(* Every call ends: no error path keeps self._lock, and no caller waits    *)
(* for it for ever.                                                        *)
(***************************************************************************)
CallsReturn == \A t \in Tasks : pc[t] \notin Idle ~> pc[t] \in Idle

-----------------------------------------------------------------------------
(* The inductive invariant behind the safety properties.                   *)

LockInv == \A t \in Tasks : pc[t] \in Critical <=> lock = t

\* What start has checked stays true until it records the container.
StartInv ==
  \A t \in Tasks :
    pc[t] \in StartSteps =>
      containers[room[t]] = 0 /\ Cardinality(Registered) < MaxRooms

\* Ids still to be given out are nowhere in use.
IdsInv ==
  /\ \A r \in Rooms : containers[r] <= lastId /\ docker[r] <= lastId
  /\ \A t \in Tasks : cid[t] <= lastId

\* A sandbox bears the name of its room and no other.
NameInv ==
  \A r, q \in Rooms :
    containers[r] # 0 /\ docker[Name(q)] = containers[r] => q = r

IInv ==
  /\ TypeOK /\ LockInv /\ StartInv /\ IdsInv /\ NameInv
  /\ WithinLimit /\ DoomedIsNobodys /\ NameIsCurrent /\ OwnContainer
=============================================================================
