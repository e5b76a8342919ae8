------------------------ MODULE SandboxManager_proof ------------------------
(***************************************************************************)
(* Safety of SandboxManager for every set of rooms and tasks, every        *)
(* max_rooms and every bound on the containers, and its refinement of      *)
(* SandboxPool.                                                            *)
(***************************************************************************)
EXTENDS SandboxManager, FiniteSetTheorems, TLAPS

Steps == Idle \cup Entries \cup Critical \cup Unlocked

\* The type of what Return sets.
LEMMA ReturnType ==
  ASSUME TypeOK, NEW t \in Tasks, NEW outcome \in Idle, Return(t, outcome)
  PROVE  /\ pc' = [pc EXCEPT ![t] = outcome] /\ pc'[t] \in Idle
         /\ pc' \in [Tasks -> Steps]
         /\ room' \in [Tasks -> Rooms \cup {NoRoom}]
         /\ cid' \in [Tasks -> 0..MaxIds]
         /\ lock' \in Tasks \cup {NoTask}
         /\ \A u \in Tasks : pc'[u] \notin Idle => room'[u] \in Rooms
  BY SandboxAssumption DEF TypeOK, Return, Goto, Steps, Idle

\* The type of what Destroyed sets.
LEMMA DestroyedType ==
  ASSUME TypeOK, NEW id, Destroyed(id)
  PROVE  /\ docker' \in [Rooms -> 0..MaxIds]
         /\ running' \subseteq Ids
         /\ lastId' \in 0..MaxIds
  <1>1. \A n \in Rooms : docker'[n] \in 0..MaxIds
    BY SandboxAssumption DEF TypeOK, Destroyed
  <1>2. QED
    BY <1>1 DEF TypeOK, Destroyed

\* The type of what Created sets.
LEMMA CreatedType ==
  ASSUME TypeOK, NEW r, Created(r)
  PROVE  /\ docker' \in [Rooms -> 0..MaxIds]
         /\ lastId' \in Ids
         /\ lastId' \in 0..MaxIds
  <1>1. lastId' \in Ids /\ lastId' \in 0..MaxIds
    BY SandboxAssumption DEF TypeOK, Created, Ids
  <1>2. docker' = [docker EXCEPT ![r] = lastId']
    BY DEF Created, Name
  <1>3. docker \in [Rooms -> 0..MaxIds]
    BY DEF TypeOK
  <1>4. docker' \in [Rooms -> 0..MaxIds]
    BY <1>1, <1>2, <1>3
  <1>5. QED BY <1>1, <1>4

\* Every step keeps the types.
LEMMA TypeStep == TypeOK /\ [Next]_vars => TypeOK'
  <1> SUFFICES ASSUME TypeOK, [Next]_vars PROVE TypeOK'
    OBVIOUS
  <1> USE SandboxAssumption DEF TypeOK, process, daemon, Ids
  <1>1. ASSUME NEW t \in Tasks, NEW r \in Rooms, NEW entry \in Entries,
               Call(t, entry, r)
        PROVE  TypeOK'
    BY <1>1 DEF Call, Goto, Entries
  <1>2. ASSUME NEW t \in Tasks, Enter(t)
        PROVE  TypeOK'
    <2> USE DEF Idle, Critical, StartSteps, StopSteps, Unlocked, Entries
    <2>1. CASE StartFindsExisting(t) \/ StartAtLimit(t) \/ StopFindsNothing(t)
      <3>1. \E outcome \in Idle : Return(t, outcome)
        BY <2>1 DEF StartFindsExisting, StartAtLimit, StopFindsNothing
      <3>2. UNCHANGED <<serving, client, orphans, containers, docker, running,
                        lastId>>
        BY <2>1 DEF StartFindsExisting, StartAtLimit, StopFindsNothing
      <3>3. QED BY <3>1, <3>2, ReturnType DEF Steps
    <2>2. CASE StartEnters(t)
      BY <2>2 DEF StartEnters, Acquire, GotoClient, Goto, AfterConnect
    <2>3. CASE StopPops(t)
      BY <2>3 DEF StopPops, Acquire, GotoClient, Goto, AfterConnect
    <2>4. CASE ExecLooksUp(t)
      BY <2>4 DEF ExecLooksUp, GotoClient, Goto, AfterConnect, Return
    <2>5. CASE UsageLooksUp(t)
      BY <2>5 DEF UsageLooksUp, GotoClient, Goto, AfterConnect, Return
    <2>6. QED BY <1>2, <2>1, <2>2, <2>3, <2>4, <2>5 DEF Enter
  <1>3. ASSUME NEW t \in Tasks, Answer(t)
        PROVE  TypeOK'
    <2> USE DEF Idle, Critical, StartSteps, StopSteps, Unlocked, Entries
    <2>1. CASE Connect(t)
      BY <2>1 DEF Connect, Goto, AfterConnect
    <2>2. CASE ConnectFails(t) \/ AdoptFails(t) \/ StopRaises(t)
                 \/ StopLeaks(t) \/ ExecRuns(t) \/ ExecErrs(t)
                 \/ ExecRaises(t) \/ UsageSamples(t)
      <3>1. \E outcome \in Idle : Return(t, outcome)
        BY <2>2 DEF ConnectFails, AdoptFails, StopRaises, StopLeaks, ExecRuns,
                    ExecErrs, ExecRaises, UsageSamples, Failed
      <3>2. UNCHANGED <<serving, client, orphans, containers, docker, running,
                        lastId>>
        BY <2>2 DEF ConnectFails, AdoptFails, StopRaises, StopLeaks, ExecRuns,
                    ExecErrs, ExecRaises, UsageSamples
      <3>3. QED BY <3>1, <3>2, ReturnType DEF Steps
    <2>3. CASE StartRecords(t)
      BY <2>3 DEF StartRecords, Created, Return, Goto, Name
    <2>4. CASE StartConflicts(t)
      BY <2>4 DEF StartConflicts, Goto
    <2>5. CASE StartFails(t)
      BY <2>5 DEF StartFails, Created, Failed, Return, Goto, Name
    <2>6. CASE AdoptFinds(t)
      BY <2>6 DEF AdoptFinds, Goto, Name
    <2>7. CASE AdoptMissing(t)
      BY <2>7 DEF AdoptMissing, Goto
    <2>8. CASE AdoptRemoves(t)
      BY <2>8, DestroyedType DEF AdoptRemoves, Goto
    <2>9. CASE StopGets(t) \/ ExecGets(t)
      <3>1. CASE \E outcome \in Idle : Return(t, outcome)
        BY <2>9, <3>1, ReturnType DEF StopGets, ExecGets, Steps
      <3>2. CASE /\ Goto(t, "stop_stop") \/ Goto(t, "exec_run")
                 /\ pc[t] \in {"stop_get", "exec_get"}
                 /\ UNCHANGED <<lock, room, cid>>
        BY <2>9, <3>2 DEF StopGets, ExecGets, Goto
      <3>3. QED BY <2>9, <3>1, <3>2 DEF StopGets, ExecGets
    <2>10. CASE StopStops(t)
      BY <2>10 DEF StopStops, Goto
    <2>11. CASE StopRemoves(t)
      BY <2>11, DestroyedType, ReturnType DEF StopRemoves, Steps
    <2>12. QED
      BY <1>3, <2>1, <2>2, <2>3, <2>4, <2>5, <2>6, <2>7, <2>8, <2>9, <2>10,
         <2>11 DEF Answer, StartStep, StopStep, ReadStep
  <1>4. ASSUME NEW id \in Ids, ContainerDies(id)
        PROVE  TypeOK'
    <2>1. CASE Destroyed(id)
      BY <1>4, <2>1, DestroyedType DEF ContainerDies
    <2>2. CASE running' = running \ {id} /\ UNCHANGED <<docker, lastId>>
      BY <1>4, <2>2 DEF ContainerDies
    <2>3. QED BY <1>4, <2>1, <2>2 DEF ContainerDies
  <1>5. CASE Startup
    <2>1. CASE CleanupLists \/ CleanupSkipped \/ CleanupEnds
      <3>1. Present \subseteq Ids
        BY DEF Present
      <3>2. QED
        BY <2>1, <3>1 DEF CleanupLists, CleanupSkipped, CleanupEnds
    <2>2. ASSUME NEW id \in Ids, CleanupRemoves(id) \/ CleanupPasses(id)
          PROVE  TypeOK'
      <3>1. CASE CleanupRemoves(id)
        BY <3>1, DestroyedType DEF CleanupRemoves
      <3>2. CASE CleanupPasses(id)
        BY <3>2 DEF CleanupPasses
      <3>3. QED BY <2>2, <3>1, <3>2
    <2>3. QED BY <1>5, <2>1, <2>2 DEF Startup
  <1>6. CASE Exit
    <2>1. /\ docker' \in [Rooms -> 0..MaxIds]
          /\ running' \subseteq Ids
          /\ lastId' \in 0..MaxIds
      <3>1. ASSUME NEW t \in Tasks, pc[t] \in {"start_run", "start_retry"},
                   Created(room[t]),
                   running' \in {running, running \cup {lastId'}}
            PROVE  /\ docker' \in [Rooms -> 0..MaxIds]
                   /\ running' \subseteq Ids
                   /\ lastId' \in 0..MaxIds
        BY <3>1, CreatedType
      <3>2. QED BY <1>6, <3>1 DEF Exit
    <2>2. /\ serving' \in {"starting", "cleanup", "serving"}
          /\ client' \in BOOLEAN /\ lock' \in Tasks \cup {NoTask}
          /\ orphans' \subseteq Ids
          /\ containers' \in [Rooms -> 0..MaxIds]
          /\ cid' \in [Tasks -> 0..MaxIds]
      <3>1. 0 \in 0..MaxIds
        OBVIOUS
      <3>2. QED BY <1>6, <3>1 DEF Exit
    <2>3. /\ pc' \in [Tasks -> Steps]
          /\ room' \in [Tasks -> Rooms \cup {NoRoom}]
          /\ \A u \in Tasks : pc'[u] \in Idle
      BY <1>6 DEF Exit, Idle, Steps
    <2>4. QED BY <2>1, <2>2, <2>3 DEF Steps
  <1>7. CASE UNCHANGED vars
    BY <1>7 DEF vars
  <1>8. QED
    BY <1>1, <1>2, <1>3, <1>4, <1>5, <1>6, <1>7 DEF Next

-----------------------------------------------------------------------------
(* Mutual exclusion.                                                       *)

\* A step inside a call takes the lock, keeps it, gives it back or does
\* without it.
LEMMA LockOfOne ==
  ASSUME TypeOK, LockInv, TypeOK', NEW t \in Tasks,
         \A u \in Tasks \ {t} : pc'[u] = pc[u],
         \/ lock' = lock /\ (pc[t] \in Critical <=> pc'[t] \in Critical)
         \/ lock = NoTask /\ lock' = t /\ pc'[t] \in Critical
         \/ /\ lock' = IF lock = t THEN NoTask ELSE lock
            /\ pc'[t] \in Idle
  PROVE  LockInv'
  <1>1. Idle \cap Critical = {}
    BY DEF Idle, Critical, StartSteps, StopSteps
  <1>2. ASSUME NEW u \in Tasks PROVE pc'[u] \in Critical <=> lock' = u
    BY <1>1, SandboxAssumption DEF LockInv
  <1>3. QED BY <1>2 DEF LockInv

\* A task is inside the lock exactly when it holds it, step after step.
LEMMA LockStep == TypeOK /\ TypeOK' /\ LockInv /\ [Next]_vars => LockInv'
  <1> SUFFICES ASSUME TypeOK, TypeOK', LockInv, [Next]_vars PROVE LockInv'
    OBVIOUS
  <1> USE DEF Critical, StartSteps, StopSteps
  <1>1. ASSUME NEW t \in Tasks, NEW r \in Rooms, NEW entry \in Entries,
               Call(t, entry, r)
        PROVE  LockInv'
    <2>1. pc[t] \notin Critical /\ pc'[t] \notin Critical
      BY <1>1 DEF Call, Goto, Entries, TypeOK, Idle
    <2>2. lock' = lock /\ \A u \in Tasks \ {t} : pc'[u] = pc[u]
      BY <1>1 DEF Call, Goto, TypeOK
    <2>3. QED BY <2>1, <2>2, LockOfOne
  <1>2. ASSUME NEW t \in Tasks, Enter(t) \/ Answer(t)
        PROVE  LockInv'
    <2>1. \A u \in Tasks \ {t} : pc'[u] = pc[u]
      BY <1>2 DEF TypeOK, Goto, GotoClient, Return, Failed, Enter, Answer, StartStep,
         StopStep, ReadStep, Connect, ConnectFails, StartFindsExisting,
         StartAtLimit, StartEnters, StartRecords, StartConflicts, StartFails,
         AdoptFinds, AdoptMissing, AdoptRemoves, AdoptFails, StopFindsNothing,
         StopPops, StopGets, StopRaises, StopStops, StopRemoves, StopLeaks,
         ExecLooksUp, ExecGets, ExecRuns, ExecErrs, ExecRaises, UsageLooksUp,
         UsageSamples
    <2>2. CASE \E outcome \in Idle : Return(t, outcome)
      <3>1. pc'[t] \in Idle /\ lock' = IF lock = t THEN NoTask ELSE lock
        BY <2>2 DEF Return, Goto, TypeOK
      <3>2. QED BY <2>1, <3>1, LockOfOne
    <2>3. CASE StartEnters(t) \/ StopPops(t)
      <3>1. lock = NoTask /\ lock' = t /\ pc'[t] \in Critical
        BY <2>3 DEF StartEnters, StopPops, Acquire, GotoClient, Goto, TypeOK,
                    AfterConnect
      <3>2. QED BY <2>1, <3>1, LockOfOne
    <2>4. CASE Connect(t)
      <3>1. lock' = lock /\ (pc[t] \in Critical <=> pc'[t] \in Critical)
        BY <2>4 DEF Connect, Goto, TypeOK, AfterConnect
      <3>2. QED BY <2>1, <3>1, LockOfOne
    <2>5. CASE StartConflicts(t) \/ AdoptFinds(t) \/ AdoptMissing(t)
                 \/ AdoptRemoves(t) \/ StopStops(t)
      <3>1. lock' = lock /\ pc[t] \in Critical /\ pc'[t] \in Critical
        BY <2>5 DEF StartConflicts, AdoptFinds, AdoptMissing, AdoptRemoves,
                    StopStops, Goto, TypeOK
      <3>2. QED BY <2>1, <3>1, LockOfOne
    <2>6. CASE StopGets(t) \/ ExecGets(t) \/ ExecLooksUp(t) \/ UsageLooksUp(t)
      <3>1. CASE ~ \E outcome \in Idle : Return(t, outcome)
        <4>1. lock' = lock /\ (pc[t] \in Critical <=> pc'[t] \in Critical)
          BY <2>6, <3>1 DEF StopGets, ExecGets, ExecLooksUp, UsageLooksUp,
             GotoClient, Goto, TypeOK, AfterConnect, Idle
        <4>2. QED BY <2>1, <4>1, LockOfOne
      <3>2. QED BY <2>2, <3>1
    <2>7. QED
      BY <1>2, <2>2, <2>3, <2>4, <2>5, <2>6
         DEF Enter, Answer, StartStep, StopStep, ReadStep, Idle, Failed,
             ConnectFails, StartFindsExisting, StartAtLimit, StartRecords,
             StartFails, AdoptFails, StopFindsNothing, StopRaises, StopRemoves,
             StopLeaks, ExecRuns, ExecErrs, ExecRaises, UsageSamples
  <1>3. CASE Exit
    BY <1>3, SandboxAssumption DEF Exit, LockInv
  <1>4. CASE \/ \E id \in Ids : ContainerDies(id)
             \/ Startup
             \/ UNCHANGED vars
    <2>1. pc' = pc /\ lock' = lock
      BY <1>4 DEF ContainerDies, Startup, CleanupLists, CleanupSkipped,
                  CleanupRemoves, CleanupPasses, CleanupEnds, vars
    <2>2. QED BY <2>1 DEF LockInv
  <1>5. QED BY <1>1, <1>2, <1>3, <1>4 DEF Next

-----------------------------------------------------------------------------
(* What a step does to the registry, the daemon and one task's locals.     *)

\* Containers may disappear; nothing is made, recorded or given up.
Quiet ==
  /\ UNCHANGED <<containers, lastId>>
  /\ \A n \in Rooms : docker'[n] \in {docker[n], 0}

\* Removing a container makes no name stand for a new container.
LEMMA DestroyedQuiet ==
  ASSUME TypeOK, NEW id, Destroyed(id), UNCHANGED containers
  PROVE  Quiet
  BY DEF TypeOK, Destroyed, Quiet

\* Only four kinds of step do more to registry and names than take away.
LEMMA DataEffects ==
  ASSUME TypeOK, [Next]_vars
  PROVE  \/ Quiet
         \/ Exit
         \/ \E t \in Tasks :
              \/ StartRecords(t)
              \/ StartFails(t) /\ Created(room[t])
              \/ StopPops(t)
  <1>1. ASSUME NEW t \in Tasks, NEW r \in Rooms, NEW entry \in Entries,
               Call(t, entry, r)
        PROVE  Quiet
    BY <1>1 DEF Call, Quiet, daemon
  <1>2. ASSUME NEW t \in Tasks, Enter(t), ~ StopPops(t)
        PROVE  Quiet
    BY <1>2 DEF Enter, Quiet, daemon, StartFindsExisting, StartAtLimit,
                StartEnters, StopFindsNothing, ExecLooksUp, UsageLooksUp
  <1>3. ASSUME NEW t \in Tasks, Answer(t), ~ StartRecords(t),
               ~ (StartFails(t) /\ Created(room[t]))
        PROVE  Quiet
    <2>1. CASE AdoptRemoves(t) \/ StopRemoves(t)
      BY <2>1, DestroyedQuiet DEF AdoptRemoves, StopRemoves
    <2>2. CASE ~ (AdoptRemoves(t) \/ StopRemoves(t))
      BY <1>3, <2>2 DEF Quiet, daemon, Answer, StartStep, StopStep, ReadStep,
         Connect, ConnectFails, StartConflicts, StartFails, AdoptFinds,
         AdoptMissing, AdoptFails, StopGets, StopRaises, StopStops, StopLeaks,
         ExecGets, ExecRuns, ExecErrs, ExecRaises, UsageSamples
    <2>3. QED BY <2>1, <2>2
  <1>4. ASSUME NEW id \in Ids, ContainerDies(id)
        PROVE  Quiet
    BY <1>4, DestroyedQuiet DEF ContainerDies, Quiet
  <1>5. CASE Startup
    <2>1. ASSUME NEW id \in Ids, CleanupRemoves(id)
          PROVE  Quiet
      BY <2>1, DestroyedQuiet DEF CleanupRemoves
    <2>2. QED
      BY <1>5, <2>1 DEF Startup, CleanupLists, CleanupSkipped, CleanupPasses,
                        CleanupEnds, Quiet, daemon
  <1>6. CASE UNCHANGED vars
    BY <1>6 DEF vars, Quiet, daemon
  <1>7. ASSUME NEW t \in Tasks, Enter(t) \/ Answer(t)
        PROVE  \/ Quiet
               \/ StartRecords(t)
               \/ StartFails(t) /\ Created(room[t])
               \/ StopPops(t)
    BY <1>2, <1>3, <1>7
  <1>8. QED BY <1>1, <1>4, <1>5, <1>6, <1>7 DEF Next

Doomed == {"adopt_remove"} \cup StopSteps

\* How a task comes to be inside start, or to hold a container it is going
\* to remove.
LEMMA TaskEffects ==
  ASSUME TypeOK, [Next]_vars, NEW t \in Tasks
  PROVE  /\ pc'[t] \in StartSteps =>
              \/ pc[t] \in StartSteps /\ room'[t] = room[t]
              \/ StartEnters(t)
         /\ pc'[t] \in Doomed =>
              \/ pc[t] \in Doomed /\ cid'[t] = cid[t]
              \/ AdoptFinds(t)
              \/ StopPops(t)
         /\ \/ cid'[t] \in {0, cid[t]}
            \/ AdoptFinds(t) \/ StopPops(t) \/ ExecLooksUp(t)
  <1> DEFINE Other ==
        UNCHANGED <<pc[t], room[t], cid[t]>>
      Ends == pc'[t] \in Idle /\ cid'[t] = 0
  <1> USE DEF StartSteps, StopSteps, Doomed
  <1>1. CASE Other
    BY <1>1
  <1>2. CASE Ends
    BY <1>2 DEF Idle
  <1>3. ASSUME NEW s \in Tasks, NEW r \in Rooms, NEW entry \in Entries,
               Call(s, entry, r)
        PROVE  Other \/ (pc'[t] \in Entries /\ cid'[t] = cid[t])
    BY <1>3 DEF Call, Goto, TypeOK
  <1>4. ASSUME NEW s \in Tasks, Enter(s) \/ Answer(s), s # t
        PROVE  Other
    BY <1>4 DEF TypeOK, Goto, GotoClient, Return, Failed, Enter, Answer,
       StartStep, StopStep, ReadStep, Connect, ConnectFails,
       StartFindsExisting, StartAtLimit, StartEnters, StartRecords,
       StartConflicts, StartFails, AdoptFinds, AdoptMissing, AdoptRemoves,
       AdoptFails, StopFindsNothing, StopPops, StopGets, StopRaises, StopStops,
       StopRemoves, StopLeaks, ExecLooksUp, ExecGets, ExecRuns, ExecErrs,
       ExecRaises, UsageLooksUp, UsageSamples
  <1>5. ASSUME \E outcome \in Idle : Return(t, outcome)
        PROVE  Ends
    BY <1>5 DEF Return, Goto, TypeOK
  <1>6. ASSUME Enter(t) \/ Answer(t),
               ~ \E outcome \in Idle : Return(t, outcome)
        PROVE  /\ pc'[t] \in StartSteps =>
                    \/ pc[t] \in StartSteps /\ room'[t] = room[t]
                    \/ StartEnters(t)
               /\ pc'[t] \in Doomed =>
                    \/ pc[t] \in Doomed /\ cid'[t] = cid[t]
                    \/ AdoptFinds(t)
                    \/ StopPops(t)
               /\ \/ cid'[t] = cid[t]
                  \/ AdoptFinds(t) \/ StopPops(t) \/ ExecLooksUp(t)
    <2>1. CASE StartEnters(t) \/ StopPops(t) \/ AdoptFinds(t)
      BY <2>1 DEF StartEnters, StopPops, AdoptFinds, GotoClient, Goto, TypeOK,
                  AfterConnect
    <2>2. CASE Connect(t)
      BY <2>2 DEF Connect, Goto, TypeOK, AfterConnect
    <2>3. CASE StartConflicts(t) \/ AdoptMissing(t) \/ AdoptRemoves(t)
                 \/ StopStops(t)
      BY <2>3 DEF StartConflicts, AdoptMissing, AdoptRemoves, StopStops, Goto,
                  TypeOK
    <2>4. CASE StopGets(t) \/ ExecGets(t) \/ ExecLooksUp(t) \/ UsageLooksUp(t)
      BY <1>6, <2>4 DEF StopGets, ExecGets, ExecLooksUp, UsageLooksUp, Idle,
                        GotoClient, Goto, TypeOK, AfterConnect
    <2>5. QED
      BY <1>6, <2>1, <2>2, <2>3, <2>4
         DEF Enter, Answer, StartStep, StopStep, ReadStep, Idle, Failed,
             ConnectFails, StartFindsExisting, StartAtLimit, StartRecords,
             StartFails, AdoptFails, StopFindsNothing, StopRaises, StopRemoves,
             StopLeaks, ExecRuns, ExecErrs, ExecRaises, UsageSamples
  <1>7. CASE Exit
    BY <1>7 DEF Exit, Idle
  <1>8. CASE \/ \E id \in Ids : ContainerDies(id)
             \/ Startup
             \/ UNCHANGED vars
    BY <1>1, <1>8 DEF ContainerDies, Startup, CleanupLists, CleanupSkipped,
                      CleanupRemoves, CleanupPasses, CleanupEnds, vars
  <1>9. QED
    BY <1>1, <1>2, <1>3, <1>4, <1>5, <1>6, <1>7, <1>8 DEF Next, Entries

-----------------------------------------------------------------------------
(* The limit: what start has checked still holds when it records.          *)

\* Rooms with a sandbox can be counted.
LEMMA RegisteredFinite == IsFiniteSet(Registered) /\ Cardinality(Registered) \in Nat
  <1>1. Registered \in SUBSET Rooms
    BY DEF Registered
  <1>2. IsFiniteSet(Registered)
    BY <1>1, FS_Subset, SandboxAssumption
  <1>3. QED BY <1>2, FS_CardinalityType

\* What start has checked under the lock stays true until it records.
LEMMA StartInvStep ==
  ASSUME TypeOK, LockInv, StartInv, [Next]_vars
  PROVE  StartInv'
  <1> SUFFICES ASSUME NEW t \in Tasks, pc'[t] \in StartSteps
               PROVE  containers'[room'[t]] = 0 /\ Cardinality(Registered') < MaxRooms
    BY DEF StartInv
  <1>1. \/ pc[t] \in StartSteps /\ room'[t] = room[t]
        \/ StartEnters(t)
    BY TaskEffects
  <1>2. /\ room'[t] = room[t] /\ containers[room[t]] = 0
        /\ Cardinality(Registered) < MaxRooms
        /\ lock \in {t, NoTask} /\ (lock = NoTask => lock' = t)
    BY <1>1, SandboxAssumption DEF StartInv, LockInv, Critical, StartEnters,
       Acquire
  <1>3. CASE containers' = containers
    BY <1>2, <1>3 DEF Registered
  <1>4. ASSUME NEW s \in Tasks, StartRecords(s)
        PROVE  FALSE
    <2>1. lock = s /\ pc'[s] = "ok"
      BY <1>4 DEF StartRecords, LockInv, Critical, StartSteps, Return, Goto, TypeOK
    <2>2. s = t
      BY <1>2, <2>1, SandboxAssumption
    <2>3. QED BY <2>1, <2>2 DEF StartSteps
  <1>5. ASSUME NEW s \in Tasks, StopPops(s)
        PROVE  FALSE
    <2>1. lock = NoTask /\ lock' = s /\ pc[s] = "stop"
      BY <1>5 DEF StopPops, Acquire
    <2>2. s = t
      BY <1>2, <2>1
    <2>3. QED BY <1>1, <2>1, <2>2 DEF StartSteps, StartEnters
  <1>6. CASE Exit
    BY <1>6 DEF Exit, StartSteps
  <1>7. QED
    BY <1>3, <1>4, <1>5, <1>6, DataEffects DEF Quiet, StartFails

\* Recording fills a place that was free, so the limit is kept.
LEMMA LimitStep ==
  ASSUME TypeOK, StartInv, WithinLimit, [Next]_vars
  PROVE  WithinLimit'
  <1> USE SandboxAssumption, RegisteredFinite
  <1>1. CASE containers' = containers
    BY <1>1 DEF WithinLimit, Registered
  <1>2. ASSUME NEW t \in Tasks, StartRecords(t)
        PROVE  WithinLimit'
    <2>1. Cardinality(Registered) < MaxRooms
      BY <1>2 DEF StartRecords, StartInv, StartSteps
    <2>2. Registered' \subseteq Registered \cup {room[t]}
      BY <1>2 DEF StartRecords, Registered, TypeOK
    <2>3. /\ IsFiniteSet(Registered \cup {room[t]})
          /\ Cardinality(Registered \cup {room[t]}) <= MaxRooms
      <3>1. /\ IsFiniteSet(Registered \cup {room[t]})
            /\ Cardinality(Registered \cup {room[t]}) =
                 IF room[t] \in Registered THEN Cardinality(Registered)
                 ELSE Cardinality(Registered) + 1
        BY FS_AddElement
      <3>2. QED BY <2>1, <3>1
    <2>4. /\ IsFiniteSet(Registered')
          /\ Cardinality(Registered') <= Cardinality(Registered \cup {room[t]})
      BY <2>2, <2>3, FS_Subset
    <2>5. QED
      BY <2>3, <2>4, FS_CardinalityType DEF WithinLimit
  <1>3. ASSUME NEW t \in Tasks, StopPops(t)
        PROVE  WithinLimit'
    <2>1. Registered' \in SUBSET Registered
      BY <1>3 DEF StopPops, Registered, TypeOK
    <2>2. Cardinality(Registered') <= Cardinality(Registered)
      BY <2>1, FS_Subset
    <2>3. Cardinality(Registered') \in Nat
      BY <2>1, FS_Subset, FS_CardinalityType
    <2>4. QED BY <2>2, <2>3 DEF WithinLimit
  <1>4. CASE Exit
    <2>1. Registered' = {}
      BY <1>4 DEF Exit, Registered
    <2>2. QED BY <2>1, FS_EmptySet DEF WithinLimit
  <1>5. QED
    BY <1>1, <1>2, <1>3, <1>4, DataEffects DEF Quiet, StartFails

-----------------------------------------------------------------------------
(* Whose container is whose.                                               *)

\* A recorded or made container has an id above every id in use.
LEMMA CreatedEffect ==
  ASSUME TypeOK, NEW r \in Rooms, Created(r)
  PROVE  /\ lastId' = lastId + 1
         /\ docker'[r] = lastId'
         /\ \A n \in Rooms \ {r} : docker'[n] = docker[n]
         /\ docker[r] = 0
  BY DEF TypeOK, Created, Name

\* What start leaves when it has recorded its container.
LEMMA RecordEffect ==
  ASSUME TypeOK, NEW t \in Tasks, StartRecords(t)
  PROVE  /\ room[t] \in Rooms
         /\ Created(room[t])
         /\ containers'[room[t]] = lastId'
         /\ \A r \in Rooms \ {room[t]} : containers'[r] = containers[r]
         /\ pc'[t] = "ok"
         /\ \A u \in Tasks \ {t} : pc'[u] = pc[u] /\ cid'[u] = cid[u]
         /\ cid'[t] = 0
  BY DEF TypeOK, StartRecords, Idle, Return, Goto

\* What stop takes when it pops the entry.
LEMMA PopEffect ==
  ASSUME TypeOK, NEW t \in Tasks, StopPops(t)
  PROVE  /\ room[t] \in Rooms /\ containers[room[t]] # 0
         /\ containers'[room[t]] = 0
         /\ \A r \in Rooms \ {room[t]} : containers'[r] = containers[r]
         /\ cid'[t] = containers[room[t]]
         /\ \A u \in Tasks \ {t} : pc'[u] = pc[u] /\ cid'[u] = cid[u]
         /\ UNCHANGED <<docker, lastId>>
  BY DEF TypeOK, StopPops, Idle, daemon, GotoClient, Goto

\* A start that fails after the container was made records nothing.
LEMMA FailEffect ==
  ASSUME TypeOK, NEW t \in Tasks, StartFails(t), Created(room[t])
  PROVE  /\ room[t] \in Rooms
         /\ UNCHANGED containers
  BY DEF TypeOK, StartFails, Idle

\* What Exit does to the registry, and to the ids of the daemon.
LEMMA ExitEffect ==
  ASSUME TypeOK, Exit
  PROVE  /\ \A r \in Rooms : containers'[r] = 0
         /\ \A t \in Tasks : pc'[t] = "idle" /\ cid'[t] = 0
         /\ \/ UNCHANGED <<docker, lastId>>
            \/ \E r \in Rooms : Created(r)
  <1>1. /\ \A r \in Rooms : containers'[r] = 0
        /\ \A t \in Tasks : pc'[t] = "idle" /\ cid'[t] = 0
    BY DEF Exit
  <1>2. ASSUME NEW t \in Tasks, pc[t] \in {"start_run", "start_retry"},
               Created(room[t])
        PROVE  \E r \in Rooms : Created(r)
    <2>1. room[t] \in Rooms
      BY <1>2 DEF TypeOK, Idle
    <2>2. QED BY <1>2, <2>1
  <1>3. QED BY <1>1, <1>2 DEF Exit, daemon

\* The ids of a step are those of the state, or the one just given out.
LEMMA IdsStep ==
  ASSUME TypeOK, IdsInv, [Next]_vars
  PROVE  IdsInv'
  <1> USE DEF TypeOK
  <1>1. lastId <= lastId' /\ lastId' \in Nat
    <2>1. ASSUME NEW r \in Rooms, Created(r) PROVE lastId <= lastId' /\ lastId' \in Nat
      BY <2>1 DEF Created
    <2>2. QED
      BY <2>1, DataEffects, RecordEffect, FailEffect, PopEffect, ExitEffect
         DEF Quiet
  <1>2. ASSUME NEW r \in Rooms
        PROVE  containers'[r] <= lastId' /\ docker'[r] <= lastId'
    <2>1. CASE Quiet
      BY <1>2, <2>1 DEF Quiet, IdsInv
    <2>2. ASSUME NEW q \in Rooms, Created(q) PROVE docker'[r] <= lastId'
      BY <2>2, CreatedEffect DEF IdsInv
    <2>3. ASSUME NEW t \in Tasks, StartRecords(t)
          PROVE  containers'[r] <= lastId' /\ docker'[r] <= lastId'
      BY <1>1, <2>2, <2>3, RecordEffect DEF IdsInv
    <2>4. ASSUME NEW t \in Tasks, StartFails(t), Created(room[t])
          PROVE  containers'[r] <= lastId' /\ docker'[r] <= lastId'
      BY <1>1, <2>2, <2>4, FailEffect DEF IdsInv
    <2>5. ASSUME NEW t \in Tasks, StopPops(t)
          PROVE  containers'[r] <= lastId' /\ docker'[r] <= lastId'
      BY <2>5, PopEffect DEF IdsInv
    <2>6. CASE Exit
      BY <1>1, <2>2, <2>6, ExitEffect DEF IdsInv
    <2>7. QED BY <2>1, <2>3, <2>4, <2>5, <2>6, DataEffects
  <1>3. ASSUME NEW t \in Tasks
        PROVE  cid'[t] <= lastId'
    <2>1. CASE AdoptFinds(t)
      <3>1. cid'[t] = docker[room[t]] /\ room[t] \in Rooms
        BY <2>1 DEF AdoptFinds, Name, Idle
      <3>2. QED BY <1>1, <3>1 DEF IdsInv
    <2>2. CASE StopPops(t)
      <3>1. cid'[t] = containers[room[t]] /\ room[t] \in Rooms
        BY <2>2, PopEffect
      <3>2. QED BY <1>1, <3>1 DEF IdsInv
    <2>3. CASE ExecLooksUp(t)
      <3>1. cid'[t] \in {0, containers[room[t]]} /\ room[t] \in Rooms
        BY <2>3 DEF ExecLooksUp, Return, Idle
      <3>2. QED BY <1>1, <3>1 DEF IdsInv
    <2>4. CASE cid'[t] \in {0, cid[t]}
      BY <1>1, <2>4 DEF IdsInv
    <2>5. QED BY <2>1, <2>2, <2>3, <2>4, TaskEffects
  <1>4. QED BY <1>2, <1>3 DEF IdsInv

Naming == NameInv /\ NameIsCurrent /\ OwnContainer

\* Names and registry entries stay in step with each other.
LEMMA NamingStep ==
  ASSUME TypeOK, TypeOK', StartInv, IdsInv, Naming, [Next]_vars
  PROVE  Naming'
  <1> USE DEF Naming, NameInv, NameIsCurrent, OwnContainer, Name
  <1>1. CASE Quiet
    BY <1>1 DEF Quiet, TypeOK
  <1>2. ASSUME NEW t \in Tasks, StartRecords(t)
        PROVE  Naming'
    <2>1. \A r \in Rooms : containers[r] # lastId' /\ docker[r] # lastId'
      BY <1>2, RecordEffect, CreatedEffect DEF IdsInv, TypeOK
    <2>2. /\ room[t] \in Rooms
          /\ containers'[room[t]] = lastId' /\ docker'[room[t]] = lastId'
          /\ \A r \in Rooms \ {room[t]} :
               containers'[r] = containers[r] /\ docker'[r] = docker[r]
      BY <1>2, RecordEffect, CreatedEffect
    <2>3. NameInv'
      BY <2>1, <2>2
    <2>4. NameIsCurrent'
      BY <2>2
    <2>5. OwnContainer'
      BY <2>1, <2>2
    <2>6. QED BY <2>3, <2>4, <2>5
  <1>3. ASSUME NEW t \in Tasks, StartFails(t), Created(room[t])
        PROVE  Naming'
    <2>1. containers[room[t]] = 0 /\ room[t] \in Rooms /\ UNCHANGED containers
      BY <1>3, FailEffect DEF StartFails, StartInv, StartSteps
    <2>2. \A r \in Rooms : containers[r] < lastId'
      BY <1>3, <2>1, CreatedEffect DEF IdsInv, TypeOK
    <2>3. /\ docker'[room[t]] = lastId' /\ lastId' \in Nat
          /\ \A r \in Rooms \ {room[t]} : docker'[r] = docker[r]
      BY <1>3, <2>1, CreatedEffect DEF TypeOK
    <2>4. NameInv'
      BY <2>1, <2>2, <2>3
    <2>5. NameIsCurrent' /\ OwnContainer'
      BY <2>1, <2>3
    <2>6. QED BY <2>4, <2>5
  <1>4. ASSUME NEW t \in Tasks, StopPops(t)
        PROVE  Naming'
    BY <1>4, PopEffect
  <1>5. CASE Exit
    BY <1>5, ExitEffect
  <1>6. QED BY <1>1, <1>2, <1>3, <1>4, <1>5, DataEffects

\* Nothing is ever recorded under the id of a container being taken down.
LEMMA DoomedStep ==
  ASSUME TypeOK, LockInv, StartInv, IdsInv, Naming, DoomedIsNobodys,
         [Next]_vars
  PROVE  DoomedIsNobodys'
  <1> SUFFICES ASSUME NEW t \in Tasks, pc'[t] \in Doomed, NEW r \in Rooms
               PROVE  containers'[r] # cid'[t]
    BY DEF DoomedIsNobodys, Doomed
  <1>1. \/ pc[t] \in Doomed /\ cid'[t] = cid[t]
        \/ AdoptFinds(t)
        \/ StopPops(t)
    BY TaskEffects
  <1>2. CASE StopPops(t)
    BY <1>2, PopEffect DEF Naming, OwnContainer
  <1>3. CASE ~ StopPops(t)
    <2>1. containers[r] # cid'[t]
      <3>1. CASE AdoptFinds(t)
        <4>1. /\ room[t] \in Rooms /\ containers[room[t]] = 0
              /\ docker[room[t]] # 0 /\ cid'[t] = docker[room[t]]
          BY <3>1 DEF AdoptFinds, Name, StartInv, StartSteps, TypeOK, Idle
        <4>2. QED BY <4>1 DEF Naming, NameInv, Name
      <3>2. QED BY <1>1, <1>3, <3>1 DEF DoomedIsNobodys, Doomed
    <2>2. CASE containers'[r] = containers[r]
      BY <2>1, <2>2
    <2>3. ASSUME NEW s \in Tasks, StartRecords(s)
          PROVE  containers'[r] # cid'[t]
      <3>1. s # t
        BY <2>3, RecordEffect DEF Doomed, StopSteps
      <3>2. cid'[t] = cid[t] /\ cid[t] <= lastId /\ cid[t] \in Nat
        BY <2>3, <3>1, RecordEffect DEF IdsInv, TypeOK
      <3>3. CASE r = room[s]
        BY <2>3, <3>2, <3>3, RecordEffect, CreatedEffect DEF TypeOK
      <3>4. CASE r # room[s]
        BY <2>1, <2>3, <3>4, RecordEffect
      <3>5. QED BY <3>3, <3>4
    <2>4. ASSUME NEW s \in Tasks, StopPops(s)
          PROVE  FALSE
      <3>1. s # t /\ pc'[t] = pc[t]
        BY <1>3, <2>4, PopEffect
      <3>2. lock = NoTask
        BY <2>4 DEF StopPops, Acquire
      <3>3. pc[t] \in Critical
        BY <3>1 DEF Critical, StartSteps, StopSteps, Doomed
      <3>4. QED BY <3>2, <3>3, SandboxAssumption DEF LockInv
    <2>5. CASE Exit
      BY <2>5, ExitEffect DEF Doomed, StopSteps
    <2>6. QED
      BY <2>2, <2>3, <2>4, <2>5, DataEffects, FailEffect DEF Quiet
  <1>4. QED BY <1>2, <1>3

-----------------------------------------------------------------------------
(***************************************************************************)
(* The safety of the manager, for every interleaving of calls, every       *)
(* outcome of a docker call and every crash: the types, the limit, whose   *)
(* container is whose, and what may be removed.                            *)
(***************************************************************************)
LEMMA InitIInv == Init => IInv
  <1> SUFFICES ASSUME Init PROVE IInv
    OBVIOUS
  <1> USE DEF Init
  <1>1. TypeOK
    <2>1. 0 \in 0..MaxIds
      BY SandboxAssumption
    <2>2. \A t \in Tasks : pc[t] \in Idle
      BY DEF Idle
    <2>3. pc \in [Tasks -> Idle \cup Entries \cup Critical \cup Unlocked]
      BY DEF Idle
    <2>4. QED BY <2>1, <2>2, <2>3 DEF TypeOK
  <1>2. LockInv /\ StartInv /\ DoomedIsNobodys
    BY SandboxAssumption
       DEF LockInv, StartInv, DoomedIsNobodys, Critical, StartSteps, StopSteps
  <1>3. IdsInv /\ NameInv /\ NameIsCurrent /\ OwnContainer
    BY DEF IdsInv, NameInv, NameIsCurrent, OwnContainer
  <1>4. WithinLimit
    <2>1. Registered = {}
      BY DEF Registered
    <2>2. QED BY <2>1, FS_EmptySet, SandboxAssumption DEF WithinLimit
  <1>5. QED BY <1>1, <1>2, <1>3, <1>4 DEF IInv

\* Every step preserves the inductive invariant.
LEMMA NextIInv == IInv /\ [Next]_vars => IInv'
  <1> SUFFICES ASSUME IInv, [Next]_vars PROVE IInv'
    OBVIOUS
  <1>1. TypeOK'
    BY TypeStep DEF IInv
  <1>2. LockInv'
    BY <1>1, LockStep DEF IInv
  <1>3. StartInv' /\ WithinLimit'
    BY StartInvStep, LimitStep DEF IInv
  <1>4. IdsInv'
    BY IdsStep DEF IInv
  <1>5. NameInv' /\ NameIsCurrent' /\ OwnContainer'
    BY <1>1, NamingStep DEF IInv, Naming
  <1>6. DoomedIsNobodys'
    BY DoomedStep DEF IInv, Naming
  <1>7. QED
    BY <1>1, <1>2, <1>3, <1>4, <1>5, <1>6 DEF IInv

\* IInv is inductive, so it holds in every reachable state.
THEOREM SandboxInvariant == Spec => []IInv
  <1>1. QED BY InitIInv, NextIInv, PTL DEF Spec

\* Every variable keeps its type.
THEOREM TypeCorrect == Spec => []TypeOK
  <1>1. IInv => TypeOK
    BY DEF IInv
  <1>2. QED BY <1>1, SandboxInvariant, PTL

\* The registry never exceeds max_rooms (sandbox.py:170).
THEOREM LimitHolds == Spec => []WithinLimit
  <1>1. IInv => WithinLimit
    BY DEF IInv
  <1>2. QED BY <1>1, SandboxInvariant, PTL

\* What adoption and stop remove by force is nobody's sandbox
\* (sandbox.py:210, 255, 283).
THEOREM RemovalIsSafe == Spec => []DoomedIsNobodys
  <1>1. IInv => DoomedIsNobodys
    BY DEF IInv
  <1>2. QED BY <1>1, SandboxInvariant, PTL

\* A room's name leads to the room's sandbox or to nothing (sandbox.py:176).
THEOREM NamesAreCurrent == Spec => []NameIsCurrent
  <1>1. IInv => NameIsCurrent
    BY DEF IInv
  <1>2. QED BY <1>1, SandboxInvariant, PTL

\* Rooms never share a container.
THEOREM RoomsAreApart == Spec => []OwnContainer
  <1>1. IInv => OwnContainer
    BY DEF IInv
  <1>2. QED BY <1>1, SandboxInvariant, PTL

-----------------------------------------------------------------------------
(* Action properties and refinement.                                       *)

\* What a step does to the two variables SandboxPool talks about.
LEMMA PoolStep ==
  ASSUME IInv, IInv', [Next]_vars
  PROVE  [Pool!Next]_Pool!vars
  <1> USE DEF Pool!Next, Pool!vars
  <1>1. CASE Quiet
    BY <1>1 DEF Quiet
  <1>2. ASSUME NEW t \in Tasks, StartRecords(t)
        PROVE  Pool!Allocate(room[t]) /\ room[t] \in Rooms
    <2>1. /\ room[t] \in Rooms
          /\ containers[room[t]] = 0 /\ Cardinality(Registered) < MaxRooms
      BY <1>2, RecordEffect DEF IInv, StartInv, StartSteps, StartRecords
    <2>2. /\ containers' = [containers EXCEPT ![room[t]] = lastId']
          /\ lastId < MaxIds /\ lastId' = lastId + 1
      BY <1>2 DEF StartRecords, Created
    <2>3. Pool!Occupied = Registered
      BY DEF Pool!Occupied, Registered
    <2>4. Pool!Cardinality(Pool!Occupied) < MaxRooms
      <3>1. Pool!Cardinality(Registered) = Cardinality(Registered)
        BY Zenon DEF Pool!Cardinality, Cardinality, Pool!IsFiniteSet, IsFiniteSet
      <3>2. QED BY <2>1, <2>3, <3>1
    <2>5. Pool!Allocate(room[t])
      BY <2>1, <2>2, <2>4 DEF Pool!Allocate
    <2>6. QED BY <2>1, <2>5
  <1>3. ASSUME NEW t \in Tasks, StartFails(t), Created(room[t])
        PROVE  Pool!Discard
    BY <1>3 DEF StartFails, Created, Pool!Discard
  <1>4. ASSUME NEW t \in Tasks, StopPops(t)
        PROVE  Pool!Free(room[t]) /\ room[t] \in Rooms
    BY <1>4, PopEffect DEF StopPops, Pool!Free, IInv
  <1>5. CASE Exit
    BY <1>5 DEF Exit, Created, daemon, Pool!Restart
  <1>6. QED BY <1>1, <1>2, <1>3, <1>4, <1>5, DataEffects DEF IInv

(***************************************************************************)
(* SandboxManager implements SandboxPool: whatever the daemon answers and  *)
(* whenever the process ends, a room keeps its sandbox until it is given   *)
(* up, and a sandbox handed out was never handed out before.               *)
(***************************************************************************)
THEOREM Refinement == Spec => ImplementsPool
  <1>1. Init => Pool!Init
    BY DEF Init, Pool!Init
  <1>2. IInv /\ IInv' /\ [Next]_vars => [Pool!Next]_Pool!vars
    BY PoolStep
  <1>3. QED
    BY <1>1, <1>2, SandboxInvariant, PTL DEF Spec, ImplementsPool, Pool!Spec

(***************************************************************************)
(* No call replaces a recorded sandbox by another one.                     *)
(***************************************************************************)
THEOREM NoSwap == Spec => NeverSwapped
  <1>1. ASSUME IInv, [Next]_vars, NEW r \in Rooms, containers[r] # 0
        PROVE  containers'[r] \in {0, containers[r]}
    <2>1. ASSUME NEW t \in Tasks, StartRecords(t)
          PROVE  containers'[r] = containers[r]
      <3>1. room[t] # r
        BY <1>1, <2>1 DEF IInv, StartInv, StartSteps, StartRecords
      <3>2. QED BY <1>1, <2>1, <3>1, RecordEffect DEF IInv
    <2>2. ASSUME NEW t \in Tasks, StopPops(t)
          PROVE  containers'[r] \in {0, containers[r]}
      BY <1>1, <2>2, PopEffect DEF IInv
    <2>3. QED
      BY <1>1, <2>1, <2>2, DataEffects, ExitEffect, FailEffect DEF IInv, Quiet
  <1>2. IInv /\ [Next]_vars =>
          [\A r \in Rooms : containers[r] # 0 =>
             containers'[r] \in {0, containers[r]}]_vars
    BY <1>1
  <1>3. QED BY <1>2, SandboxInvariant, PTL DEF Spec, NeverSwapped
=============================================================================
