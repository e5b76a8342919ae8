-------------------------- MODULE RoomSession_proof --------------------------
(***************************************************************************)
(* Proofs about RoomSession, for any number of clients, tabs and users:    *)
(* whoever is connected is reached, commands are audited, and what the     *)
(* tabs show follows the repository and the connections.                   *)
(***************************************************************************)
EXTENDS RoomSession, FiniteSetTheorems, TLAPS

HubProofs == INSTANCE ConnectionManager_proof WITH Rooms <- {Room}

-----------------------------------------------------------------------------
(* The inductive invariants.                                               *)

\* Where an endpoint is when its socket is not connected to the room.
Outside == {"new", "left", "leaving", "mark", "done"}

ResetPlaces == {"idle", "remove", "clear", "clearing", "answered"}

SocketPlaces ==
  Outside \cup
  {"join", "joining", "persist", "look", "snap", "snapsend", "loop", "start",
   "exec", "run", "ran", "graph", "read", "event", "eventing", "gcast",
   "gcasting", "audit", "error", "failed", "leave"}

\* Whether a socket is connected, and whether a task may hold a broadcast,
\* can be told from where the task is.
Places ==
  /\ pc \in [Casters -> ResetPlaces \cup SocketPlaces]
  /\ pc["reset"] \in ResetPlaces
  /\ \A s \in Sockets : pc[s] \in SocketPlaces
  /\ at = [s \in Sockets |-> IF pc[s] \in Outside THEN {} ELSE {Room}]
  /\ \A c \in Casters : pc[c] \notin Casting => cast[c] = Hub!NoCast

\* Each command makes one commit at most: those still to come are counted,
\* and those that timed out.
Committing == {s \in Sockets : pc[s] \in {"start", "exec", "run"}}

Counted ==
  /\ IsFiniteSet(Committing)
  /\ \A b \in Boxes :
       commits[b] + loose[b] + Cardinality(Committing) <= sent

\* A graph is on its way only when one was read.
GraphsRead ==
  \A s \in Sockets :
    /\ pc[s] \in {"start", "exec", "run", "ran", "graph"} => graph[s] = NoGraph
    /\ pc[s] \in {"gcast", "gcasting", "snapsend"} => graph[s] # NoGraph

\* A container is numbered when it is made; the registered one runs, and
\* while stop removes the one it has popped, none is registered.
Registered ==
  /\ alive \subseteq 1..last /\ \A b \in Boxes : b > last => commits[b] = 0
  /\ sandbox[Room] # 0 => sandbox[Room] \in alive
  /\ pc["reset"] = "remove" => sandbox[Room] = 0

\* From a change of the repository to its audit.
ToAudit ==
  {"ran", "graph", "read", "event", "eventing", "gcast", "gcasting", "audit"}

\* Without failures, a command whose container still runs is on its way to
\* the audit.
Owing ==
  /\ \A s \in Sockets :
       owed[s] <= last /\ (pc[s] = "ran" => owed[s] = held[s])
  /\ ~ Faults => \A s \in Sockets : owed[s] \in alive => pc[s] \in ToAudit

IInv ==
  /\ HubProofs!IInv /\ Places /\ TypeOK /\ Counted /\ GraphsRead /\ Registered
  /\ Owing

\* Nobody is sent anything before it is connected.
NewAreUntold ==
  \A s \in Sockets : pc[s] = "new" => \A c \in Casters : s \notin cast[c].todo

\* A user in the list of a tab is connected, or its departure is on the way
\* to that tab.
Departing(x, s) ==
  \E w \in Sockets :
    /\ UserOf[TabOf[w]] = x
    /\ at[w] # {} \/ pc[w] = "left" \/ (pc[w] = "leaving" /\ s \in cast[w].todo)

Listed ==
  \A s \in Sockets : FirstVisit(s) =>
    /\ pc[s] = "new" => shown[TabOf[s]] = {}
    /\ Live(s) => \A x \in shown[TabOf[s]] : Departing(x, s)

UsersInv == NewAreUntold /\ Listed

\* A broadcast of a new graph, or of the end of the repository, is on its
\* way to s.
Coming(s) ==
  \/ \E d \in Sockets :
       \/ pc[d] \in {"ran", "graph", "read"}
       \/ pc[d] \in {"event", "eventing", "gcast"} /\ graph[d] # NoGraph
       \/ pc[d] = "gcasting" /\ s \in cast[d].todo
  \/ pc["reset"] \in {"remove", "clear"}
  \/ pc["reset"] = "clearing" /\ s \in cast["reset"].todo

\* What an endpoint, or the reset, that works alone knows of the repository.
Knows ==
  /\ \A s \in Sockets :
       /\ pc[s] \in {"run", "ran"} => held[s] = sandbox[Room] /\ held[s] # 0
       /\ pc[s] = "read" => LogOf(held[s]) = Truth
       /\ pc[s] \in {"event", "eventing", "gcast", "gcasting"} =>
            graph[s] \in {NoGraph, Truth}
  /\ pc["reset"] \in {"remove", "clear", "clearing", "answered"} => Truth = Empty

\* Unless something crossed it, a task works alone.
WorkInv ==
  /\ crossed => disturbed
  /\ ~ crossed =>
       /\ \A c, d \in Casters : c # d => ~ (pc[c] \in Working /\ pc[d] \in Working)
       /\ Knows

\* A snapshot that nobody works beside is right.
SnapInv ==
  \A s \in Sockets :
    /\ pc[s] \in Snapping /\ s \notin late =>
         /\ \A c \in Casters : pc[c] \notin Working
         /\ pc[s] = "snap" => LogOf(held[s]) = Truth
         /\ pc[s] = "snapsend" => graph[s] = Truth
    /\ pc[s] = "snapsend" => graph[s] # Empty

\* Two connections of a tab are not live at once, and one that is never had
\* anything to show.
TabInv ==
  /\ \A s \in Sockets :
       pc[s] \in {"leave", "left", "leaving", "mark", "done"} => s \in gone
  /\ \A s, w \in Sockets :
       s # w /\ TabOf[s] = TabOf[w] => ~ (Live(s) /\ Live(w))
  /\ \A s \in Sockets : pc[s] = "new" /\ FirstVisit(s) => view[TabOf[s]] = Empty

\* On its way to the loop a client may still have the graph it began with.
Arriving(s) ==
  pc[s] \in {"join", "joining", "persist", "look", "snap", "snapsend"}

\* The snapshot that s waits for will have the commits there are.
SnapshotDue(s) ==
  \/ pc[s] \in {"look", "snapsend"}
  \/ pc[s] = "snap" /\ held[s] = sandbox[Room]

\* The three promises to a live client: on a first visit it shows what there
\* is; later, when there is something to show; in any case something.
ShowsTruth(s) ==
  \/ view[TabOf[s]] = Truth
  \/ Arriving(s) /\ view[TabOf[s]] = Empty
  \/ Coming(s)

CatchesUp(s) == view[TabOf[s]] = Truth \/ Arriving(s) \/ Coming(s)

ShowsSome(s) == view[TabOf[s]] # Empty \/ SnapshotDue(s) \/ Coming(s)

ShownInv ==
  ~ disturbed => \A s \in Sockets : Live(s) =>
    /\ s \notin late /\ FirstVisit(s) => ShowsTruth(s)
    /\ s \notin late /\ Truth # Empty => CatchesUp(s)
    /\ Truth # Empty /\ Joined(s) => ShowsSome(s)

GraphInv == WorkInv /\ SnapInv /\ TabInv /\ ShownInv

-----------------------------------------------------------------------------
(* The connections.                                                        *)

\* What an endpoint does without its connection or a broadcast, and what the
\* reset call does so.
Private(s) ==
  \/ Persist(s) \/ LookUp(s) \/ ReadGraph(s) \/ SendSnapshot(s) \/ Receive(s)
  \/ ReceiveDisconnect(s) \/ StartSandbox(s) \/ StartFails(s) \/ ExecLooksUp(s)
  \/ GitCommits(s) \/ ExecAnswers(s) \/ RunFails(s) \/ Audit(s) \/ SendError(s)
  \/ MarkRow(s)

ResetWork == ResetPops \/ ResetRemoves \/ ResetFails \/ ResetAnswered

Straggling == \E b \in Boxes : StragglerCommits(b)

\* Who works on a graph goes on, nobody begins to, and no snapshot is begun.
SameWork ==
  \A c \in Casters : /\ pc'[c] \in Working <=> pc[c] \in Working
                     /\ pc'[c] \in Snapping => pc[c] \in Snapping

(***************************************************************************)
(* The two instances of ConnectionManager say the same.                    *)
(***************************************************************************)
LEMMA SameHub ==
  /\ Hub!Init <=> HubProofs!Init
  /\ Hub!Next <=> HubProofs!Next
  /\ Hub!TypeOK <=> HubProofs!TypeOK
  <1>1. Hub!Init <=> HubProofs!Init
    BY DEF Hub!Init, HubProofs!Init, Hub!NoCast, HubProofs!NoCast
  <1>2. Hub!Next <=> HubProofs!Next
    BY DEF Hub!Next, HubProofs!Next, Hub!Connect, HubProofs!Connect,
           Hub!Disconnect, HubProofs!Disconnect, Hub!Discard, HubProofs!Discard,
           Hub!ClientGoes, HubProofs!ClientGoes, Hub!Broadcast,
           HubProofs!Broadcast, Hub!Send, HubProofs!Send, Hub!Finish,
           HubProofs!Finish, Hub!Casting, HubProofs!Casting, Hub!NoCast,
           HubProofs!NoCast, Hub!Targeted, HubProofs!Targeted, Hub!Held,
           HubProofs!Held, Hub!Stored, HubProofs!Stored
  <1>3. Hub!TypeOK <=> HubProofs!TypeOK
    BY DEF Hub!TypeOK, HubProofs!TypeOK
  <1>4. QED BY <1>1, <1>2, <1>3

(***************************************************************************)
(* What holds of the connections and the broadcasts of any program that    *)
(* uses the hub as specified, is kept by its steps.                        *)
(***************************************************************************)
LEMMA HubKeeps == HubProofs!IInv /\ [Hub!Next]_hubVars => HubProofs!IInv'
  <1>1. HubProofs!ObjectsAssumption
    BY SessionAssumption DEF HubProofs!ObjectsAssumption
  <1>2. HubProofs!IInv /\ [HubProofs!Next]_(HubProofs!vars) => HubProofs!IInv'
    BY <1>1, HubProofs!NextIInv
  <1>3. UNCHANGED hubVars => UNCHANGED HubProofs!vars
    BY DEF HubProofs!vars, hubVars
  <1>4. QED BY <1>2, <1>3, SameHub

(***************************************************************************)
(* A private step of an endpoint leaves the connections alone, starts and  *)
(* ends no broadcast, and goes from a connected place to a connected one.  *)
(***************************************************************************)
LEMMA PrivateMove ==
  ASSUME Places, NEW s \in Sockets, Private(s)
  PROVE  /\ UNCHANGED hubVars
         /\ \E l \in SocketPlaces \ (Casting \cup {"new"}) :
              /\ pc[s] \in SocketPlaces \ (Casting \cup {"new"})
              /\ pc' = [pc EXCEPT ![s] = l]
              /\ pc[s] \in Outside <=> l \in Outside
  <1> USE DEF Goto, SocketPlaces, Casting, Outside
  <1>1. CASE Persist(s)
    <2>1. /\ pc[s] = "persist" /\ UNCHANGED hubVars
          /\ \E l \in {"loop", "look"} : pc' = [pc EXCEPT ![s] = l]
      BY <1>1 DEF Persist
    <2>2. QED BY <2>1
  <1>2. CASE LookUp(s)
    <2>1. /\ pc[s] \in {"look", "graph"} /\ UNCHANGED hubVars
          /\ \E l \in {"snap", "read"} : pc' = [pc EXCEPT ![s] = l]
      BY <1>2 DEF LookUp
    <2>2. QED BY <2>1
  <1>3. CASE ReadGraph(s)
    <2>1. /\ pc[s] \in {"snap", "read"} /\ UNCHANGED hubVars
          /\ \E l \in {"event", "loop", "snapsend"} : pc' = [pc EXCEPT ![s] = l]
      BY <1>3 DEF ReadGraph
    <2>2. QED BY <2>1
  <1>4. CASE SendSnapshot(s)
    <2>1. /\ pc[s] = "snapsend" /\ UNCHANGED hubVars
          /\ \E l \in {"loop"} : pc' = [pc EXCEPT ![s] = l]
      BY <1>4 DEF SendSnapshot
    <2>2. QED BY <2>1
  <1>5. CASE Receive(s)
    <2>1. /\ pc[s] = "loop" /\ UNCHANGED hubVars
          /\ \E l \in {"start", "error", "failed"} : pc' = [pc EXCEPT ![s] = l]
      BY <1>5 DEF Receive
    <2>2. QED BY <2>1
  <1>6. CASE ReceiveDisconnect(s)
    <2>1. /\ pc[s] = "loop" /\ UNCHANGED hubVars
          /\ \E l \in {"leave"} : pc' = [pc EXCEPT ![s] = l]
      BY <1>6 DEF ReceiveDisconnect
    <2>2. QED BY <2>1
  <1>7. CASE StartSandbox(s)
    <2>1. /\ pc[s] = "start" /\ UNCHANGED hubVars
          /\ \E l \in {"exec", "error"} : pc' = [pc EXCEPT ![s] = l]
      BY <1>7 DEF StartSandbox
    <2>2. QED BY <2>1
  <1>8. CASE StartFails(s)
    <2>1. /\ pc[s] = "start" /\ UNCHANGED hubVars
          /\ \E l \in {"error", "failed"} : pc' = [pc EXCEPT ![s] = l]
      BY <1>8 DEF StartFails
    <2>2. QED BY <2>1
  <1>9. CASE ExecLooksUp(s)
    <2>1. /\ pc[s] = "exec" /\ UNCHANGED hubVars
          /\ \E l \in {"error", "run"} : pc' = [pc EXCEPT ![s] = l]
      BY <1>9 DEF ExecLooksUp
    <2>2. QED BY <2>1
  <1>10. CASE GitCommits(s) \/ ExecAnswers(s) \/ RunFails(s)
    <2>1. /\ pc[s] \in {"run", "ran"} /\ UNCHANGED hubVars
          /\ \E l \in {"ran", "graph", "event", "error", "failed"} :
               pc' = [pc EXCEPT ![s] = l]
      BY <1>10 DEF GitCommits, ExecAnswers, RunFails, Leaves
    <2>2. QED BY <2>1
  <1>11. CASE Audit(s)
    <2>1. /\ pc[s] = "audit" /\ UNCHANGED hubVars
          /\ \E l \in {"loop"} : pc' = [pc EXCEPT ![s] = l]
      BY <1>11 DEF Audit
    <2>2. QED BY <2>1
  <1>12. CASE SendError(s)
    <2>1. /\ pc[s] = "error" /\ UNCHANGED hubVars
          /\ \E l \in {"loop", "failed"} : pc' = [pc EXCEPT ![s] = l]
      BY <1>12 DEF SendError
    <2>2. QED BY <2>1
  <1>13. CASE MarkRow(s)
    BY <1>13 DEF MarkRow
  <1> QED
    BY <1>1, <1>2, <1>3, <1>4, <1>5, <1>6, <1>7, <1>8, <1>9, <1>10, <1>11,
       <1>12, <1>13 DEF Private

(***************************************************************************)
(* So does the reset call.                                                 *)
(***************************************************************************)
LEMMA ResetMove ==
  ASSUME Places, ResetWork
  PROVE  /\ UNCHANGED hubVars
         /\ \E l \in ResetPlaces \ Casting :
              /\ pc["reset"] \in ResetPlaces \ Casting
              /\ pc' = [pc EXCEPT !["reset"] = l]
  <1> USE DEF Goto, ResetPlaces, Casting
  <1>1. CASE ResetPops
    BY <1>1 DEF ResetPops
  <1>2. CASE ResetRemoves
    BY <1>2 DEF ResetRemoves
  <1>3. CASE ResetFails
    BY <1>3 DEF ResetFails
  <1>4. CASE ResetAnswered
    BY <1>4 DEF ResetAnswered
  <1> QED BY <1>1, <1>2, <1>3, <1>4 DEF ResetWork

(***************************************************************************)
(* Every step is one of these.                                             *)
(***************************************************************************)
LEMMA StepCases ==
  ASSUME Next
  PROVE  \/ \E c \in Casters : StartCast(c) \/ EndCast(c)
         \/ \E c \in Casters, s \in Sockets : SendCast(c, s)
         \/ \E s \in Sockets : Open(s) \/ ClientGoes(s) \/ CloseFailed(s) \/ Leave(s)
         \/ \E s \in Sockets : Private(s)
         \/ ResetWork \/ Straggling
  BY DEF Next, Endpoint, ResetStep, Sending, Private, ResetWork, Straggling,
         Casters

(***************************************************************************)
(* Every step uses the hub as it is specified, or not at all.              *)
(***************************************************************************)
LEMMA HubStep ==
  ASSUME HubProofs!IInv, Places, Next
  PROVE  Hub!Next \/ UNCHANGED hubVars
  <1>1. ASSUME NEW c \in Casters, StartCast(c)
        PROVE  Hub!Next \/ UNCHANGED hubVars
    BY <1>1 DEF StartCast, Hub!Next
  <1>2. ASSUME NEW c \in Casters, EndCast(c)
        PROVE  Hub!Next \/ UNCHANGED hubVars
    BY <1>2 DEF EndCast, Hub!Next
  <1>3. ASSUME NEW c \in Casters, NEW s \in Sockets, SendCast(c, s)
        PROVE  Hub!Next
    BY <1>3 DEF SendCast, Hub!Next
  <1>4. ASSUME NEW s \in Sockets, Open(s) \/ ClientGoes(s) \/ Leave(s)
        PROVE  Hub!Next
    BY <1>4 DEF Open, ClientGoes, Leave, Hub!Next
  <1>5. ASSUME NEW s \in Sockets, CloseFailed(s)
        PROVE  Hub!Next \/ UNCHANGED hubVars
    <2>1. pc[s] = "failed" /\ gone' = gone \cup {s}
          /\ UNCHANGED <<rooms, members, at, cast>>
      BY <1>5 DEF CloseFailed
    <2>2. at[s] # {}
      BY <2>1 DEF Places, Outside
    <2>3. CASE s \in gone
      BY <2>1, <2>3 DEF hubVars
    <2>4. CASE s \notin gone
      BY <2>1, <2>2, <2>4 DEF Hub!Next, Hub!ClientGoes
    <2>5. QED BY <2>3, <2>4
  <1>6. ASSUME NEW s \in Sockets, Private(s) PROVE UNCHANGED hubVars
    BY <1>6, PrivateMove
  <1>7. ASSUME ResetWork PROVE UNCHANGED hubVars
    BY <1>7, ResetMove
  <1>8. ASSUME Straggling PROVE UNCHANGED hubVars
    BY <1>8 DEF Straggling, StragglerCommits
  <1> QED BY <1>1, <1>2, <1>3, <1>4, <1>5, <1>6, <1>7, <1>8, StepCases

(***************************************************************************)
(* Every step leaves each task where its connection and its broadcast say. *)
(***************************************************************************)
LEMMA PlacesStep ==
  ASSUME HubProofs!TypeOK, HubProofs!TypeOK', Places, Next
  PROVE  Places'
  <1>0. /\ at \in [Sockets -> SUBSET {Room}] /\ at' \in [Sockets -> SUBSET {Room}]
        /\ cast \in [Casters -> [obj : Objects \cup {NoObject},
                                 todo : SUBSET Sockets, dead : SUBSET Sockets]]
        /\ "reset" \notin Sockets /\ Casters = Sockets \cup {"reset"}
    BY SessionAssumption DEF HubProofs!TypeOK, Casters
  <1> USE DEF ResetPlaces, SocketPlaces, Outside, Casting
  <1>1. ASSUME NEW c \in Casters, StartCast(c) PROVE Places'
    <2>1. /\ pc[c] \in Ready
          /\ pc' = [pc EXCEPT ![c] =
                      CASE pc[c] = "join"  -> "joining"
                        [] pc[c] = "event" -> "eventing"
                        [] pc[c] = "gcast" -> "gcasting"
                        [] pc[c] = "left"  -> "leaving"
                        [] pc[c] = "clear" -> "clearing"]
      BY <1>1 DEF StartCast
    <2>2. pc' \in [Casters -> ResetPlaces \cup SocketPlaces]
      BY <2>1 DEF Places, Ready
    <2>3. at' = at /\ \A d \in Casters \ {c} : cast'[d] = cast[d]
      BY <1>1, <1>0 DEF StartCast, hubVars, Hub!Broadcast
    <2>4. pc'["reset"] \in ResetPlaces /\ \A s \in Sockets : pc'[s] \in SocketPlaces
      BY <2>1, <1>0 DEF Places, Ready
    <2>5. \A s \in Sockets : pc'[s] \in Outside <=> pc[s] \in Outside
      BY <2>1, <1>0 DEF Places, Ready
    <2>6. pc'[c] \in Casting /\ \A d \in Casters \ {c} : pc'[d] = pc[d]
      BY <2>1 DEF Places, Ready
    <2> QED BY <2>2, <2>3, <2>4, <2>5, <2>6 DEF Places
  <1>2. ASSUME NEW c \in Casters, EndCast(c) PROVE Places'
    <2>1. pc[c] \in Casting /\ pc' = [pc EXCEPT ![c] = AfterCast(c)]
      BY <1>2 DEF EndCast, Goto
    <2>2. /\ pc[c] = "joining"  => AfterCast(c) = "persist"
          /\ pc[c] = "eventing" => AfterCast(c) \in {"audit", "gcast"}
          /\ pc[c] = "gcasting" => AfterCast(c) = "audit"
          /\ pc[c] = "leaving"  => AfterCast(c) = "mark"
          /\ pc[c] = "clearing" => AfterCast(c) = "answered"
      BY DEF AfterCast
    <2>3. pc' \in [Casters -> ResetPlaces \cup SocketPlaces]
      BY <2>1, <2>2 DEF Places
    <2>4. at' = at /\ cast'[c] = Hub!NoCast
          /\ \A d \in Casters \ {c} : cast'[d] = cast[d]
      BY <1>2, <1>0 DEF EndCast, hubVars, Hub!Finish, Hub!Casting
    <2>5. pc'["reset"] \in ResetPlaces /\ \A s \in Sockets : pc'[s] \in SocketPlaces
      BY <2>1, <2>2, <1>0 DEF Places
    <2>6. \A s \in Sockets : pc'[s] \in Outside <=> pc[s] \in Outside
      BY <2>1, <2>2, <1>0 DEF Places
    <2>7. \A d \in Casters \ {c} : pc'[d] = pc[d]
      BY <2>1 DEF Places
    <2>8. \A d \in Casters : pc'[d] \notin Casting => cast'[d] = Hub!NoCast
      BY <2>4, <2>7 DEF Places
    <2> HIDE DEF ResetPlaces, SocketPlaces, Casting
    <2> QED BY <2>3, <2>4, <2>5, <2>6, <2>8 DEF Places, Hub!NoCast
  <1>3. ASSUME NEW c \in Casters, NEW s \in Sockets, SendCast(c, s) PROVE Places'
    <2>1. pc[c] \in Casting /\ pc' = pc /\ at' = at
          /\ \A d \in Casters \ {c} : cast'[d] = cast[d]
      BY <1>3, <1>0 DEF SendCast, Hub!Send
    <2> QED BY <2>1 DEF Places, Hub!NoCast
  <1>4. ASSUME NEW s \in Sockets,
               Open(s) \/ ClientGoes(s) \/ CloseFailed(s) \/ Leave(s)
        PROVE  Places'
    <2>1. cast' = cast /\ s # "reset"
      BY <1>4, <1>0 DEF Open, ClientGoes, CloseFailed, Leave, Hub!Connect,
                        Hub!ClientGoes, Hub!Disconnect
    <2>2. \/ /\ pc' = pc /\ at' = at
          \/ /\ pc' = [pc EXCEPT ![s] = "leave"] /\ at' = at /\ pc[s] = "failed"
          \/ /\ pc' = [pc EXCEPT ![s] = "join"] /\ pc[s] = "new"
             /\ at' = [at EXCEPT ![s] = {Room}]
          \/ /\ pc' = [pc EXCEPT ![s] = "left"] /\ pc[s] = "leave"
             /\ at' = [at EXCEPT ![s] = {}]
      BY <1>4 DEF Open, ClientGoes, CloseFailed, Leave, Hub!Connect,
                  Hub!ClientGoes, Hub!Disconnect, Goto
    <2>3. /\ pc' \in [Casters -> ResetPlaces \cup SocketPlaces]
          /\ pc'["reset"] \in ResetPlaces
          /\ \A u \in Sockets : pc'[u] \in SocketPlaces
          /\ \A c \in Casters : pc[c] \in Casting => pc'[c] \in Casting
      BY <2>1, <2>2, <1>0 DEF Places
    <2>4. at' = [u \in Sockets |-> IF pc'[u] \in Outside THEN {} ELSE {Room}]
      <3> HIDE DEF ResetPlaces, SocketPlaces, Casting
      <3>1. /\ pc = [c \in Casters |-> pc[c]] /\ s \in Casters
            /\ at = [u \in Sockets |-> IF pc[u] \in Outside THEN {} ELSE {Room}]
        BY <1>0 DEF Places
      <3>2. \A u \in Sockets \ {s} : pc'[u] = pc[u] /\ at'[u] = at[u]
        <4> HIDE DEF Outside
        <4> QED BY <2>2, <3>1, <1>0
      <3>3. at'[s] = IF pc'[s] \in Outside THEN {} ELSE {Room}
        BY <2>2, <3>1, <1>0
      <3> HIDE DEF Outside
      <3> QED BY <3>1, <3>2, <3>3, <1>0
    <2> HIDE DEF ResetPlaces, SocketPlaces, Casting
    <2> QED BY <2>1, <2>3, <2>4, <1>0 DEF Places, Hub!NoCast
  <1>5. ASSUME NEW s \in Sockets, Private(s) PROVE Places'
    <2>1. cast' = cast /\ at' = at /\ s # "reset"
      BY <1>5, <1>0, PrivateMove DEF hubVars
    <2>2. PICK l \in SocketPlaces \ (Casting \cup {"new"}) :
            /\ pc[s] \in SocketPlaces \ (Casting \cup {"new"})
            /\ pc' = [pc EXCEPT ![s] = l]
            /\ pc[s] \in Outside <=> l \in Outside
      BY <1>5, PrivateMove
    <2> HIDE DEF ResetPlaces, SocketPlaces, Outside, Casting
    <2> QED BY <2>1, <2>2, <1>0 DEF Places, Hub!NoCast
  <1>6. ASSUME ResetWork PROVE Places'
    <2>1. cast' = cast /\ at' = at
      BY <1>6, ResetMove DEF hubVars
    <2>2. PICK l \in ResetPlaces \ Casting :
            /\ pc["reset"] \in ResetPlaces \ Casting
            /\ pc' = [pc EXCEPT !["reset"] = l]
      BY <1>6, ResetMove
    <2> HIDE DEF ResetPlaces, SocketPlaces, Outside, Casting
    <2>3. pc'["reset"] = l /\ \A s \in Sockets : pc'[s] = pc[s]
      BY <2>2, <1>0 DEF Places
    <2> QED BY <2>1, <2>2, <2>3, <1>0 DEF Places, Hub!NoCast
  <1>7. ASSUME Straggling PROVE Places'
    <2>1. pc' = pc /\ at' = at /\ cast' = cast
      BY <1>7 DEF Straggling, StragglerCommits, hubVars
    <2> QED BY <2>1 DEF Places, Hub!NoCast
  <1> QED BY <1>1, <1>2, <1>3, <1>4, <1>5, <1>6, <1>7, StepCases

(***************************************************************************)
(* The connections are as any use of the hub leaves them, and the tasks    *)
(* are where the connections say.                                          *)
(***************************************************************************)
LEMMA HubHolds == Spec => [](HubProofs!IInv /\ Places)
  <1>1. Init => HubProofs!IInv /\ Places
    <2> SUFFICES ASSUME Init PROVE HubProofs!IInv /\ Places
      OBVIOUS
    <2>1. HubProofs!IInv
      BY SessionAssumption
         DEF Init, Hub!Init, Hub!NoCast, HubProofs!IInv, HubProofs!TypeOK,
             HubProofs!OneRoom, HubProofs!OwnState, HubProofs!DeadAreGone,
             HubProofs!ConnectedIsReached, HubProofs!NoStrays, Casters
    <2>2. Places
      BY SessionAssumption
         DEF Init, Hub!Init, Hub!NoCast, Places, Casters, ResetPlaces,
             SocketPlaces, Outside
    <2> QED BY <2>1, <2>2
  <1>2. HubProofs!IInv /\ Places /\ [Next]_vars => HubProofs!IInv' /\ Places'
    <2> SUFFICES ASSUME HubProofs!IInv, Places, [Next]_vars
                 PROVE  HubProofs!IInv' /\ Places'
      OBVIOUS
    <2>1. [Hub!Next]_hubVars
      BY HubStep DEF vars
    <2>2. HubProofs!IInv'
      BY <2>1, HubKeeps
    <2>3. ASSUME Next PROVE Places'
      <3>1. HubProofs!TypeOK /\ HubProofs!TypeOK'
        BY <2>2 DEF HubProofs!IInv
      <3>2. QED BY <3>1, <2>3, PlacesStep
    <2>4. ASSUME UNCHANGED vars PROVE Places'
      BY <2>4 DEF vars, hubVars, Places, Hub!NoCast
    <2> QED BY <2>2, <2>3, <2>4
  <1> QED BY <1>1, <1>2, PTL DEF Spec

(***************************************************************************)
(* So every client that is connected is in the RoomState that the next     *)
(* broadcast reads, and none that has left is, whatever the endpoints do.  *)
(***************************************************************************)
THEOREM RoomIsReached ==
  Spec => [](HubProofs!ConnectedIsReached /\ HubProofs!NoStrays)
  BY HubHolds, PTL DEF HubProofs!IInv

-----------------------------------------------------------------------------
(* The types and the ranges.                                               *)

(***************************************************************************)
(* The sandbox of the room and its repository change in these steps only.  *)
(***************************************************************************)
LEMMA RepoFrame ==
  ASSUME Next
  PROVE  \/ UNCHANGED <<sandbox, last, alive, commits>>
         \/ \E s \in Sockets : StartSandbox(s) \/ StartFails(s) \/ GitCommits(s)
         \/ ResetPops \/ ResetRemoves \/ Straggling
  <1>1. CASE \E s \in Sockets :
               \/ Persist(s) \/ LookUp(s) \/ ReadGraph(s) \/ SendSnapshot(s)
               \/ Receive(s) \/ ReceiveDisconnect(s)
    BY <1>1
       DEF Persist, LookUp, ReadGraph, SendSnapshot, Receive, ReceiveDisconnect,
           poolVars, repoVars, tabVars, taskVars
  <1>2. CASE \E s \in Sockets :
               \/ StartSandbox(s) \/ StartFails(s) \/ ExecLooksUp(s)
               \/ GitCommits(s) \/ ExecAnswers(s)
    BY <1>2
       DEF StartSandbox, StartFails, ExecLooksUp, GitCommits, ExecAnswers,
           Leaves, Commits, poolVars, repoVars, tabVars, taskVars
  <1>3. CASE \E s \in Sockets :
               RunFails(s) \/ Audit(s) \/ SendError(s) \/ MarkRow(s)
    BY <1>3
       DEF RunFails, Leaves, Audit, SendError, MarkRow, poolVars, repoVars,
           tabVars, taskVars
  <1>4. CASE ResetWork \/ Straggling
    BY <1>4
       DEF ResetWork, ResetPops, ResetRemoves, ResetFails, ResetAnswered,
           Straggling, StragglerCommits, Commits, poolVars, repoVars, tabVars,
           taskVars
  <1>5. CASE \/ \E c \in Casters : StartCast(c) \/ EndCast(c)
             \/ \E c \in Casters, s \in Sockets : SendCast(c, s)
             \/ \E s \in Sockets :
                  Open(s) \/ ClientGoes(s) \/ CloseFailed(s) \/ Leave(s)
    BY <1>5
       DEF StartCast, EndCast, SendCast, Open, ClientGoes, CloseFailed, Leave,
           poolVars, repoVars, tabVars, taskVars
  <1> QED BY <1>1, <1>2, <1>3, <1>4, <1>5, StepCases DEF Private

(***************************************************************************)
(* A container is looked up, and let go, in these steps only.              *)
(***************************************************************************)
LEMMA HeldFrame ==
  ASSUME Next
  PROVE  \/ UNCHANGED held
         \/ \E s \in Sockets : LookUp(s) \/ ReadGraph(s) \/ ExecLooksUp(s)
              \/ ExecAnswers(s) \/ RunFails(s)
         \/ ResetPops \/ ResetRemoves \/ ResetFails
  <1>1. CASE \E s \in Sockets :
               \/ Persist(s) \/ LookUp(s) \/ ReadGraph(s) \/ SendSnapshot(s)
               \/ Receive(s) \/ ReceiveDisconnect(s)
    BY <1>1
       DEF Persist, LookUp, ReadGraph, SendSnapshot, Receive, ReceiveDisconnect,
           poolVars, repoVars, tabVars, taskVars
  <1>2. CASE \E s \in Sockets :
               \/ StartSandbox(s) \/ StartFails(s) \/ ExecLooksUp(s)
               \/ GitCommits(s) \/ ExecAnswers(s)
    BY <1>2
       DEF StartSandbox, StartFails, ExecLooksUp, GitCommits, ExecAnswers,
           Leaves, Commits, poolVars, repoVars, tabVars, taskVars
  <1>3. CASE \E s \in Sockets :
               RunFails(s) \/ Audit(s) \/ SendError(s) \/ MarkRow(s)
    BY <1>3
       DEF RunFails, Leaves, Audit, SendError, MarkRow, poolVars, repoVars,
           tabVars, taskVars
  <1>4. CASE ResetWork \/ Straggling
    BY <1>4
       DEF ResetWork, ResetPops, ResetRemoves, ResetFails, ResetAnswered,
           Straggling, StragglerCommits, Commits, poolVars, repoVars, tabVars,
           taskVars
  <1>5. CASE \/ \E c \in Casters : StartCast(c) \/ EndCast(c)
             \/ \E c \in Casters, s \in Sockets : SendCast(c, s)
             \/ \E s \in Sockets :
                  Open(s) \/ ClientGoes(s) \/ CloseFailed(s) \/ Leave(s)
    BY <1>5
       DEF StartCast, EndCast, SendCast, Open, ClientGoes, CloseFailed, Leave,
           poolVars, repoVars, tabVars, taskVars
  <1> QED BY <1>1, <1>2, <1>3, <1>4, <1>5, StepCases DEF Private

(***************************************************************************)
(* An endpoint reads a graph, and forgets it, in these steps only.         *)
(***************************************************************************)
LEMMA GraphFrame ==
  ASSUME Next
  PROVE  \/ UNCHANGED graph
         \/ \E s \in Sockets :
              ReadGraph(s) \/ SendSnapshot(s) \/ Receive(s) \/ Audit(s)
  <1>1. CASE \E s \in Sockets :
               \/ Persist(s) \/ LookUp(s) \/ ReadGraph(s) \/ SendSnapshot(s)
               \/ Receive(s) \/ ReceiveDisconnect(s)
    BY <1>1
       DEF Persist, LookUp, ReadGraph, SendSnapshot, Receive, ReceiveDisconnect,
           poolVars, repoVars, tabVars, taskVars
  <1>2. CASE \E s \in Sockets :
               \/ StartSandbox(s) \/ StartFails(s) \/ ExecLooksUp(s)
               \/ GitCommits(s) \/ ExecAnswers(s)
    BY <1>2
       DEF StartSandbox, StartFails, ExecLooksUp, GitCommits, ExecAnswers,
           Leaves, Commits, poolVars, repoVars, tabVars, taskVars
  <1>3. CASE \E s \in Sockets :
               RunFails(s) \/ Audit(s) \/ SendError(s) \/ MarkRow(s)
    BY <1>3
       DEF RunFails, Leaves, Audit, SendError, MarkRow, poolVars, repoVars,
           tabVars, taskVars
  <1>4. CASE ResetWork \/ Straggling
    BY <1>4
       DEF ResetWork, ResetPops, ResetRemoves, ResetFails, ResetAnswered,
           Straggling, StragglerCommits, Commits, poolVars, repoVars, tabVars,
           taskVars
  <1>5. CASE \/ \E c \in Casters : StartCast(c) \/ EndCast(c)
             \/ \E c \in Casters, s \in Sockets : SendCast(c, s)
             \/ \E s \in Sockets :
                  Open(s) \/ ClientGoes(s) \/ CloseFailed(s) \/ Leave(s)
    BY <1>5
       DEF StartCast, EndCast, SendCast, Open, ClientGoes, CloseFailed, Leave,
           poolVars, repoVars, tabVars, taskVars
  <1> QED BY <1>1, <1>2, <1>3, <1>4, <1>5, StepCases DEF Private

(***************************************************************************)
(* What a tab shows changes when something is sent to it, or when it has   *)
(* asked for the reset.                                                    *)
(***************************************************************************)
LEMMA TabFrame ==
  ASSUME Next
  PROVE  \/ UNCHANGED <<view, shown>>
         \/ \E c \in Casters, s \in Sockets : SendCast(c, s)
         \/ \E s \in Sockets : SendSnapshot(s)
         \/ ResetAnswered
  <1>1. CASE \E s \in Sockets :
               \/ Persist(s) \/ LookUp(s) \/ ReadGraph(s) \/ SendSnapshot(s)
               \/ Receive(s) \/ ReceiveDisconnect(s)
    BY <1>1
       DEF Persist, LookUp, ReadGraph, SendSnapshot, Receive, ReceiveDisconnect,
           poolVars, repoVars, tabVars, taskVars
  <1>2. CASE \E s \in Sockets :
               \/ StartSandbox(s) \/ StartFails(s) \/ ExecLooksUp(s)
               \/ GitCommits(s) \/ ExecAnswers(s)
    BY <1>2
       DEF StartSandbox, StartFails, ExecLooksUp, GitCommits, ExecAnswers,
           Leaves, Commits, poolVars, repoVars, tabVars, taskVars
  <1>3. CASE \E s \in Sockets :
               RunFails(s) \/ Audit(s) \/ SendError(s) \/ MarkRow(s)
    BY <1>3
       DEF RunFails, Leaves, Audit, SendError, MarkRow, poolVars, repoVars,
           tabVars, taskVars
  <1>4. CASE ResetWork \/ Straggling
    BY <1>4
       DEF ResetWork, ResetPops, ResetRemoves, ResetFails, ResetAnswered,
           Straggling, StragglerCommits, Commits, poolVars, repoVars, tabVars,
           taskVars
  <1>5. CASE \/ \E c \in Casters : StartCast(c) \/ EndCast(c)
             \/ \E c \in Casters, s \in Sockets : SendCast(c, s)
             \/ \E s \in Sockets :
                  Open(s) \/ ClientGoes(s) \/ CloseFailed(s) \/ Leave(s)
    BY <1>5
       DEF StartCast, EndCast, SendCast, Open, ClientGoes, CloseFailed, Leave,
           poolVars, repoVars, tabVars, taskVars
  <1> QED BY <1>1, <1>2, <1>3, <1>4, <1>5, StepCases DEF Private

(***************************************************************************)
(* The steps that change a Session row, a count, or what is owed to the    *)
(* audit log.                                                              *)
(***************************************************************************)
LEMMA CountFrame ==
  ASSUME Next
  PROVE  /\ UNCHANGED row \/ \E s \in Sockets : Persist(s) \/ MarkRow(s)
         /\ UNCHANGED sent \/ \E s \in Sockets : Receive(s)
         /\ UNCHANGED resets \/ ResetPops
         /\ UNCHANGED owed \/ \E s \in Sockets : GitCommits(s) \/ Audit(s)
         /\ UNCHANGED loose \/ (\E s \in Sockets : RunFails(s)) \/ Straggling
  <1>1. CASE \E s \in Sockets :
               \/ Persist(s) \/ LookUp(s) \/ ReadGraph(s) \/ SendSnapshot(s)
               \/ Receive(s) \/ ReceiveDisconnect(s)
    BY <1>1
       DEF Persist, LookUp, ReadGraph, SendSnapshot, Receive, ReceiveDisconnect,
           poolVars, repoVars, tabVars, taskVars
  <1>2. CASE \E s \in Sockets :
               \/ StartSandbox(s) \/ StartFails(s) \/ ExecLooksUp(s)
               \/ GitCommits(s) \/ ExecAnswers(s)
    BY <1>2
       DEF StartSandbox, StartFails, ExecLooksUp, GitCommits, ExecAnswers,
           Leaves, Commits, poolVars, repoVars, tabVars, taskVars
  <1>3. CASE \E s \in Sockets :
               RunFails(s) \/ Audit(s) \/ SendError(s) \/ MarkRow(s)
    BY <1>3
       DEF RunFails, Leaves, Audit, SendError, MarkRow, poolVars, repoVars,
           tabVars, taskVars
  <1>4. CASE ResetWork \/ Straggling
    BY <1>4
       DEF ResetWork, ResetPops, ResetRemoves, ResetFails, ResetAnswered,
           Straggling, StragglerCommits, Commits, poolVars, repoVars, tabVars,
           taskVars
  <1>5. CASE \/ \E c \in Casters : StartCast(c) \/ EndCast(c)
             \/ \E c \in Casters, s \in Sockets : SendCast(c, s)
             \/ \E s \in Sockets :
                  Open(s) \/ ClientGoes(s) \/ CloseFailed(s) \/ Leave(s)
    BY <1>5
       DEF StartCast, EndCast, SendCast, Open, ClientGoes, CloseFailed, Leave,
           poolVars, repoVars, tabVars, taskVars
  <1> QED BY <1>1, <1>2, <1>3, <1>4, <1>5, StepCases DEF Private

(***************************************************************************)
(* git log gives a graph, whichever container is asked.                    *)
(***************************************************************************)
LEMMA LogIsGraph ==
  ASSUME TypeOK, NEW b \in {0} \cup Boxes
  PROVE  LogOf(b) \in Graphs \ {NoGraph}
  <1>1. /\ alive \subseteq Boxes /\ commits \in [Boxes -> 0..MaxCommands]
        /\ MaxCommands \in Nat /\ MaxBoxes \in Nat /\ Boxes \subseteq Nat \ {0}
    BY SessionAssumption DEF TypeOK, Boxes
  <1>2. CASE b \in alive /\ commits[b] > 0
    <2>1. commits[b] \in 1..MaxCommands /\ b \in Boxes /\ b # 0
      BY <1>1, <1>2
    <2>2. [box |-> b, n |-> commits[b]] \in [box : Boxes, n : 1..MaxCommands]
      BY <2>1
    <2>3. [box |-> b, n |-> commits[b]] # [box |-> 0, n |-> 1]
      BY <2>1
    <2> QED BY <1>2, <2>2, <2>3 DEF LogOf, Graphs, NoGraph
  <1>3. CASE ~ (b \in alive /\ commits[b] > 0)
    <2>1. [box |-> 0, n |-> 0] # [box |-> 0, n |-> 1]
      OBVIOUS
    <2> QED BY <1>3, <2>1 DEF LogOf, Graphs, Empty, NoGraph
  <1> QED BY <1>2, <1>3

(***************************************************************************)
(* Only a message that is received adds a command that may commit; a       *)
(* commit takes one away.                                                  *)
(***************************************************************************)
LEMMA CommittingStep ==
  ASSUME Places, Next
  PROVE  /\ ~ (\E s \in Sockets : Receive(s)) => Committing' \subseteq Committing
         /\ \A s \in Sockets : Receive(s) => Committing' \subseteq Committing \cup {s}
         /\ \A s \in Sockets : GitCommits(s) \/ (RunFails(s) /\ loose' # loose) =>
              s \in Committing /\ Committing' \subseteq Committing \ {s}
  <1> DEFINE In(x) == x \in {"start", "exec", "run"}
  <1>0. pc \in [Casters -> ResetPlaces \cup SocketPlaces] /\ Sockets \subseteq Casters
    BY DEF Places, Casters
  <1>1. ASSUME NEW c \in Casters, StartCast(c)
        PROVE  \A t \in Sockets : In(pc'[t]) => In(pc[t])
    BY <1>1, <1>0 DEF StartCast, Ready
  <1>2. ASSUME NEW c \in Casters, EndCast(c)
        PROVE  \A t \in Sockets : In(pc'[t]) => In(pc[t])
    BY <1>2, <1>0 DEF EndCast, Goto, AfterCast, Casting
  <1>3. ASSUME NEW c \in Casters, NEW s \in Sockets, SendCast(c, s)
        PROVE  \A t \in Sockets : In(pc'[t]) => In(pc[t])
    BY <1>3 DEF SendCast
  <1>4. ASSUME NEW s \in Sockets,
               Open(s) \/ ClientGoes(s) \/ CloseFailed(s) \/ Leave(s)
        PROVE  \A t \in Sockets : In(pc'[t]) => In(pc[t])
    BY <1>4, <1>0 DEF Open, ClientGoes, CloseFailed, Leave, Goto
  <1>5. ASSUME NEW s \in Sockets, Private(s), ~ Receive(s)
        PROVE  \A t \in Sockets : In(pc'[t]) => In(pc[t])
    BY <1>5, <1>0
       DEF Private, Persist, LookUp, ReadGraph, SendSnapshot, ReceiveDisconnect,
           StartSandbox, StartFails, ExecLooksUp, GitCommits, ExecAnswers, RunFails,
           Leaves, Audit, SendError, MarkRow, Goto
  <1>6. ASSUME ResetWork
        PROVE  \A t \in Sockets : In(pc'[t]) => In(pc[t])
    BY <1>6, ResetMove, <1>0, SessionAssumption
  <1>7. ASSUME Straggling
        PROVE  \A t \in Sockets : In(pc'[t]) => In(pc[t])
    BY <1>7 DEF Straggling, StragglerCommits
  <1>8. ASSUME ~ (\E s \in Sockets : Receive(s))
        PROVE  \A t \in Sockets : In(pc'[t]) => In(pc[t])
    BY <1>1, <1>2, <1>3, <1>4, <1>5, <1>6, <1>7, <1>8, StepCases
  <1>9. ASSUME NEW s \in Sockets, Receive(s)
        PROVE  \A t \in Sockets \ {s} : In(pc'[t]) => In(pc[t])
    BY <1>9, <1>0 DEF Receive, Goto
  <1>10. ASSUME NEW s \in Sockets, GitCommits(s) \/ (RunFails(s) /\ loose' # loose)
        PROVE  /\ In(pc[s]) /\ ~ In(pc'[s])
               /\ \A t \in Sockets : In(pc'[t]) => In(pc[t])
    BY <1>10, <1>0 DEF GitCommits, RunFails, Leaves, Goto
  <1> HIDE DEF In
  <1>11. /\ Committing = {t \in Sockets : In(pc[t])}
         /\ Committing' = {t \in Sockets : In(pc'[t])}
    BY DEF Committing, In
  <1> QED BY <1>8, <1>9, <1>10, <1>11

(***************************************************************************)
(* So the commits in a container are never more than the commands sent.    *)
(***************************************************************************)
LEMMA CountedStep ==
  ASSUME Places, TypeOK, Counted, Next
  PROVE  /\ Counted' /\ sent' \in 0..MaxCommands
         /\ commits' \in [Boxes -> 0..MaxCommands]
         /\ loose' \in [Boxes -> 0..MaxCommands]
  <1> DEFINE Natural ==
        /\ sent' \in 0..MaxCommands /\ commits' \in [Boxes -> Nat]
        /\ loose' \in [Boxes -> Nat]
  <1>0. /\ commits \in [Boxes -> Nat] /\ loose \in [Boxes -> Nat]
        /\ sent \in Nat /\ MaxCommands \in Nat
        /\ sent <= MaxCommands
        /\ alive \subseteq Boxes
    BY SessionAssumption DEF TypeOK
  <1>1. IsFiniteSet(Committing) /\ Cardinality(Committing) \in Nat
    BY FS_CardinalityType DEF Counted
  <1>2. ASSUME NEW s \in Sockets, Receive(s)
        PROVE  Counted' /\ Natural
    <2>1. commits' = commits /\ loose' = loose /\ sent' = sent + 1 /\ sent < MaxCommands
      BY <1>2 DEF Receive, repoVars
    <2>2. /\ IsFiniteSet(Committing \cup {s})
          /\ Cardinality(Committing \cup {s}) <= Cardinality(Committing) + 1
      BY <1>1, FS_AddElement, FS_CardinalityType
    <2>3. Committing' \subseteq Committing \cup {s}
      BY <1>2, CommittingStep
    <2>4. /\ IsFiniteSet(Committing')
          /\ Cardinality(Committing') <= Cardinality(Committing \cup {s})
          /\ Cardinality(Committing') \in Nat /\ Cardinality(Committing \cup {s}) \in Nat
      BY <2>2, <2>3, FS_Subset, FS_CardinalityType
    <2>5. Cardinality(Committing') <= Cardinality(Committing) + 1
      BY <2>2, <2>4, <1>1
    <2>6. \A b \in Boxes : commits'[b] + loose'[b] + Cardinality(Committing') <= sent'
      BY <2>1, <2>4, <2>5, <1>0, <1>1 DEF Counted
    <2> QED BY <2>1, <2>4, <2>6, <1>0 DEF Counted
  <1>3. ASSUME NEW s \in Sockets, GitCommits(s) \/ (RunFails(s) /\ loose' # loose)
        PROVE  Counted' /\ Natural
    <2>1. /\ sent' = sent /\ commits' \in [Boxes -> Nat] /\ loose' \in [Boxes -> Nat]
          /\ \A b \in Boxes : commits'[b] + loose'[b] <= commits[b] + loose[b] + 1
      <3>1. CASE GitCommits(s)
        <4>1. /\ sent' = sent /\ loose' = loose /\ held[s] \in Boxes
              /\ commits' = [commits EXCEPT ![held[s]] = @ + 1]
          BY <3>1, <1>0 DEF GitCommits, Commits
        <4> QED BY <4>1, <1>0
      <3>2. CASE RunFails(s) /\ loose' # loose
        <4>1. /\ sent' = sent /\ commits' = commits /\ held[s] \in Boxes
              /\ loose' = [loose EXCEPT ![held[s]] = @ + 1]
          BY <3>2, <1>0 DEF RunFails, repoVars
        <4> QED BY <4>1, <1>0
      <3> QED BY <1>3, <3>1, <3>2
    <2>2. s \in Committing /\ Committing' \subseteq Committing \ {s}
      BY <1>3, CommittingStep
    <2>3. /\ IsFiniteSet(Committing \ {s})
          /\ Cardinality(Committing \ {s}) = Cardinality(Committing) - 1
      BY <1>1, <2>2, FS_RemoveElement
    <2>4. /\ IsFiniteSet(Committing')
          /\ Cardinality(Committing') <= Cardinality(Committing \ {s})
          /\ Cardinality(Committing') \in Nat
      BY <2>2, <2>3, FS_Subset, FS_CardinalityType
    <2>5. Cardinality(Committing') <= Cardinality(Committing) - 1
      BY <2>3, <2>4
    <2>6. \A b \in Boxes : commits'[b] + loose'[b] + Cardinality(Committing') <= sent'
      BY <2>1, <2>4, <2>5, <1>0, <1>1 DEF Counted
    <2> QED BY <2>1, <2>4, <2>6, <1>0 DEF Counted
  <1>4. ASSUME ~ (\E s \in Sockets : Receive(s)), Natural, sent' = sent,
               \A b \in Boxes : commits'[b] + loose'[b] = commits[b] + loose[b]
        PROVE  Counted' /\ Natural
    <2>1. Committing' \subseteq Committing
      BY <1>4, CommittingStep
    <2>2. /\ IsFiniteSet(Committing')
          /\ Cardinality(Committing') <= Cardinality(Committing)
          /\ Cardinality(Committing') \in Nat
      BY <1>1, <2>1, FS_Subset, FS_CardinalityType
    <2>3. \A b \in Boxes : commits'[b] + loose'[b] + Cardinality(Committing') <= sent'
      BY <1>4, <2>2, <1>0, <1>1 DEF Counted
    <2> QED BY <1>4, <2>2, <2>3 DEF Counted
  <1>5. ASSUME Straggling PROVE Counted' /\ Natural
    <2>1. PICK b \in Boxes : StragglerCommits(b)
      BY <1>5 DEF Straggling
    <2>2. /\ sent' = sent /\ loose[b] > 0 /\ loose' = [loose EXCEPT ![b] = @ - 1]
          /\ commits' = [commits EXCEPT ![b] = @ + 1]
      BY <2>1 DEF StragglerCommits, Commits
    <2>3. /\ Natural
          /\ \A d \in Boxes : commits'[d] + loose'[d] = commits[d] + loose[d]
      BY <2>2, <1>0
    <2>4. ~ (\E s \in Sockets : Receive(s))
      BY <2>2, <1>0 DEF Receive
    <2> QED BY <1>4, <2>2, <2>3, <2>4
  <1>6. ASSUME ~ Straggling,
               ~ (\E s \in Sockets : \/ Receive(s)
                                     \/ GitCommits(s)
                                     \/ RunFails(s) /\ loose' # loose)
        PROVE  Counted' /\ Natural
    <2>1. sent' = sent /\ commits' = commits
      BY <1>6, CountFrame, RepoFrame
         DEF StartSandbox, StartFails, ResetPops, ResetRemoves, repoVars
    <2>2. loose' = loose
      BY <1>6, CountFrame
    <2>3. Natural /\ \A b \in Boxes : commits'[b] + loose'[b] = commits[b] + loose[b]
      BY <2>1, <2>2, <1>0
    <2>4. ~ (\E s \in Sockets : Receive(s))
      BY <1>6
    <2> QED BY <1>4, <2>1, <2>3, <2>4
  <1>7. Counted' /\ Natural
    BY <1>2, <1>3, <1>5, <1>6
  <1>8. \A b \in Boxes : commits'[b] <= sent' /\ loose'[b] <= sent'
    BY <1>7, <1>0, FS_CardinalityType DEF Counted
  <1> QED BY <1>7, <1>8, <1>0

(***************************************************************************)
(* An endpoint reads a graph before it sends one, and has none when it     *)
(* begins a command.                                                       *)
(***************************************************************************)
LEMMA GraphsReadStep ==
  ASSUME Places, TypeOK, GraphsRead, Next
  PROVE  GraphsRead'
  <1>0. /\ pc \in [Casters -> ResetPlaces \cup SocketPlaces]
        /\ Sockets \subseteq Casters /\ "reset" \notin Sockets
        /\ graph \in [Sockets -> Graphs]
        /\ held \in [Casters -> {0} \cup Boxes]
    BY SessionAssumption DEF Places, Casters, TypeOK
  <1>1. ASSUME NEW c \in Casters, StartCast(c) PROVE GraphsRead'
    BY <1>1, <1>0 DEF StartCast, Ready, GraphsRead, taskVars
  <1>2. ASSUME NEW c \in Casters, EndCast(c) PROVE GraphsRead'
    BY <1>2, <1>0 DEF EndCast, Goto, AfterCast, Casting, GraphsRead, taskVars
  <1>3. ASSUME NEW c \in Casters, NEW s \in Sockets, SendCast(c, s)
        PROVE  GraphsRead'
    BY <1>3 DEF SendCast, GraphsRead, taskVars
  <1>4. ASSUME NEW s \in Sockets,
               Open(s) \/ ClientGoes(s) \/ CloseFailed(s) \/ Leave(s)
        PROVE  GraphsRead'
    BY <1>4, <1>0 DEF Open, ClientGoes, CloseFailed, Leave, Goto, GraphsRead, taskVars
  <1>5. ASSUME NEW s \in Sockets, ReadGraph(s) PROVE GraphsRead'
    <2>1. Empty # NoGraph
      <3>1. [box |-> 0, n |-> 0] # [box |-> 0, n |-> 1]
        OBVIOUS
      <3> QED BY <3>1 DEF Empty, NoGraph
    <2>2. LogOf(held[s]) # NoGraph
      BY <1>0, LogIsGraph
    <2>3. /\ pc[s] \in {"snap", "read"}
          /\ \E l \in {"event", "loop", "snapsend"} : pc' = [pc EXCEPT ![s] = l]
          /\ \E g \in {Empty, LogOf(held[s])} : graph' = [graph EXCEPT ![s] = g]
      BY <1>5 DEF ReadGraph, Goto
    <2>4. \A t \in Sockets \ {s} : pc'[t] = pc[t] /\ graph'[t] = graph[t]
      BY <2>3, <1>0
    <2>5. pc'[s] \in {"event", "loop", "snapsend"} /\ graph'[s] # NoGraph
      BY <2>1, <2>2, <2>3, <1>0
    <2> QED BY <2>4, <2>5 DEF GraphsRead
  <1>6. ASSUME NEW s \in Sockets, SendSnapshot(s) \/ Receive(s) \/ Audit(s)
        PROVE  GraphsRead'
    <2>1. /\ \E l \in {"loop", "start", "error", "failed"} : pc' = [pc EXCEPT ![s] = l]
          /\ graph' = [graph EXCEPT ![s] = NoGraph]
      BY <1>6 DEF SendSnapshot, Receive, Audit, Goto
    <2> QED BY <2>1, <1>0 DEF GraphsRead
  <1>7. ASSUME NEW s \in Sockets, Private(s),
               ~ (ReadGraph(s) \/ SendSnapshot(s) \/ Receive(s) \/ Audit(s))
        PROVE  GraphsRead'
    <2>1. graph' = graph
      BY <1>7
         DEF Private, Persist, LookUp, ReceiveDisconnect, StartSandbox,
             StartFails, ExecLooksUp, GitCommits, ExecAnswers, RunFails, SendError,
             MarkRow, taskVars
    <2>2. /\ \A t \in Sockets \ {s} : pc'[t] = pc[t]
          /\ pc'[s] \notin {"gcast", "gcasting", "snapsend"}
          /\ pc'[s] \in {"start", "exec", "run", "ran", "graph"} =>
               pc[s] \in {"start", "exec", "run", "ran"}
      BY <1>7, <1>0
         DEF Private, Persist, LookUp, ReceiveDisconnect, StartSandbox,
             StartFails, ExecLooksUp, GitCommits, ExecAnswers, RunFails, Leaves,
             SendError, MarkRow, Goto
    <2> QED BY <2>1, <2>2 DEF GraphsRead
  <1>8. ASSUME ResetWork PROVE GraphsRead'
    BY <1>8, <1>0
       DEF ResetWork, ResetPops, ResetRemoves, ResetFails, ResetAnswered, Goto,
           GraphsRead, taskVars
  <1>9. ASSUME Straggling PROVE GraphsRead'
    BY <1>9 DEF Straggling, StragglerCommits, GraphsRead, taskVars
  <1> QED BY <1>1, <1>2, <1>3, <1>4, <1>5, <1>6, <1>7, <1>8, <1>9, StepCases

(***************************************************************************)
(* Only the sandbox handed out last can be registered, and it runs until   *)
(* it is given up.                                                         *)
(***************************************************************************)
LEMMA RegisteredStep ==
  ASSUME Places, TypeOK, Registered, Next
  PROVE  Registered'
  <1>0. /\ sandbox \in [{Room} -> {0} \cup Boxes] /\ last \in {0} \cup Boxes
        /\ alive \subseteq Boxes /\ commits \in [Boxes -> Nat] /\ last \in Nat
        /\ Boxes \subseteq Nat \ {0} /\ pc \in [Casters -> ResetPlaces \cup SocketPlaces]
        /\ "reset" \in Casters /\ "reset" \notin Sockets
    BY SessionAssumption DEF TypeOK, Boxes, Places, Casters
  <1>1. ASSUME NEW s \in Sockets, StartSandbox(s) PROVE Registered'
    <2>1. pc["reset"] # "remove" /\ pc'["reset"] = pc["reset"]
      BY <1>1, <1>0 DEF StartSandbox, LockFree, Goto
    <2>2. CASE sandbox[Room] # 0
      <3>1. UNCHANGED <<sandbox, last, alive, commits>>
        BY <1>1, <2>2 DEF StartSandbox, poolVars, repoVars
      <3> QED BY <3>1, <2>1 DEF Registered
    <2>3. CASE sandbox[Room] = 0
      <3>1. /\ last' = last + 1 /\ sandbox' = [sandbox EXCEPT ![Room] = last']
            /\ alive' = {last'} /\ commits' = commits
        BY <1>1, <2>3 DEF StartSandbox, Pool!Allocate
      <3> QED BY <3>1, <2>1, <1>0 DEF Registered
    <2> QED BY <2>2, <2>3
  <1>2. ASSUME NEW b \in alive, Commits(b), UNCHANGED <<sandbox, last>>,
               pc'["reset"] = pc["reset"]
        PROVE  Registered'
    <2>1. alive' = alive /\ commits' = [commits EXCEPT ![b] = @ + 1]
      BY <1>2 DEF Commits
    <2>2. \A d \in Boxes : d > last => d \notin alive
      BY <1>0 DEF Registered
    <2> QED BY <1>2, <2>1, <2>2, <1>0 DEF Registered
  <1>3. ASSUME ResetPops PROVE Registered'
    <2>1. /\ UNCHANGED <<last, alive, commits>> /\ sandbox'[Room] = 0
      BY <1>3, <1>0 DEF ResetPops, Pool!Free, poolVars, repoVars
    <2> QED BY <2>1 DEF Registered
  <1>4. ASSUME ResetRemoves PROVE Registered'
    BY <1>4, <1>0 DEF ResetRemoves, Goto, poolVars, Registered
  <1>5. ASSUME NEW s \in Sockets, GitCommits(s) PROVE Registered'
    <2>1. /\ held[s] \in alive /\ Commits(held[s]) /\ UNCHANGED <<sandbox, last>>
          /\ pc'["reset"] = pc["reset"]
      BY <1>5, <1>0 DEF GitCommits, Goto, poolVars
    <2> QED BY <1>2, <2>1
  <1>6. ASSUME Straggling PROVE Registered'
    <2>1. PICK b \in Boxes : StragglerCommits(b)
      BY <1>6 DEF Straggling
    <2>2. /\ b \in alive /\ Commits(b) /\ UNCHANGED <<sandbox, last>> /\ pc' = pc
      BY <2>1 DEF StragglerCommits, poolVars
    <2> QED BY <1>2, <2>2
  <1>7. ASSUME NEW s \in Sockets, StartFails(s) PROVE Registered'
    <2>1. /\ UNCHANGED <<sandbox, last, commits>> /\ alive' \subseteq alive
          /\ sandbox[Room] = 0 /\ pc'["reset"] = pc["reset"]
      BY <1>7, <1>0 DEF StartFails, Goto, poolVars
    <2> QED BY <2>1, <1>0 DEF Registered
  <1>8. ASSUME UNCHANGED <<sandbox, last, alive, commits>>,
               ~ ResetPops
        PROVE  Registered'
    <2>1. pc'["reset"] = "remove" => pc["reset"] = "remove"
      <3>1. ASSUME NEW c \in Casters, StartCast(c) \/ EndCast(c)
            PROVE  pc'["reset"] = "remove" => pc["reset"] = "remove"
        BY <3>1, <1>0 DEF StartCast, EndCast, Goto, AfterCast, Ready, Casting
      <3>2. ASSUME NEW c \in Casters, NEW s \in Sockets, SendCast(c, s)
            PROVE  pc'["reset"] = "remove" => pc["reset"] = "remove"
        BY <3>2 DEF SendCast
      <3>3. ASSUME NEW s \in Sockets,
                   Open(s) \/ ClientGoes(s) \/ CloseFailed(s) \/ Leave(s)
            PROVE  pc'["reset"] = "remove" => pc["reset"] = "remove"
        BY <3>3, <1>0 DEF Open, ClientGoes, CloseFailed, Leave, Goto
      <3>4. ASSUME NEW s \in Sockets, Private(s)
            PROVE  pc'["reset"] = "remove" => pc["reset"] = "remove"
        BY <3>4, <1>0, PrivateMove
      <3>5. ASSUME ResetWork
            PROVE  pc'["reset"] = "remove" => pc["reset"] = "remove"
        BY <3>5, <1>8, <1>0
           DEF ResetWork, ResetRemoves, ResetFails, ResetAnswered, Goto
      <3>6. ASSUME Straggling
            PROVE  pc'["reset"] = "remove" => pc["reset"] = "remove"
        BY <3>6 DEF Straggling, StragglerCommits
      <3> QED BY <3>1, <3>2, <3>3, <3>4, <3>5, <3>6, StepCases
    <2> QED BY <1>8, <2>1 DEF Registered
  <1> QED BY <1>1, <1>3, <1>4, <1>5, <1>6, <1>7, <1>8, RepoFrame

(***************************************************************************)
(* Only the audit itself, or a command that fails, leads off the way to    *)
(* the audit log.                                                          *)
(***************************************************************************)
LEMMA WayToAudit ==
  ASSUME Places, Next, NEW t \in Sockets, pc[t] \in ToAudit, ~ Audit(t), ~ RunFails(t)
  PROVE  pc'[t] \in ToAudit
  <1>0. /\ pc \in [Casters -> ResetPlaces \cup SocketPlaces]
        /\ Sockets \subseteq Casters /\ "reset" \notin Sockets
    BY SessionAssumption DEF Places, Casters
  <1> USE DEF ToAudit
  <1>1. ASSUME NEW c \in Casters, StartCast(c) PROVE pc'[t] \in ToAudit
    BY <1>1, <1>0 DEF StartCast, Ready
  <1>2. ASSUME NEW c \in Casters, EndCast(c) PROVE pc'[t] \in ToAudit
    BY <1>2, <1>0 DEF EndCast, Goto, AfterCast, Casting
  <1>3. ASSUME NEW c \in Casters, NEW s \in Sockets, SendCast(c, s)
        PROVE  pc'[t] \in ToAudit
    BY <1>3 DEF SendCast
  <1>4. ASSUME NEW s \in Sockets,
               Open(s) \/ ClientGoes(s) \/ CloseFailed(s) \/ Leave(s)
        PROVE  pc'[t] \in ToAudit
    BY <1>4, <1>0 DEF Open, ClientGoes, CloseFailed, Leave, Goto
  <1>5. ASSUME NEW s \in Sockets, Private(s) PROVE pc'[t] \in ToAudit
    BY <1>5, <1>0
       DEF Private, Persist, LookUp, ReadGraph, SendSnapshot, Receive,
           ReceiveDisconnect, StartSandbox, StartFails, ExecLooksUp, GitCommits,
           ExecAnswers, RunFails, Leaves, Audit, SendError, MarkRow, Goto
  <1>6. ASSUME ResetWork PROVE pc'[t] \in ToAudit
    BY <1>6, <1>0
       DEF ResetWork, ResetPops, ResetRemoves, ResetFails, ResetAnswered, Goto
  <1>7. ASSUME Straggling PROVE pc'[t] \in ToAudit
    BY <1>7 DEF Straggling, StragglerCommits
  <1> QED BY <1>1, <1>2, <1>3, <1>4, <1>5, <1>6, <1>7, StepCases

(***************************************************************************)
(* A container that runs was not made later than this step began, unless   *)
(* the step makes it.                                                      *)
(***************************************************************************)
LEMMA AliveStep ==
  ASSUME TypeOK, Registered, Next
  PROVE  /\ last <= last' /\ last \in Nat /\ last' \in Nat
         /\ \A b \in alive' : b <= last => b \in alive
         /\ \A b \in alive : b \in Nat \ {0} /\ b <= last
  <1>0. last \in Nat /\ \A b \in alive : b \in Nat \ {0} /\ b <= last
    BY DEF TypeOK, Boxes, Registered
  <1>1. ASSUME NEW s \in Sockets, StartSandbox(s)
        PROVE  \/ last' = last /\ alive' = alive
               \/ last' = last + 1 /\ alive' = {last'}
    BY <1>1 DEF StartSandbox, Pool!Allocate, poolVars, repoVars
  <1>2. ASSUME NEW s \in Sockets, StartFails(s) \/ GitCommits(s)
        PROVE  last' = last /\ alive' \subseteq alive
    BY <1>2 DEF StartFails, GitCommits, Commits, poolVars
  <1>3. ASSUME ResetPops \/ ResetRemoves
        PROVE  last' = last /\ alive' \subseteq alive
    BY <1>3 DEF ResetPops, ResetRemoves, Pool!Free, poolVars, repoVars
  <1>4. ASSUME Straggling PROVE last' = last /\ alive' = alive
    BY <1>4 DEF Straggling, StragglerCommits, Commits, poolVars
  <1>5. \/ last' = last /\ alive' \subseteq alive
        \/ last' = last + 1 /\ alive' = {last'}
    BY <1>1, <1>2, <1>3, <1>4, RepoFrame
  <1> QED BY <1>0, <1>5

(***************************************************************************)
(* What is owed to the audit log is only ever on its way to it.            *)
(***************************************************************************)
LEMMA OwingStep ==
  ASSUME Places, Owing, TypeOK, Registered, Registered', Next
  PROVE  Owing'
  <1>0. /\ pc \in [Casters -> ResetPlaces \cup SocketPlaces]
        /\ Sockets \subseteq Casters /\ "reset" \notin Sockets
        /\ owed \in [Sockets -> {0} \cup Boxes] /\ Boxes \subseteq Nat \ {0}
        /\ held \in [Casters -> {0} \cup Boxes]
    BY SessionAssumption DEF Places, Casters, TypeOK, Boxes
  <1>1. /\ last <= last' /\ last \in Nat /\ last' \in Nat
        /\ \A b \in alive' : b <= last => b \in alive
        /\ \A b \in alive : b \in Nat \ {0} /\ b <= last
    BY AliveStep
  <1>2. ASSUME NEW t \in Sockets, GitCommits(t)
        PROVE  /\ owed'[t] = held[t] /\ held[t] \in alive /\ pc'[t] = "ran"
               /\ \A s \in Sockets \ {t} : owed'[s] = owed[s] /\ pc'[s] = pc[s]
               /\ held' = held
    BY <1>2, <1>0 DEF GitCommits, Goto, taskVars
  <1>3. ASSUME NEW t \in Sockets, Audit(t)
        PROVE  /\ owed'[t] = 0 /\ pc'[t] = "loop"
               /\ \A s \in Sockets \ {t} : owed'[s] = owed[s] /\ pc'[s] = pc[s]
               /\ held' = held
    BY <1>3, <1>0 DEF Audit, Goto
  <1>4. ASSUME NEW s \in Sockets PROVE owed'[s] <= last'
    <2>1. owed[s] <= last
      BY DEF Owing
    <2>2. ASSUME NEW t \in Sockets, GitCommits(t) PROVE owed'[s] <= last
      <3>1. held[t] <= last
        BY <2>2, <1>2, <1>1
      <3> QED BY <2>1, <2>2, <3>1, <1>2
    <2>3. ASSUME NEW t \in Sockets, Audit(t) PROVE owed'[s] <= last
      BY <2>1, <2>3, <1>1, <1>3
    <2>4. owed'[s] <= last
      BY <2>1, <2>2, <2>3, CountFrame
    <2>5. owed'[s] \in Nat
      <3>1. \A t \in Sockets : held[t] \in Nat /\ owed[t] \in Nat
        <4>1. {0} \cup Boxes \subseteq Nat
          BY <1>0
        <4>2. \A t \in Sockets : held[t] \in {0} \cup Boxes /\ owed[t] \in {0} \cup Boxes
          BY <1>0
        <4> QED BY <4>1, <4>2, Zenon
      <3>2. ASSUME NEW t \in Sockets, GitCommits(t) PROVE owed'[s] \in Nat
        BY <3>1, <3>2, <1>2
      <3>3. ASSUME NEW t \in Sockets, Audit(t) PROVE owed'[s] \in Nat
        BY <3>1, <3>3, <1>3
      <3> QED BY <3>1, <3>2, <3>3, CountFrame
    <2> QED BY <2>4, <2>5, <1>1
  <1>5. ASSUME NEW s \in Sockets, pc'[s] = "ran" PROVE owed'[s] = held'[s]
    <2>1. CASE \E t \in Sockets : GitCommits(t) \/ Audit(t)
      BY <2>1, <1>2, <1>3, <1>5 DEF Owing
    <2>2. CASE ~ (\E t \in Sockets : GitCommits(t) \/ Audit(t))
      <3>1. pc[s] = "ran" /\ held'[s] = held[s]
        <4>1. ASSUME NEW c \in Casters, StartCast(c) \/ EndCast(c)
              PROVE  pc[s] = "ran" /\ held'[s] = held[s]
          BY <4>1, <1>5, <1>0
             DEF StartCast, EndCast, Goto, AfterCast, Ready, Casting, taskVars
        <4>2. ASSUME NEW c \in Casters, NEW t \in Sockets, SendCast(c, t)
              PROVE  pc[s] = "ran" /\ held'[s] = held[s]
          BY <4>2, <1>5 DEF SendCast, taskVars
        <4>3. ASSUME NEW t \in Sockets,
                     Open(t) \/ ClientGoes(t) \/ CloseFailed(t) \/ Leave(t)
              PROVE  pc[s] = "ran" /\ held'[s] = held[s]
          BY <4>3, <1>5, <1>0
             DEF Open, ClientGoes, CloseFailed, Leave, Goto, taskVars
        <4>4. ASSUME NEW t \in Sockets, Private(t)
              PROVE  pc[s] = "ran" /\ held'[s] = held[s]
          BY <4>4, <2>2, <1>5, <1>0
             DEF Private, Persist, LookUp, ReadGraph, SendSnapshot, Receive,
                 ReceiveDisconnect, StartSandbox, StartFails, ExecLooksUp,
                 ExecAnswers, RunFails, Leaves, SendError, MarkRow, Goto, taskVars
        <4>5. ASSUME ResetWork
              PROVE  pc[s] = "ran" /\ held'[s] = held[s]
          BY <4>5, <1>5, <1>0
             DEF ResetWork, ResetPops, ResetRemoves, ResetFails, ResetAnswered,
                 Goto, taskVars
        <4>6. ASSUME Straggling PROVE pc[s] = "ran" /\ held'[s] = held[s]
          BY <4>6, <1>5 DEF Straggling, StragglerCommits, taskVars
        <4> QED BY <4>1, <4>2, <4>3, <4>4, <4>5, <4>6, StepCases
      <3>2. owed' = owed
        BY <2>2, CountFrame
      <3> QED BY <3>1, <3>2 DEF Owing
    <2> QED BY <2>1, <2>2
  <1>6. ASSUME ~ Faults, NEW s \in Sockets, owed'[s] \in alive'
        PROVE  pc'[s] \in ToAudit
    <2>1. CASE GitCommits(s)
      BY <2>1, <1>2 DEF ToAudit
    <2>2. ~ Audit(s)
      BY <1>3, <1>6 DEF Registered
    <2>3. CASE ~ GitCommits(s)
      <3>1. owed'[s] = owed[s]
        BY <2>2, <2>3, <1>2, <1>3, CountFrame
      <3>2. owed[s] \in alive
        BY <3>1, <1>1, <1>6 DEF Owing
      <3>3. pc[s] \in ToAudit
        BY <3>2, <1>6 DEF Owing
      <3>4. ~ RunFails(s)
        BY <3>2, <3>3, <1>6 DEF Owing, RunFails, ToAudit
      <3> QED BY <2>2, <3>3, <3>4, WayToAudit
    <2> QED BY <2>1, <2>3
  <1> QED BY <1>4, <1>5, <1>6 DEF Owing

(***************************************************************************)
(* A step takes note of the tasks at work after it, or leaves the work as  *)
(* it is; a broadcast of a graph alone heals.                              *)
(***************************************************************************)
LEMMA NotesFrame ==
  ASSUME Places, Next
  PROVE  \/ \E failure \in BOOLEAN : Notes(failure)
         \/ UNCHANGED noteVars /\ SameWork
         \/ ~ crossed /\ Heals /\ \E c \in Casters :
              StartCast(c) /\ pc[c] \in {"gcast", "clear"}
  <1>0. /\ pc \in [Casters -> ResetPlaces \cup SocketPlaces]
        /\ Sockets \subseteq Casters
    BY DEF Places, Casters
  <1>1. ASSUME NEW c \in Casters, StartCast(c)
        PROVE  Notes(FALSE) \/ (~ crossed /\ Heals /\ pc[c] \in {"gcast", "clear"})
    BY <1>1 DEF StartCast
  <1>2. ASSUME NEW c \in Casters, EndCast(c) PROVE Notes(FALSE)
    BY <1>2 DEF EndCast
  <1>3. ASSUME NEW c \in Casters, NEW s \in Sockets, SendCast(c, s)
        PROVE  UNCHANGED noteVars /\ SameWork
    BY <1>3 DEF SendCast, SameWork
  <1>4. ASSUME NEW s \in Sockets,
               Open(s) \/ ClientGoes(s) \/ CloseFailed(s) \/ Leave(s)
        PROVE  UNCHANGED noteVars /\ SameWork
    BY <1>4, <1>0 DEF Open, ClientGoes, CloseFailed, Leave, Goto, SameWork,
                      Working, Snapping
  <1>5. ASSUME NEW s \in Sockets, Private(s)
        PROVE  \/ \E failure \in BOOLEAN : Notes(failure)
               \/ UNCHANGED noteVars /\ SameWork
    <2>1. (held[s] \in alive) \in BOOLEAN /\ (pc[s] = "ran") \in BOOLEAN
          /\ Faults \in BOOLEAN
      BY SessionAssumption
    <2>2. CASE Persist(s) \/ LookUp(s) \/ ExecLooksUp(s) \/ GitCommits(s)
      BY <2>2 DEF Persist, LookUp, ExecLooksUp, GitCommits
    <2>3. CASE ReadGraph(s)
      BY <2>1, <2>3 DEF ReadGraph
    <2>4. CASE ExecAnswers(s)
      BY <2>1, <2>4 DEF ExecAnswers
    <2>5. CASE RunFails(s)
      BY <2>1, <2>5 DEF RunFails
    <2>6. CASE SendSnapshot(s) \/ Receive(s) \/ ReceiveDisconnect(s)
               \/ StartSandbox(s) \/ StartFails(s) \/ Audit(s) \/ SendError(s)
               \/ MarkRow(s)
      BY <2>6, <1>0
         DEF SendSnapshot, Receive, ReceiveDisconnect, StartSandbox, StartFails,
             Audit, SendError, MarkRow, Goto, SameWork, Working, Snapping
    <2> QED BY <1>5, <2>2, <2>3, <2>4, <2>5, <2>6 DEF Private
  <1>6. ASSUME ResetWork PROVE Notes(FALSE) \/ Notes(TRUE)
    BY <1>6 DEF ResetWork, ResetPops, ResetRemoves, ResetFails, ResetAnswered
  <1>7. ASSUME Straggling PROVE Notes(TRUE)
    BY <1>7 DEF Straggling, StragglerCommits
  <1> QED BY <1>1, <1>2, <1>3, <1>4, <1>5, <1>6, <1>7, StepCases

(***************************************************************************)
(* Every step keeps the types.                                             *)
(***************************************************************************)
LEMMA TypeStep ==
  ASSUME HubProofs!IInv, HubProofs!IInv', Places, Places', TypeOK, Counted,
         GraphsRead, Next
  PROVE  TypeOK'
  <1>0. /\ "reset" \in Casters /\ "reset" \notin Sockets /\ Sockets \subseteq Casters
        /\ Boxes \subseteq Nat \ {0} /\ MaxBoxes \in Nat /\ MaxResets \in Nat
        /\ TabOf \in [Sockets -> Tabs] /\ UserOf \in [Tabs -> Users]
    BY SessionAssumption DEF Casters, Boxes
  <1>00. /\ sandbox \in [{Room} -> {0} \cup Boxes] /\ last \in {0} \cup Boxes
         /\ alive \subseteq Boxes
         /\ held \in [Casters -> {0} \cup Boxes]
         /\ graph \in [Sockets -> Graphs]
         /\ row \in [Sockets -> {"none", "open", "closed", "lost"}]
         /\ view \in [Tabs -> Graphs \ {NoGraph}]
         /\ shown \in [Tabs -> SUBSET Users]
         /\ resets \in 0..MaxResets /\ owed \in [Sockets -> {0} \cup Boxes]
         /\ disturbed \in BOOLEAN /\ crossed \in BOOLEAN /\ late \subseteq Sockets
    BY DEF TypeOK
  <1>1. Hub!TypeOK'
    <2>1. HubProofs!TypeOK'
      BY DEF HubProofs!IInv
    <2> QED BY <2>1 DEF Hub!TypeOK, HubProofs!TypeOK
  <1>2. sandbox' \in [{Room} -> {0} \cup Boxes] /\ last' \in {0} \cup Boxes
        /\ alive' \subseteq Boxes
    <2>1. ASSUME NEW s \in Sockets, StartSandbox(s), sandbox[Room] = 0
          PROVE  /\ sandbox' \in [{Room} -> {0} \cup Boxes] /\ last' \in Boxes
                 /\ alive' \subseteq Boxes
      <3>1. /\ last < MaxBoxes /\ last' = last + 1 /\ alive' = {last'}
            /\ sandbox' = [sandbox EXCEPT ![Room] = last']
        BY <2>1 DEF StartSandbox, Pool!Allocate
      <3>2. last' \in Boxes
        BY <3>1, <1>0, <1>00 DEF Boxes
      <3> QED BY <3>1, <3>2, <1>00
    <2>2. ASSUME NEW s \in Sockets, StartSandbox(s), sandbox[Room] # 0
          PROVE  UNCHANGED <<sandbox, last, alive>>
      BY <2>2 DEF StartSandbox, poolVars, repoVars
    <2>3. ASSUME (\E s \in Sockets : StartFails(s) \/ GitCommits(s)) \/ Straggling
          PROVE  UNCHANGED <<sandbox, last>> /\ alive' \subseteq alive
      BY <2>3 DEF StartFails, GitCommits, Straggling, StragglerCommits, Commits,
                  poolVars
    <2>4. ASSUME ResetPops \/ ResetRemoves
          PROVE  /\ sandbox' \in [{Room} -> {0} \cup Boxes] /\ last' = last
                 /\ alive' \subseteq alive
      BY <2>4, <1>00 DEF ResetPops, ResetRemoves, Pool!Free, poolVars, repoVars
    <2> QED BY <2>1, <2>2, <2>3, <2>4, <1>00, RepoFrame
  <1>3. /\ commits' \in [Boxes -> 0..MaxCommands] /\ sent' \in 0..MaxCommands
        /\ loose' \in [Boxes -> 0..MaxCommands]
    BY CountedStep
  <1>4. pc' \in [Casters -> Busy \cup Casting \cup
          {"new", "join", "persist", "loop", "start", "exec", "audit", "error",
           "failed", "leave", "left", "mark", "done", "idle"}]
    <2>1. ResetPlaces \cup SocketPlaces = Busy \cup Casting \cup
            {"new", "join", "persist", "loop", "start", "exec", "audit", "error",
             "failed", "leave", "left", "mark", "done", "idle"}
      BY DEF ResetPlaces, SocketPlaces, Outside, Busy, Working, Snapping, Casting
    <2> QED BY <2>1 DEF Places
  <1>5. held' \in [Casters -> {0} \cup Boxes]
    <2>1. \/ held' = held
          \/ \E c \in Casters, b \in {0, sandbox[Room]} : held' = [held EXCEPT ![c] = b]
      BY HeldFrame, <1>0
         DEF LookUp, ReadGraph, ExecLooksUp, ExecAnswers, RunFails, Leaves,
             ResetPops, ResetRemoves, ResetFails
    <2> QED BY <2>1, <1>00
  <1>6. graph' \in [Sockets -> Graphs]
    <2>1. Empty \in Graphs /\ NoGraph \in Graphs
      BY DEF Graphs
    <2>2. \A s \in Sockets : LogOf(held[s]) \in Graphs
      BY LogIsGraph, <1>0, <1>00
    <2>3. \/ graph' = graph
          \/ \E s \in Sockets, g \in Graphs : graph' = [graph EXCEPT ![s] = g]
      BY GraphFrame, <2>1, <2>2 DEF ReadGraph, SendSnapshot, Receive, Audit, taskVars
    <2> QED BY <2>3, <1>00
  <1>7. row' \in [Sockets -> {"none", "open", "closed", "lost"}]
    <2>1. ASSUME NEW s \in Sockets, Persist(s) \/ MarkRow(s)
          PROVE  \/ row' = row
                 \/ \E r \in {"open", "closed", "lost"} : row' = [row EXCEPT ![s] = r]
      BY <2>1 DEF Persist, MarkRow
    <2> QED BY <2>1, <1>00, CountFrame
  <1>8. view' \in [Tabs -> Graphs \ {NoGraph}] /\ shown' \in [Tabs -> SUBSET Users]
    <2>1. Empty \in Graphs \ {NoGraph}
      <3>1. [box |-> 0, n |-> 0] # [box |-> 0, n |-> 1]
        OBVIOUS
      <3> QED BY <3>1 DEF Graphs, Empty, NoGraph
    <2>2. ASSUME NEW c \in Casters, NEW s \in Sockets, SendCast(c, s)
          PROVE  view' \in [Tabs -> Graphs \ {NoGraph}] /\ shown' \in [Tabs -> SUBSET Users]
      <3>1. CASE UNCHANGED tabVars
        BY <3>1, <1>00 DEF tabVars
      <3>2. CASE Applied(c, TabOf[s])
        <4>1. pc[c] \in Casting
          BY <2>2 DEF SendCast
        <4>2. pc[c] # "clearing" => c \in Sockets
          BY <4>1, <1>0 DEF Casting, Places, ResetPlaces, Casters
        <4>3. CASE pc[c] = "joining"
          BY <3>2, <4>2, <4>3, <1>0, <1>00 DEF Applied
        <4>4. CASE pc[c] = "leaving"
          BY <3>2, <4>2, <4>4, <1>0, <1>00 DEF Applied
        <4>5. CASE pc[c] = "gcasting"
          <5>1. view' = [view EXCEPT ![TabOf[s]] = graph[c]] /\ shown' = shown
            BY <3>2, <4>5 DEF Applied
          <5>2. graph[c] \in Graphs \ {NoGraph}
            BY <4>2, <4>5, <1>00 DEF GraphsRead
          <5> QED BY <5>1, <5>2, <1>00
        <4>6. CASE pc[c] = "clearing"
          BY <3>2, <4>6, <2>1, <1>00 DEF Applied
        <4>7. CASE pc[c] = "eventing"
          BY <3>2, <4>7, <1>00 DEF Applied, tabVars
        <4> QED BY <4>1, <4>3, <4>4, <4>5, <4>6, <4>7 DEF Casting
      <3> QED BY <2>2, <3>1, <3>2 DEF SendCast
    <2>3. ASSUME NEW s \in Sockets, SendSnapshot(s)
          PROVE  view' \in [Tabs -> Graphs \ {NoGraph}] /\ shown' \in [Tabs -> SUBSET Users]
      <3>1. graph[s] \in Graphs \ {NoGraph}
        BY <2>3, <1>00 DEF SendSnapshot, GraphsRead
      <3>2. /\ view' = view \/ view' = [view EXCEPT ![TabOf[s]] = graph[s]]
            /\ shown' = shown
        BY <2>3 DEF SendSnapshot
      <3> QED BY <3>1, <3>2, <1>00
    <2>4. ASSUME ResetAnswered
          PROVE  view' \in [Tabs -> Graphs \ {NoGraph}] /\ shown' \in [Tabs -> SUBSET Users]
      <3>1. \/ view' = view /\ shown' = shown
            \/ \E t \in Tabs : /\ view' = [view EXCEPT ![t] = Empty]
                              /\ shown' = [shown EXCEPT ![t] = {}]
        BY <2>4 DEF ResetAnswered, tabVars
      <3> QED BY <3>1, <2>1, <1>00
    <2> QED BY <2>2, <2>3, <2>4, <1>00, TabFrame
  <1>9. resets' \in 0..MaxResets
    <2>1. resets' = resets \/ (resets < MaxResets /\ resets' = resets + 1)
      BY CountFrame DEF ResetPops
    <2> QED BY <2>1, <1>0, <1>00
  <1>10. owed' \in [Sockets -> {0} \cup Boxes]
    <2>1. \/ owed' = owed
          \/ \E s \in Sockets, b \in {0} \cup Boxes : owed' = [owed EXCEPT ![s] = b]
      BY <1>0, <1>00, CountFrame DEF GitCommits, Audit
    <2> QED BY <2>1, <1>00
  <1>11. disturbed' \in BOOLEAN /\ crossed' \in BOOLEAN /\ late' \subseteq Sockets
    <2>1. \A failure \in BOOLEAN : Notes(failure) =>
            disturbed' \in BOOLEAN /\ crossed' \in BOOLEAN /\ late' \subseteq Sockets
      BY <1>00 DEF Notes
    <2>2. Heals => disturbed' \in BOOLEAN /\ crossed' \in BOOLEAN /\ late' \subseteq Sockets
      BY <1>00 DEF Heals
    <2> QED BY <2>1, <2>2, <1>00, NotesFrame DEF noteVars
  <1> QED
    BY <1>1, <1>2, <1>3, <1>4, <1>5, <1>6, <1>7, <1>8, <1>9, <1>10, <1>11
       DEF TypeOK

(***************************************************************************)
(* The inductive invariant: no step leaves it.                             *)
(***************************************************************************)
LEMMA IInvHolds == Spec => []IInv
  <1>1. Init => TypeOK /\ Counted /\ GraphsRead /\ Registered /\ Owing
    <2> SUFFICES ASSUME Init
                 PROVE  TypeOK /\ Counted /\ GraphsRead /\ Registered /\ Owing
      OBVIOUS
    <2>0. /\ "reset" \notin Sockets /\ Casters = Sockets \cup {"reset"}
          /\ MaxCommands \in Nat /\ MaxResets \in Nat /\ MaxBoxes \in Nat
      BY SessionAssumption DEF Casters
    <2>1. Empty \in Graphs \ {NoGraph} /\ NoGraph \in Graphs
      <3>1. [box |-> 0, n |-> 0] # [box |-> 0, n |-> 1]
        OBVIOUS
      <3> QED BY <3>1 DEF Graphs, Empty, NoGraph
    <2>2. Hub!TypeOK
      BY SessionAssumption DEF Init, Hub!Init, Hub!NoCast, Hub!TypeOK
    <2>3. TypeOK
      <3>1. pc \in [Casters -> {"idle", "new"}]
        BY <2>0 DEF Init
      <3>2. pc \in [Casters -> Busy \cup Casting \cup
              {"new", "join", "persist", "loop", "start", "exec", "audit",
               "error", "failed", "leave", "left", "mark", "done", "idle"}]
        BY <3>1
      <3>3. /\ sandbox \in [{Room} -> {0} \cup Boxes] /\ last \in {0} \cup Boxes
            /\ alive \subseteq Boxes /\ commits \in [Boxes -> 0..MaxCommands]
        BY <2>0 DEF Init, Pool!Init
      <3>4. /\ held \in [Casters -> {0} \cup Boxes]
            /\ graph \in [Sockets -> Graphs]
            /\ row \in [Sockets -> {"none", "open", "closed", "lost"}]
            /\ view \in [Tabs -> Graphs \ {NoGraph}]
            /\ shown \in [Tabs -> SUBSET Users]
        BY <2>0, <2>1 DEF Init
      <3>5. /\ sent \in 0..MaxCommands /\ resets \in 0..MaxResets
            /\ loose \in [Boxes -> 0..MaxCommands]
            /\ owed \in [Sockets -> {0} \cup Boxes]
            /\ disturbed \in BOOLEAN /\ crossed \in BOOLEAN /\ late \subseteq Sockets
        <4>1. /\ sent = 0 /\ resets = 0 /\ loose = [b \in Boxes |-> 0]
              /\ owed = [s \in Sockets |-> 0] /\ late = {}
          BY DEF Init
        <4>2. disturbed = FALSE /\ crossed = FALSE
          BY Zenon DEF Init
        <4>3. /\ sent \in 0..MaxCommands /\ resets \in 0..MaxResets
              /\ loose \in [Boxes -> 0..MaxCommands]
              /\ owed \in [Sockets -> {0} \cup Boxes] /\ late \subseteq Sockets
          BY <4>1, <2>0
        <4> QED BY <4>2, <4>3, Zenon
      <3> QED BY <2>2, <3>2, <3>3, <3>4, <3>5 DEF TypeOK
    <2>4. Committing = {}
      BY <2>0 DEF Init, Committing
    <2>5. Counted
      BY <2>0, <2>4, FS_EmptySet DEF Init, Counted
    <2>6. GraphsRead /\ Registered /\ Owing
      BY <2>0 DEF Init, Pool!Init, GraphsRead, Registered, Owing
    <2> QED BY <2>3, <2>5, <2>6
  <1>2. ASSUME IInv, HubProofs!IInv', Places', [Next]_vars
        PROVE  (TypeOK /\ Counted /\ GraphsRead /\ Registered /\ Owing)'
    <2>1. CASE Next
      <3>1. TypeOK'
        BY <1>2, <2>1, TypeStep DEF IInv
      <3>2. Counted' /\ GraphsRead' /\ Registered' /\ Owing'
        BY <1>2, <2>1, CountedStep, GraphsReadStep, RegisteredStep, OwingStep DEF IInv
      <3> QED BY <3>1, <3>2
    <2>2. CASE UNCHANGED vars
      BY <1>2, <2>2
         DEF IInv, vars, hubVars, poolVars, repoVars, tabVars, taskVars, TypeOK,
             noteVars, Hub!TypeOK, Counted, Committing, GraphsRead, Registered,
             Owing
    <2> QED BY <1>2, <2>1, <2>2
  <1>3. IInv <=> /\ HubProofs!IInv /\ Places
                /\ TypeOK /\ Counted /\ GraphsRead /\ Registered /\ Owing
    BY DEF IInv
  <1> QED BY <1>1, <1>2, <1>3, HubHolds, PTL DEF Spec

(***************************************************************************)
(* The variables of the room keep their types; in particular no container  *)
(* holds more commits than commands were sent.                             *)
(***************************************************************************)
THEOREM TypeCorrect == Spec => []TypeOK
  BY IInvHolds, PTL DEF IInv

(***************************************************************************)
(* Without failures no endpoint reads the next message, or ends, while a   *)
(* command of its own has changed a repository that is still there and is  *)
(* not in the audit log: also when a reset comes between the change and    *)
(* exec's answer, or the client goes.                                      *)
(***************************************************************************)
THEOREM CommandsAreAudited == Spec => []AppliedIsAudited
  <1>1. IInv => AppliedIsAudited
    BY DEF IInv, Owing, ToAudit, AppliedIsAudited
  <1> QED BY <1>1, IInvHolds, PTL

-----------------------------------------------------------------------------
(* Who is listed in a tab.                                                 *)

(***************************************************************************)
(* A socket is opened once: nothing leads back to "new", and only Open     *)
(* makes a client live.                                                    *)
(***************************************************************************)
LEMMA NewStays ==
  ASSUME IInv, Next
  PROVE  /\ \A s \in Sockets : pc'[s] = "new" => pc[s] = "new"
         /\ \A s \in Sockets : FirstVisit(s)' => FirstVisit(s)
         /\ \A s \in Sockets : Live(s)' => Live(s) \/ Open(s)
         /\ \A s \in Sockets : Open(s) =>
              pc[s] = "new" /\ UNCHANGED <<view, shown, graph, cast>>
  <1>0. /\ pc \in [Casters -> ResetPlaces \cup SocketPlaces]
        /\ Sockets \subseteq Casters /\ "reset" \notin Sockets
        /\ at \in [Sockets -> SUBSET {Room}]
    BY SessionAssumption DEF IInv, Places, Casters, HubProofs!IInv, HubProofs!TypeOK
  <1>1. \A s \in Sockets : pc'[s] = "new" => pc[s] = "new"
    <2>1. ASSUME NEW c \in Casters, StartCast(c) \/ EndCast(c)
          PROVE  \A s \in Sockets : pc'[s] = "new" => pc[s] = "new"
      BY <2>1, <1>0 DEF StartCast, EndCast, Goto, AfterCast, Ready, Casting
    <2>2. ASSUME NEW c \in Casters, NEW s \in Sockets, SendCast(c, s)
          PROVE  \A t \in Sockets : pc'[t] = "new" => pc[t] = "new"
      BY <2>2 DEF SendCast
    <2>3. ASSUME NEW s \in Sockets,
                 Open(s) \/ ClientGoes(s) \/ CloseFailed(s) \/ Leave(s)
          PROVE  \A t \in Sockets : pc'[t] = "new" => pc[t] = "new"
      BY <2>3, <1>0 DEF Open, ClientGoes, CloseFailed, Leave, Goto
    <2>4. ASSUME NEW s \in Sockets, Private(s)
          PROVE  \A t \in Sockets : pc'[t] = "new" => pc[t] = "new"
      BY <2>4, <1>0, PrivateMove DEF IInv
    <2>5. ASSUME ResetWork
          PROVE  \A t \in Sockets : pc'[t] = "new" => pc[t] = "new"
      BY <2>5, <1>0, ResetMove DEF IInv
    <2>6. ASSUME Straggling
          PROVE  \A t \in Sockets : pc'[t] = "new" => pc[t] = "new"
      BY <2>6 DEF Straggling, StragglerCommits
    <2> QED BY <2>1, <2>2, <2>3, <2>4, <2>5, <2>6, StepCases
  <1>2. \A s \in Sockets : FirstVisit(s)' => FirstVisit(s)
    BY <1>1 DEF FirstVisit
  <1>3. \A s \in Sockets : Live(s)' => Live(s) \/ Open(s)
    <2>1. ASSUME NEW c \in Casters, StartCast(c) \/ EndCast(c)
          PROVE  at' = at /\ gone' = gone
      BY <2>1 DEF StartCast, EndCast, hubVars, Hub!Broadcast, Hub!Finish
    <2>2. ASSUME NEW c \in Casters, NEW s \in Sockets, SendCast(c, s)
          PROVE  at' = at /\ gone' = gone
      BY <2>2 DEF SendCast, Hub!Send
    <2>3. ASSUME NEW s \in Sockets, ClientGoes(s) \/ CloseFailed(s) \/ Leave(s)
          PROVE  \A t \in Sockets : at'[t] # {} /\ t \notin gone' => at[t] # {} /\ t \notin gone
      BY <2>3, <1>0 DEF ClientGoes, CloseFailed, Leave, Hub!ClientGoes, Hub!Disconnect
    <2>4. ASSUME NEW s \in Sockets, Open(s)
          PROVE  \A t \in Sockets \ {s} :
                   at'[t] # {} /\ t \notin gone' => at[t] # {} /\ t \notin gone
      BY <2>4, <1>0 DEF Open, Hub!Connect
    <2>5. ASSUME NEW s \in Sockets, Private(s) PROVE at' = at /\ gone' = gone
      BY <2>5, PrivateMove DEF IInv, hubVars
    <2>6. ASSUME ResetWork PROVE at' = at /\ gone' = gone
      BY <2>6, ResetMove DEF IInv, hubVars
    <2>7. ASSUME Straggling PROVE at' = at /\ gone' = gone
      BY <2>7 DEF Straggling, StragglerCommits, hubVars
    <2> QED BY <2>1, <2>2, <2>3, <2>4, <2>5, <2>6, <2>7, StepCases DEF Live
  <1>4. \A s \in Sockets : Open(s) =>
          pc[s] = "new" /\ UNCHANGED <<view, shown, graph, cast>>
    BY DEF Open, Hub!Connect, tabVars, taskVars
  <1> QED BY <1>1, <1>2, <1>3, <1>4

(***************************************************************************)
(* A broadcast that begins reaches every live client, and only clients     *)
(* that are connected.                                                     *)
(***************************************************************************)
LEMMA CastReaches ==
  ASSUME IInv, NEW c \in Casters, StartCast(c)
  PROVE  /\ \A s \in Sockets : Live(s) => s \in cast'[c].todo
         /\ \A s \in cast'[c].todo : s \in Sockets /\ pc[s] \notin Outside
         /\ \A d \in Casters \ {c} : cast'[d] = cast[d]
  <1>0. /\ cast \in [Casters -> [obj : Objects \cup {NoObject},
                                 todo : SUBSET Sockets, dead : SUBSET Sockets]]
        /\ rooms \in [{Room} -> Objects \cup {NoObject}]
        /\ members \in [Objects -> SUBSET Sockets]
        /\ at = [s \in Sockets |-> IF pc[s] \in Outside THEN {} ELSE {Room}]
    BY DEF IInv, HubProofs!IInv, HubProofs!TypeOK, Places
  <1>1. CASE rooms[Room] = NoObject
    <2>1. cast' = cast /\ cast[c] = Hub!NoCast
      BY <1>1 DEF StartCast, hubVars, IInv, Places, Ready, Casting
    <2>2. \A s \in Sockets : ~ Live(s)
      BY <1>0, <1>1 DEF IInv, HubProofs!IInv, HubProofs!ConnectedIsReached, Live
    <2> QED BY <2>1, <2>2 DEF Hub!NoCast
  <1>2. CASE rooms[Room] # NoObject
    <2>1. cast' = [cast EXCEPT ![c] = [obj  |-> rooms[Room],
                                       todo |-> members[rooms[Room]],
                                       dead |-> {}]]
      BY <1>2 DEF StartCast, Hub!Broadcast
    <2>2. /\ cast'[c].todo = members[rooms[Room]] /\ rooms[Room] \in Objects
          /\ \A d \in Casters \ {c} : cast'[d] = cast[d]
      BY <2>1, <1>0, <1>2
    <2>3. \A s \in Sockets : Live(s) => s \in members[rooms[Room]]
      BY <1>0 DEF IInv, HubProofs!IInv, HubProofs!ConnectedIsReached, Live
    <2>4. \A s \in members[rooms[Room]] : s \in Sockets /\ at[s] # {}
      BY <1>0, <2>2 DEF IInv, HubProofs!IInv, HubProofs!NoStrays
    <2> QED BY <2>2, <2>3, <2>4, <1>0
  <1> QED BY <1>1, <1>2

(***************************************************************************)
(* Every other step leaves the targets of a broadcast alone, but for the   *)
(* one that is sent to; a broadcast ends when it has none.                 *)
(***************************************************************************)
LEMMA TodoFrame ==
  ASSUME IInv, Next, NEW c \in Casters, ~ StartCast(c)
  PROVE  /\ cast'[c].todo \subseteq cast[c].todo
         /\ \A s \in cast[c].todo : ~ SendCast(c, s) => s \in cast'[c].todo
         /\ EndCast(c) => cast[c].todo = {}
  <1>0. cast \in [Casters -> [obj : Objects \cup {NoObject},
                             todo : SUBSET Sockets, dead : SUBSET Sockets]]
    BY DEF IInv, HubProofs!IInv, HubProofs!TypeOK
  <1>1. ASSUME NEW d \in Casters \ {c}, StartCast(d) PROVE cast'[c] = cast[c]
    BY <1>1, CastReaches
  <1>2. ASSUME NEW d \in Casters, EndCast(d)
        PROVE  /\ cast'[c].todo = cast[c].todo
               /\ d = c => cast[c].todo = {}
    <2>1. CASE Hub!Casting(d)
      <3>1. cast[d].todo = {} /\ cast' = [cast EXCEPT ![d] = Hub!NoCast]
        BY <1>2, <2>1 DEF EndCast, Hub!Finish
      <3>2. Hub!NoCast.todo = {}
        BY DEF Hub!NoCast
      <3> QED BY <3>1, <3>2, <1>0
    <2>2. CASE ~ Hub!Casting(d)
      BY <1>2, <2>2 DEF EndCast, hubVars, Hub!Casting, Hub!NoCast
    <2> QED BY <2>1, <2>2
  <1>3. ASSUME NEW d \in Casters, NEW s \in Sockets, SendCast(d, s)
        PROVE  /\ cast'[c].todo \subseteq cast[c].todo
               /\ \A t \in cast[c].todo : t # s \/ c # d => t \in cast'[c].todo
    BY <1>3, <1>0 DEF SendCast, Hub!Send
  <1>4. ASSUME NEW s \in Sockets,
               Open(s) \/ ClientGoes(s) \/ CloseFailed(s) \/ Leave(s)
        PROVE  cast' = cast
    BY <1>4 DEF Open, ClientGoes, CloseFailed, Leave, Hub!Connect,
                Hub!ClientGoes, Hub!Disconnect
  <1>5. ASSUME NEW s \in Sockets, Private(s) PROVE cast' = cast
    BY <1>5, PrivateMove DEF IInv, hubVars
  <1>6. ASSUME ResetWork PROVE cast' = cast
    BY <1>6, ResetMove DEF IInv, hubVars
  <1>7. ASSUME Straggling PROVE cast' = cast
    BY <1>7 DEF Straggling, StragglerCommits, hubVars
  <1>8. cast[c].todo \subseteq Sockets
    BY <1>0
  <1>9. EndCast(c) => cast[c].todo = {}
    BY <1>2
  <1> QED BY <1>1, <1>2, <1>3, <1>4, <1>5, <1>6, <1>7, <1>8, <1>9, StepCases

(***************************************************************************)
(* Whoever is not connected yet is the target of no broadcast.             *)
(***************************************************************************)
LEMMA UntoldStep ==
  ASSUME IInv, NewAreUntold, Next
  PROVE  NewAreUntold'
  <1> SUFFICES ASSUME NEW s \in Sockets, pc'[s] = "new", NEW c \in Casters,
                      s \in cast'[c].todo
               PROVE  FALSE
    BY DEF NewAreUntold
  <1>1. pc[s] = "new"
    BY NewStays
  <1>2. s \notin cast[c].todo
    BY <1>1 DEF NewAreUntold
  <1>3. CASE StartCast(c)
    BY <1>1, <1>3, CastReaches DEF Outside
  <1>4. CASE ~ StartCast(c)
    BY <1>2, <1>4, TodoFrame
  <1> QED BY <1>3, <1>4

(***************************************************************************)
(* A departure that concerns a live client is on its way to it until the   *)
(* user leaves its list.                                                   *)
(***************************************************************************)
LEMMA DepartureStays ==
  ASSUME IInv, Next, NEW s \in Sockets, Live(s), NEW x, Departing(x, s),
         \A w \in Sockets :
           UserOf[TabOf[w]] = x /\ pc[w] = "leaving" => ~ SendCast(w, s)
  PROVE  Departing(x, s)'
  <1>0. /\ pc \in [Casters -> ResetPlaces \cup SocketPlaces]
        /\ Sockets \subseteq Casters /\ "reset" \notin Sockets
        /\ at = [t \in Sockets |-> IF pc[t] \in Outside THEN {} ELSE {Room}]
        /\ \A t \in Sockets : at[t] # {} <=> pc[t] \notin Outside
    BY SessionAssumption DEF IInv, Places, Casters
  <1>1. PICK w \in Sockets :
          /\ UserOf[TabOf[w]] = x
          /\ at[w] # {} \/ pc[w] = "left" \/ (pc[w] = "leaving" /\ s \in cast[w].todo)
    BY DEF Departing
  <1> SUFFICES at'[w] # {} \/ pc'[w] = "left" \/ (pc'[w] = "leaving" /\ s \in cast'[w].todo)
    BY <1>1 DEF Departing
  <1>2. ASSUME NEW c \in Casters, StartCast(c)
        PROVE  at'[w] # {} \/ pc'[w] = "left" \/ (pc'[w] = "leaving" /\ s \in cast'[w].todo)
    <2>1. at' = at
      BY <1>2 DEF StartCast, hubVars, Hub!Broadcast
    <2>2. CASE c = w /\ at[w] = {}
      <3>1. pc[w] = "left" /\ pc'[w] = "leaving"
        BY <1>2, <2>2, <1>0, <1>1 DEF StartCast, Ready
      <3>2. s \in cast'[w].todo
        BY <1>2, <2>2, CastReaches
      <3> QED BY <3>1, <3>2
    <2>3. CASE c # w
      <3>1. pc'[w] = pc[w]
        BY <1>2, <2>3, <1>0 DEF StartCast
      <3>2. cast'[w] = cast[w]
        BY <1>2, <2>3, CastReaches, <1>0
      <3> QED BY <2>1, <3>1, <3>2, <1>1
    <2> QED BY <2>1, <2>2, <2>3
  <1>3. ASSUME NEW c \in Casters, EndCast(c)
        PROVE  at'[w] # {} \/ pc'[w] = "left" \/ (pc'[w] = "leaving" /\ s \in cast'[w].todo)
    <2>1. at' = at
      BY <1>3 DEF EndCast, hubVars, Hub!Finish
    <2>2. at[w] # {} \/ pc[w] = "left" \/ (~ StartCast(w) /\ ~ SendCast(w, s))
      BY <1>1, <1>3 DEF StartCast, Ready
    <2>3. CASE c = w /\ at[w] = {}
      <3>1. pc[w] # "left"
        BY <1>3, <2>3 DEF EndCast, Casting
      <3>2. cast[w].todo = {}
        BY <1>3, <2>3, <3>1, <1>0, TodoFrame, <2>2
      <3> QED BY <3>1, <3>2, <2>3, <1>1
    <2>4. CASE c # w
      <3>1. pc'[w] = pc[w]
        BY <1>3, <2>4, <1>0 DEF EndCast, Goto
      <3>2. pc[w] = "leaving" => ~ StartCast(w) /\ ~ SendCast(w, s)
        BY <1>1 DEF StartCast, Ready
      <3>3. pc[w] = "leaving" /\ s \in cast[w].todo => s \in cast'[w].todo
        BY <3>2, TodoFrame, <1>0
      <3> QED BY <2>1, <3>1, <3>3, <1>1
    <2> QED BY <2>1, <2>3, <2>4
  <1>4. ASSUME NEW c \in Casters, NEW t \in Sockets, SendCast(c, t)
        PROVE  at'[w] # {} \/ pc'[w] = "left" \/ (pc'[w] = "leaving" /\ s \in cast'[w].todo)
    <2>1. at' = at /\ pc' = pc
      BY <1>4 DEF SendCast, Hub!Send
    <2>2. pc[w] = "leaving" => ~ StartCast(w) /\ ~ SendCast(w, s)
      BY <1>1 DEF StartCast, Ready
    <2>3. pc[w] = "leaving" /\ s \in cast[w].todo => s \in cast'[w].todo
      BY <2>2, TodoFrame, <1>0
    <2> QED BY <2>1, <2>3, <1>1
  <1>5. ASSUME NEW t \in Sockets,
               Open(t) \/ ClientGoes(t) \/ CloseFailed(t) \/ Leave(t)
        PROVE  at'[w] # {} \/ pc'[w] = "left" \/ (pc'[w] = "leaving" /\ s \in cast'[w].todo)
    <2>1. cast' = cast
      BY <1>5 DEF Open, ClientGoes, CloseFailed, Leave, Hub!Connect,
                  Hub!ClientGoes, Hub!Disconnect
    <2>2. CASE Open(t)
      BY <2>1, <2>2, <1>0, <1>1 DEF Open, Hub!Connect, Goto
    <2>3. CASE ClientGoes(t) \/ CloseFailed(t)
      BY <2>1, <2>3, <1>0, <1>1 DEF ClientGoes, CloseFailed, Hub!ClientGoes, Goto, Outside
    <2>4. CASE Leave(t)
      BY <2>1, <2>4, <1>0, <1>1 DEF Leave, Hub!Disconnect, Goto
    <2> QED BY <1>5, <2>2, <2>3, <2>4
  <1>6. ASSUME NEW t \in Sockets, Private(t)
        PROVE  at'[w] # {} \/ pc'[w] = "left" \/ (pc'[w] = "leaving" /\ s \in cast'[w].todo)
    <2>1. at' = at /\ cast' = cast
      BY <1>6, PrivateMove DEF IInv, hubVars
    <2>2. pc[t] # "left" /\ pc[t] # "leaving" /\ \A u \in Sockets \ {t} : pc'[u] = pc[u]
      BY <1>6, <1>0
         DEF Private, Persist, LookUp, ReadGraph, SendSnapshot, Receive,
             ReceiveDisconnect, StartSandbox, StartFails, ExecLooksUp, GitCommits,
             ExecAnswers, RunFails, Leaves, Audit, SendError, MarkRow, Goto
    <2> QED BY <2>1, <2>2, <1>1
  <1>7. ASSUME ResetWork
        PROVE  at'[w] # {} \/ pc'[w] = "left" \/ (pc'[w] = "leaving" /\ s \in cast'[w].todo)
    BY <1>7, <1>0, <1>1, ResetMove DEF IInv, hubVars
  <1>8. ASSUME Straggling
        PROVE  at'[w] # {} \/ pc'[w] = "left" \/ (pc'[w] = "leaving" /\ s \in cast'[w].todo)
    BY <1>8, <1>1 DEF Straggling, StragglerCommits, hubVars
  <1> QED BY <1>2, <1>3, <1>4, <1>5, <1>6, <1>7, <1>8, StepCases

(***************************************************************************)
(* A user enters the list of a tab only with the announcement of a join,   *)
(* while connected.                                                        *)
(***************************************************************************)
LEMMA OnlyJoinersEnter ==
  ASSUME IInv, Next, NEW t \in Tabs, NEW x \in shown'[t], x \notin shown[t]
  PROVE  \E w \in Sockets : UserOf[TabOf[w]] = x /\ at[w] # {} /\ at' = at
  <1>0. /\ "reset" \notin Sockets /\ Casters = Sockets \cup {"reset"}
        /\ shown \in [Tabs -> SUBSET Users] /\ TabOf \in [Sockets -> Tabs]
        /\ \A w \in Sockets : at[w] # {} <=> pc[w] \notin Outside
        /\ pc["reset"] \in ResetPlaces
    BY SessionAssumption DEF IInv, Places, Casters, TypeOK
  <1>1. PICK c \in Casters, s \in Sockets : SendCast(c, s)
    BY <1>0, TabFrame DEF SendSnapshot, ResetAnswered, tabVars
  <1>2. Applied(c, TabOf[s]) /\ pc[c] \in Casting /\ at' = at
    BY <1>1 DEF SendCast, Hub!Send, tabVars
  <1>3. pc[c] = "joining"
    BY <1>2, <1>0 DEF Applied, Casting, tabVars
  <1>4. c \in Sockets
    BY <1>3, <1>0 DEF ResetPlaces
  <1>5. shown' = [shown EXCEPT ![TabOf[s]] = @ \cup {UserOf[TabOf[c]]}]
    BY <1>2, <1>3 DEF Applied
  <1>6. UserOf[TabOf[c]] = x
    BY <1>5, <1>0
  <1> QED BY <1>2, <1>3, <1>4, <1>6, <1>0 DEF Outside

(***************************************************************************)
(* Every step keeps the lists of the tabs: each user in one is connected,  *)
(* or about to be taken off it.                                            *)
(***************************************************************************)
LEMMA ListedStep ==
  ASSUME IInv, UsersInv, Next
  PROVE  Listed'
  <1>0. /\ shown \in [Tabs -> SUBSET Users] /\ TabOf \in [Sockets -> Tabs]
        /\ "reset" \notin Sockets /\ Casters = Sockets \cup {"reset"}
    BY SessionAssumption DEF IInv, TypeOK, Casters
  <1>1. ASSUME NEW s \in Sockets, FirstVisit(s)', pc'[s] = "new"
        PROVE  shown'[TabOf[s]] = {}
    <2>1. FirstVisit(s) /\ pc[s] = "new"
      BY <1>1, NewStays
    <2>2. shown[TabOf[s]] = {}
      BY <2>1 DEF UsersInv, Listed
    <2>3. \A u \in Sockets : TabOf[u] = TabOf[s] => pc[u] = "new"
      BY <2>1 DEF FirstVisit
    <2>4. ASSUME NEW c \in Casters, NEW u \in Sockets, SendCast(c, u)
          PROVE  shown'[TabOf[s]] = {}
      <3>1. pc[u] # "new"
        BY <2>4 DEF SendCast, Hub!Send, UsersInv, NewAreUntold
      <3>2. TabOf[u] # TabOf[s] /\ TabOf[u] \in Tabs /\ TabOf[s] \in Tabs
        BY <3>1, <2>3, <1>0
      <3>3. shown'[TabOf[s]] = shown[TabOf[s]]
        BY <2>4, <3>2, <1>0 DEF SendCast, Applied, tabVars, Casting
      <3> QED BY <3>3, <2>2
    <2>5. ASSUME ResetAnswered PROVE shown'[TabOf[s]] = {}
      BY <2>5, <2>2, <1>0 DEF ResetAnswered, tabVars
    <2>6. ASSUME NEW u \in Sockets, SendSnapshot(u) PROVE shown'[TabOf[s]] = {}
      BY <2>6, <2>2 DEF SendSnapshot
    <2> QED BY <2>2, <2>4, <2>5, <2>6, TabFrame
  <1>2. ASSUME NEW s \in Sockets, FirstVisit(s)', Live(s)',
               NEW x \in shown'[TabOf[s]]
        PROVE  Departing(x, s)'
    <2>1. FirstVisit(s)
      BY <1>2, NewStays
    <2>2. CASE x \notin shown[TabOf[s]]
      <3>1. PICK w \in Sockets : UserOf[TabOf[w]] = x /\ at[w] # {} /\ at' = at
        BY <1>0, <1>2, <2>2, OnlyJoinersEnter
      <3> QED BY <3>1 DEF Departing
    <2>3. CASE x \in shown[TabOf[s]]
      <3>1. Live(s)
        <4>1. pc[s] # "new"
          BY <2>1, <2>3 DEF UsersInv, Listed
        <4> QED BY <4>1, <1>2, NewStays
      <3>2. Departing(x, s)
        BY <2>1, <2>3, <3>1 DEF UsersInv, Listed
      <3>3. ASSUME NEW w \in Sockets, UserOf[TabOf[w]] = x, pc[w] = "leaving",
                   SendCast(w, s)
            PROVE  FALSE
        <4>1. shown' = [shown EXCEPT ![TabOf[s]] = @ \ {x}]
          BY <3>1, <3>3 DEF SendCast, Applied, Live
        <4> QED BY <4>1, <1>0, <1>2
      <3> QED BY <3>1, <3>2, <3>3, DepartureStays
    <2> QED BY <2>2, <2>3
  <1> QED BY <1>1, <1>2 DEF Listed

(***************************************************************************)
(* When no arrival or departure is being announced, a client on its first  *)
(* connection lists nobody who is not connected: whatever tabs and         *)
(* connections a user has, and whatever is sent meanwhile.                 *)
(***************************************************************************)
THEOREM NobodyIsAGhost == Spec => []NoGhosts
  <1>1. Init => UsersInv
    <2> SUFFICES ASSUME Init PROVE UsersInv
      OBVIOUS
    <2>1. NewAreUntold
      BY DEF Init, Hub!Init, Hub!NoCast, NewAreUntold
    <2>2. Listed
      BY SessionAssumption DEF Init, Hub!Init, Listed, Live
    <2> QED BY <2>1, <2>2 DEF UsersInv
  <1>2. IInv /\ UsersInv /\ [Next]_vars => UsersInv'
    <2> SUFFICES ASSUME IInv, UsersInv, [Next]_vars PROVE UsersInv'
      OBVIOUS
    <2>1. CASE Next
      BY <2>1, UntoldStep, ListedStep DEF UsersInv
    <2>2. CASE UNCHANGED vars
      BY <2>2 DEF vars, hubVars, tabVars, UsersInv, NewAreUntold, Listed,
                  FirstVisit, Live, Departing
    <2> QED BY <2>1, <2>2
  <1>3. IInv /\ UsersInv => NoGhosts
    <2> SUFFICES ASSUME UsersInv,
                        \A s \in Sockets :
                          pc[s] \notin {"join", "joining", "left", "leaving"},
                        NEW s \in Sockets, Joined(s), FirstVisit(s),
                        NEW x \in shown[TabOf[s]]
                 PROVE  x \in {UserOf[TabOf[u]] : u \in {v \in Sockets : at[v] # {}}}
      BY DEF NoGhosts
    <2>1. Departing(x, s)
      BY DEF Joined, UsersInv, Listed
    <2> QED BY <2>1 DEF Departing
  <1> QED BY <1>1, <1>2, <1>3, IInvHolds, PTL DEF Spec

-----------------------------------------------------------------------------
(* What the tabs show of the repository.                                   *)

\* A step of the endpoint of s, and the steps that fail.
Acts(s) ==
  \/ StartCast(s) \/ EndCast(s) \/ Open(s) \/ CloseFailed(s) \/ Leave(s)
  \/ Private(s)

ResetActs == StartCast("reset") \/ EndCast("reset") \/ ResetWork

Fails ==
  \/ ResetFails \/ Straggling
  \/ \E s \in Sockets :
       \/ RunFails(s) /\ held[s] \in alive
       \/ ReadGraph(s) /\ graph' # [graph EXCEPT ![s] = LogOf(held[s])]
       \/ ExecAnswers(s) /\ pc[s] = "ran" /\ pc'[s] # "graph"

(***************************************************************************)
(* Without a repository to ask there is no graph.                          *)
(***************************************************************************)
LEMMA NothingToLog ==
  ASSUME IInv
  PROVE  /\ LogOf(0) = Empty /\ Empty # NoGraph
         /\ sandbox[Room] = 0 => Truth = Empty
         /\ \A b \in {0} \cup Boxes : LogOf(b) # NoGraph
         /\ \A c \in Casters : held[c] \in {0} \cup Boxes
         /\ sandbox[Room] \in {0} \cup Boxes
  <1>1. 0 \notin alive
    BY DEF IInv, Registered
  <1>2. LogOf(0) = Empty
    BY <1>1 DEF LogOf
  <1>3. Empty # NoGraph
    <2>1. [box |-> 0, n |-> 0] # [box |-> 0, n |-> 1]
      OBVIOUS
    <2> QED BY <2>1 DEF Empty, NoGraph
  <1>4. \A b \in {0} \cup Boxes : LogOf(b) # NoGraph
    BY LogIsGraph DEF IInv
  <1>5. /\ \A c \in Casters : held[c] \in {0} \cup Boxes
        /\ sandbox[Room] \in {0} \cup Boxes
    BY DEF IInv, TypeOK
  <1> QED BY <1>2, <1>3, <1>4, <1>5 DEF Truth

(***************************************************************************)
(* An endpoint, or the reset call, is moved by its own steps only.         *)
(***************************************************************************)
LEMMA OwnMoves ==
  ASSUME IInv, Next
  PROVE  /\ \A s \in Sockets :
              (pc'[s] # pc[s] \/ held'[s] # held[s] \/ graph'[s] # graph[s]) => Acts(s)
         /\ pc'["reset"] # pc["reset"] => ResetActs
  <1>0. /\ pc \in [Casters -> ResetPlaces \cup SocketPlaces]
        /\ Sockets \subseteq Casters /\ "reset" \notin Sockets /\ "reset" \in Casters
        /\ graph \in [Sockets -> Graphs] /\ held \in [Casters -> {0} \cup Boxes]
    BY SessionAssumption DEF IInv, Places, Casters, TypeOK
  <1>1. ASSUME NEW c \in Casters, StartCast(c) \/ EndCast(c)
        PROVE  /\ graph' = graph /\ held' = held
               /\ \A d \in Casters \ {c} : pc'[d] = pc[d]
    BY <1>1, <1>0 DEF StartCast, EndCast, Goto, taskVars
  <1>2. ASSUME NEW c \in Casters, NEW s \in Sockets, SendCast(c, s)
        PROVE  graph' = graph /\ held' = held /\ pc' = pc
    BY <1>2 DEF SendCast, taskVars
  <1>3. ASSUME NEW s \in Sockets, Open(s) \/ CloseFailed(s) \/ Leave(s)
        PROVE  /\ graph' = graph /\ held' = held
               /\ \A d \in Casters \ {s} : pc'[d] = pc[d]
    BY <1>3, <1>0 DEF Open, CloseFailed, Leave, Goto, taskVars
  <1>4. ASSUME NEW s \in Sockets, ClientGoes(s)
        PROVE  graph' = graph /\ held' = held /\ pc' = pc
    BY <1>4 DEF ClientGoes, taskVars
  <1>5. ASSUME NEW s \in Sockets, Private(s)
        PROVE  /\ \A d \in Casters \ {s} : pc'[d] = pc[d] /\ held'[d] = held[d]
               /\ \A t \in Sockets \ {s} : graph'[t] = graph[t]
    <2>1. \A d \in Casters \ {s} : pc'[d] = pc[d]
      BY <1>5, <1>0, PrivateMove DEF IInv
    <2>2. held' = held \/ \E b \in {0, sandbox[Room]} : held' = [held EXCEPT ![s] = b]
      BY <1>5
         DEF Private, Persist, LookUp, ReadGraph, SendSnapshot, Receive,
             ReceiveDisconnect, StartSandbox, StartFails, ExecLooksUp,
             GitCommits, ExecAnswers, RunFails, Leaves, Audit, SendError,
             MarkRow, taskVars
    <2>3. \/ graph' = graph
          \/ \E g \in {Empty, NoGraph, LogOf(held[s])} : graph' = [graph EXCEPT ![s] = g]
      BY <1>5
         DEF Private, Persist, LookUp, ReadGraph, SendSnapshot, Receive,
             ReceiveDisconnect, StartSandbox, StartFails, ExecLooksUp,
             GitCommits, ExecAnswers, RunFails, Leaves, Audit, SendError,
             MarkRow, taskVars
    <2> QED BY <2>1, <2>2, <2>3, <1>0
  <1>6. ASSUME ResetWork
        PROVE  /\ graph' = graph
               /\ \A s \in Sockets : pc'[s] = pc[s] /\ held'[s] = held[s]
    BY <1>6, <1>0
       DEF ResetWork, ResetPops, ResetRemoves, ResetFails, ResetAnswered, Goto,
           taskVars
  <1>7. ASSUME Straggling PROVE graph' = graph /\ held' = held /\ pc' = pc
    BY <1>7 DEF Straggling, StragglerCommits, taskVars
  <1> QED BY <1>0, <1>1, <1>2, <1>3, <1>4, <1>5, <1>6, <1>7, StepCases DEF Acts, ResetActs

(***************************************************************************)
(* How an endpoint comes to each of the places where it deals with a       *)
(* graph, and the reset call to where it has taken the sandbox away.       *)
(***************************************************************************)
LEMMA WayTo ==
  ASSUME IInv, Next
  PROVE  /\ \A s \in Sockets : pc'[s] # pc[s] =>
              /\ pc'[s] = "look" => Persist(s)
              /\ pc'[s] \in {"snap", "read"} => LookUp(s)
              /\ pc'[s] = "snapsend" => ReadGraph(s)
              /\ pc'[s] = "run" => ExecLooksUp(s)
              /\ pc'[s] = "ran" => GitCommits(s)
              /\ pc'[s] = "event" => ReadGraph(s) \/ ExecAnswers(s)
              /\ pc'[s] = "eventing" => StartCast(s) /\ pc[s] = "event"
              /\ pc'[s] = "gcast" => EndCast(s) /\ pc[s] = "eventing"
              /\ pc'[s] = "gcasting" => StartCast(s) /\ pc[s] = "gcast"
              /\ pc[s] = "join" => pc'[s] = "joining"
              /\ pc[s] = "joining" => pc'[s] = "persist"
              /\ pc[s] = "persist" => Persist(s)
              /\ pc[s] = "look" => LookUp(s)
              /\ pc[s] = "snap" => ReadGraph(s)
              /\ pc[s] = "snapsend" => SendSnapshot(s)
         /\ (/\ pc'["reset"] # pc["reset"]
             /\ pc'["reset"] \in {"remove", "clear", "clearing", "answered"}) =>
              \/ ResetPops
              \/ pc["reset"] \in {"remove", "clear", "clearing", "answered"}
  <1>0. /\ pc \in [Casters -> ResetPlaces \cup SocketPlaces]
        /\ Sockets \subseteq Casters /\ "reset" \notin Sockets /\ "reset" \in Casters
        /\ pc["reset"] \in ResetPlaces /\ \A s \in Sockets : pc[s] \in SocketPlaces
    BY SessionAssumption DEF IInv, Places, Casters
  <1>1. ASSUME NEW s \in Sockets, pc'[s] # pc[s]
        PROVE  /\ pc'[s] = "look" => Persist(s)
               /\ pc'[s] \in {"snap", "read"} => LookUp(s)
               /\ pc'[s] = "snapsend" => ReadGraph(s)
               /\ pc'[s] = "run" => ExecLooksUp(s)
               /\ pc'[s] = "ran" => GitCommits(s)
               /\ pc'[s] = "event" => ReadGraph(s) \/ ExecAnswers(s)
               /\ pc'[s] = "eventing" => StartCast(s) /\ pc[s] = "event"
               /\ pc'[s] = "gcast" => EndCast(s) /\ pc[s] = "eventing"
               /\ pc'[s] = "gcasting" => StartCast(s) /\ pc[s] = "gcast"
               /\ pc[s] = "join" => pc'[s] = "joining"
               /\ pc[s] = "joining" => pc'[s] = "persist"
               /\ pc[s] = "persist" => Persist(s)
               /\ pc[s] = "look" => LookUp(s)
               /\ pc[s] = "snap" => ReadGraph(s)
               /\ pc[s] = "snapsend" => SendSnapshot(s)
    <2>1. Acts(s)
      BY <1>1, OwnMoves
    <2>2. CASE StartCast(s) \/ EndCast(s)
      <3>1. pc[s] \notin {"clear", "clearing"}
        BY <1>0 DEF SocketPlaces, Outside
      <3> QED BY <2>2, <3>1, <1>0 DEF StartCast, EndCast, Goto, AfterCast, Ready, Casting
    <2>3. CASE Open(s) \/ CloseFailed(s) \/ Leave(s)
      BY <2>3, <1>0 DEF Open, CloseFailed, Leave, Goto
    <2>4. CASE Persist(s) \/ LookUp(s) \/ SendSnapshot(s) \/ Receive(s)
               \/ ReceiveDisconnect(s) \/ StartSandbox(s) \/ StartFails(s)
      BY <2>4, <1>0 DEF Persist, LookUp, SendSnapshot, Receive, ReceiveDisconnect,
                        StartSandbox, StartFails, Goto
    <2>5. CASE ReadGraph(s)
      <3>1. /\ pc[s] \in {"snap", "read"}
            /\ \E l \in {"event", "loop", "snapsend"} : pc' = [pc EXCEPT ![s] = l]
        BY <2>5 DEF ReadGraph, Goto
      <3> QED BY <2>5, <3>1, <1>0
    <2>6. CASE ExecLooksUp(s) \/ GitCommits(s) \/ ExecAnswers(s) \/ RunFails(s)
               \/ Audit(s) \/ SendError(s) \/ MarkRow(s)
      BY <2>6, <1>0 DEF ExecLooksUp, GitCommits, ExecAnswers, RunFails, Leaves,
                        Audit, SendError, MarkRow, Goto
    <2> QED BY <2>1, <2>2, <2>3, <2>4, <2>5, <2>6 DEF Acts, Private
  <1>2. ASSUME pc'["reset"] # pc["reset"], ~ ResetPops,
               pc'["reset"] \in {"remove", "clear", "clearing", "answered"}
        PROVE  pc["reset"] \in {"remove", "clear", "clearing", "answered"}
    <2>1. ResetActs
      BY <1>2, OwnMoves
    <2>2. CASE StartCast("reset") \/ EndCast("reset")
      BY <2>2, <1>0 DEF StartCast, EndCast, Ready, Casting, ResetPlaces
    <2>3. CASE ResetWork
      BY <2>3, <1>2 DEF ResetWork, ResetRemoves, ResetFails, ResetAnswered
    <2> QED BY <2>1, <2>2, <2>3 DEF ResetActs
  <1> QED BY <1>1, <1>2

(***************************************************************************)
(* A failure is noted.                                                     *)
(***************************************************************************)
LEMMA FailuresShow == ASSUME IInv, Next, Fails PROVE Notes(TRUE)
  <1>0. /\ pc \in [Casters -> ResetPlaces \cup SocketPlaces]
        /\ Sockets \subseteq Casters /\ Faults \in BOOLEAN
    BY SessionAssumption DEF IInv, Places, Casters
  <1>1. CASE ResetFails
    BY <1>1 DEF ResetFails
  <1>2. CASE Straggling
    BY <1>2 DEF Straggling, StragglerCommits
  <1>3. ASSUME NEW s \in Sockets, RunFails(s), held[s] \in alive PROVE Notes(TRUE)
    <2>1. Notes(held[s] \in alive) /\ (held[s] \in alive) = TRUE
      BY <1>3 DEF RunFails
    <2> QED BY <2>1
  <1>4. ASSUME NEW s \in Sockets, ReadGraph(s),
               graph' # [graph EXCEPT ![s] = LogOf(held[s])]
        PROVE  Notes(TRUE)
    <2>1. PICK failure \in {FALSE, Faults} :
            /\ graph' = [graph EXCEPT ![s] = IF failure THEN Empty ELSE LogOf(held[s])]
            /\ Notes(failure)
      BY <1>4 DEF ReadGraph
    <2>2. failure = TRUE
      BY <1>0, <1>4, <2>1
    <2> QED BY <2>1, <2>2
  <1>5. ASSUME NEW s \in Sockets, ExecAnswers(s), pc[s] = "ran", pc'[s] # "graph"
        PROVE  Notes(TRUE)
    <2>1. Notes(pc[s] = "ran") /\ (pc[s] = "ran") = TRUE
      BY <1>0, <1>5 DEF ExecAnswers, Leaves, Goto
    <2> QED BY <2>1
  <1> QED BY <1>1, <1>2, <1>3, <1>4, <1>5 DEF Fails

(***************************************************************************)
(* What git log gives changes with a commit, and for the room when its     *)
(* sandbox is given up; with nothing else.                                 *)
(***************************************************************************)
LEMMA TruthStays ==
  ASSUME IInv, Next, ~ ResetPops, ~ Straggling, ~ (\E s \in Sockets : GitCommits(s))
  PROVE  /\ Truth' = Truth
         /\ \A b \in {0} \cup Boxes : LogOf(b) = Truth => LogOf(b)' = Truth'
         /\ Truth # Empty => sandbox'[Room] = sandbox[Room]
  <1>0. /\ sandbox \in [{Room} -> {0} \cup Boxes] /\ last \in Nat
        /\ Boxes \subseteq Nat \ {0} /\ commits \in [Boxes -> Nat]
        /\ alive \subseteq Boxes
    BY SessionAssumption DEF IInv, TypeOK, Boxes
  <1>1. ASSUME NEW s \in Sockets, StartSandbox(s), sandbox[Room] = 0
        PROVE  /\ Truth' = Truth
               /\ \A b \in {0} \cup Boxes : LogOf(b)' = Empty
    <2>1. /\ last < MaxBoxes /\ last' = last + 1 /\ alive' = {last'}
          /\ commits' = commits
      BY <1>1 DEF StartSandbox, Pool!Allocate
    <2>2. last' \in Boxes /\ commits'[last'] = 0
      BY <2>1, <1>0, SessionAssumption DEF Boxes, IInv, Registered
    <2>3. \A b : LogOf(b)' = Empty
      BY <2>1, <2>2 DEF LogOf, Empty
    <2>4. Truth = Empty
      BY <1>1, NothingToLog
    <2> QED BY <2>3, <2>4 DEF Truth
  <1>2. ASSUME NEW s \in Sockets, StartSandbox(s), sandbox[Room] # 0
        PROVE  UNCHANGED <<sandbox, alive, commits>>
    BY <1>2 DEF StartSandbox, poolVars, repoVars
  <1>3. ASSUME ResetRemoves \/ \E s \in Sockets : StartFails(s)
        PROVE  /\ Truth' = Truth
               /\ \A b \in {0} \cup Boxes : LogOf(b) = Truth => LogOf(b)' = Truth'
               /\ sandbox' = sandbox
    <2>1. sandbox[Room] = 0 /\ Truth = Empty
      BY <1>3, NothingToLog DEF ResetRemoves, StartFails, IInv, Registered
    <2>2. alive' \subseteq alive /\ sandbox' = sandbox /\ commits' = commits
      BY <1>3 DEF ResetRemoves, StartFails, poolVars
    <2>3. \A b \in {0} \cup Boxes : LogOf(b) = Empty => LogOf(b)' = Empty
      <3> SUFFICES ASSUME NEW b \in {0} \cup Boxes, LogOf(b) = Empty
                   PROVE  LogOf(b)' = Empty
        OBVIOUS
      <3>1. CASE b \in alive' /\ commits'[b] > 0
        <4>1. b \in alive /\ commits[b] > 0
          BY <2>2, <3>1
        <4>2. LogOf(b)' = LogOf(b)
          BY <3>1, <4>1, <2>2 DEF LogOf
        <4> QED BY <4>2 DEF Empty
      <3>2. CASE ~ (b \in alive' /\ commits'[b] > 0)
        BY <3>2 DEF LogOf, Empty
      <3> QED BY <3>1, <3>2
    <2>4. Truth' = Empty
      <3>1. LogOf(0)' = Empty
        BY <2>3, NothingToLog
      <3> QED BY <3>1, <2>1, <2>2 DEF Truth
    <2> QED BY <2>1, <2>2, <2>3, <2>4
  <1>4. ASSUME UNCHANGED <<sandbox, alive, commits>>
        PROVE  /\ Truth' = Truth
               /\ \A b \in {0} \cup Boxes : LogOf(b) = Truth => LogOf(b)' = Truth'
    BY <1>4 DEF Truth, LogOf, Empty
  <1>5. CASE \E s \in Sockets : StartSandbox(s)
    <2>1. PICK s \in Sockets : StartSandbox(s)
      BY <1>5
    <2>2. CASE sandbox[Room] = 0
      <3>1. Truth = Empty
        BY <2>2, NothingToLog
      <3> QED BY <1>1, <2>1, <2>2, <3>1
    <2>3. CASE sandbox[Room] # 0
      BY <1>2, <1>4, <2>1, <2>3
    <2> QED BY <2>2, <2>3
  <1>6. CASE /\ ~ (\E s \in Sockets : StartSandbox(s) \/ StartFails(s))
             /\ ~ ResetRemoves
    <2>1. UNCHANGED <<sandbox, alive, commits>>
      BY <1>6, RepoFrame
    <2> QED BY <2>1, <1>4
  <1> QED BY <1>3, <1>5, <1>6

(***************************************************************************)
(* A new graph, or the end of the repository, that is on its way to a live *)
(* client stays so until it is sent to it, unless something fails.         *)
(***************************************************************************)
LEMMA ComingStays ==
  ASSUME IInv, Next, ~ Fails, NEW s \in Sockets, Live(s), Coming(s),
         \A d \in Sockets : pc[d] = "ran" => held[d] \in alive,
         \A c \in Casters :
           SendCast(c, s) => pc[c] \notin {"gcasting", "clearing"}
  PROVE  Coming(s)'
  <1>0. /\ pc \in [Casters -> ResetPlaces \cup SocketPlaces]
        /\ Sockets \subseteq Casters /\ "reset" \notin Sockets /\ "reset" \in Casters
        /\ graph \in [Sockets -> Graphs]
    BY SessionAssumption DEF IInv, Places, Casters, TypeOK
  <1>1. ASSUME NEW d \in Sockets,
               \/ pc[d] \in {"ran", "graph", "read"}
               \/ pc[d] \in {"event", "eventing", "gcast"} /\ graph[d] # NoGraph
               \/ pc[d] = "gcasting" /\ s \in cast[d].todo
        PROVE  \/ pc'[d] \in {"ran", "graph", "read"}
               \/ pc'[d] \in {"event", "eventing", "gcast"} /\ graph'[d] # NoGraph
               \/ pc'[d] = "gcasting" /\ s \in cast'[d].todo
    <2> DEFINE Goal == \/ pc'[d] \in {"ran", "graph", "read"}
                       \/ pc'[d] \in {"event", "eventing", "gcast"} /\ graph'[d] # NoGraph
                       \/ pc'[d] = "gcasting" /\ s \in cast'[d].todo
    <2>1. pc[d] = "gcasting" => ~ StartCast(d) /\ ~ SendCast(d, s)
      BY <1>0 DEF StartCast, Ready
    <2>2. ASSUME pc'[d] = pc[d] /\ graph'[d] = graph[d] PROVE Goal
      <3>1. pc[d] = "gcasting" /\ s \in cast[d].todo => s \in cast'[d].todo
        BY <2>1, <1>0, TodoFrame
      <3> QED BY <3>1, <2>2, <1>1
    <2>3. ASSUME StartCast(d) PROVE Goal
      <3>1. pc[d] \in {"event", "gcast"} /\ graph'[d] = graph[d] /\ graph[d] # NoGraph
        BY <2>3, <1>1 DEF StartCast, Ready, taskVars
      <3>2. s \in cast'[d].todo
        BY <2>3, <1>0, CastReaches
      <3>3. pc'[d] = IF pc[d] = "event" THEN "eventing" ELSE "gcasting"
        BY <2>3, <3>1, <1>0 DEF StartCast
      <3> QED BY <3>1, <3>2, <3>3
    <2>4. ASSUME EndCast(d) PROVE Goal
      <3>1. pc[d] # "gcasting" \/ s \notin cast[d].todo
        BY <2>1, <2>4, <1>0, TodoFrame
      <3>2. pc[d] = "eventing" /\ graph[d] # NoGraph /\ graph'[d] = graph[d]
        BY <2>4, <3>1, <1>1 DEF EndCast, Casting, taskVars
      <3>3. pc'[d] = "gcast"
        BY <2>4, <3>2, <1>0 DEF EndCast, Goto, AfterCast
      <3> QED BY <3>2, <3>3
    <2>5. ASSUME LookUp(d) PROVE Goal
      BY <2>5, <1>0, <1>1 DEF LookUp, Goto
    <2>6. ASSUME ReadGraph(d) PROVE Goal
      <3>1. /\ pc[d] = "read" /\ pc' = [pc EXCEPT ![d] = "event"]
            /\ \E g \in {Empty, LogOf(held[d])} : graph' = [graph EXCEPT ![d] = g]
        BY <2>6, <1>1 DEF ReadGraph, Goto
      <3>2. Empty # NoGraph /\ LogOf(held[d]) # NoGraph
        BY NothingToLog, <1>0
      <3> QED BY <3>1, <3>2, <1>0
    <2>7. ASSUME ExecAnswers(d) PROVE Goal
      <3>1. pc[d] = "ran"
        BY <2>7, <1>1 DEF ExecAnswers
      <3> QED BY <2>7, <3>1 DEF Fails
    <2>8. ASSUME RunFails(d) PROVE Goal
      <3>1. pc[d] = "ran"
        BY <2>8, <1>1 DEF RunFails
      <3> QED BY <2>8, <3>1 DEF Fails
    <2>9. ASSUME \/ Open(d) \/ CloseFailed(d) \/ Leave(d) \/ Persist(d)
                 \/ SendSnapshot(d) \/ Receive(d) \/ ReceiveDisconnect(d)
                 \/ StartSandbox(d) \/ StartFails(d) \/ ExecLooksUp(d)
                 \/ GitCommits(d) \/ Audit(d) \/ SendError(d) \/ MarkRow(d)
          PROVE  FALSE
      BY <2>9, <1>1
         DEF Open, CloseFailed, Leave, Persist, SendSnapshot, Receive,
             ReceiveDisconnect, StartSandbox, StartFails, ExecLooksUp,
             GitCommits, Audit, SendError, MarkRow
    <2> HIDE DEF Goal
    <2>10. Acts(d) \/ (pc'[d] = pc[d] /\ graph'[d] = graph[d])
      BY OwnMoves, Zenon
    <2>11. ASSUME Acts(d) PROVE Goal
      BY <2>3, <2>4, <2>5, <2>6, <2>7, <2>8, <2>9, <2>11 DEF Acts, Private
    <2>12. Goal
      BY <2>2, <2>10, <2>11
    <2> QED BY <2>12 DEF Goal
  <1>2. ASSUME \/ pc["reset"] \in {"remove", "clear"}
               \/ pc["reset"] = "clearing" /\ s \in cast["reset"].todo
        PROVE  \/ pc'["reset"] \in {"remove", "clear"}
               \/ pc'["reset"] = "clearing" /\ s \in cast'["reset"].todo
    <2>1. pc["reset"] = "clearing" => ~ StartCast("reset") /\ ~ SendCast("reset", s)
      BY <1>0 DEF StartCast, Ready
    <2>2. CASE pc'["reset"] = pc["reset"]
      BY <2>1, <2>2, <1>0, <1>2, TodoFrame
    <2>3. CASE StartCast("reset")
      <3>1. pc'["reset"] = "clearing"
        BY <2>3, <1>0, <1>2 DEF StartCast, Ready
      <3> QED BY <2>3, <3>1, <1>0, CastReaches
    <2>4. CASE EndCast("reset")
      BY <2>1, <2>4, <1>0, <1>2, TodoFrame DEF EndCast, Casting
    <2>5. CASE ResetWork
      BY <2>5, <1>0, <1>2
         DEF ResetWork, ResetPops, ResetRemoves, ResetAnswered, Goto, Fails
    <2> QED BY <2>2, <2>3, <2>4, <2>5, OwnMoves DEF ResetActs
  <1>3. CASE \E d \in Sockets :
               \/ pc[d] \in {"ran", "graph", "read"}
               \/ pc[d] \in {"event", "eventing", "gcast"} /\ graph[d] # NoGraph
               \/ pc[d] = "gcasting" /\ s \in cast[d].todo
    BY <1>1, <1>3 DEF Coming
  <1>4. CASE \/ pc["reset"] \in {"remove", "clear"}
             \/ pc["reset"] = "clearing" /\ s \in cast["reset"].todo
    BY <1>2, <1>4 DEF Coming
  <1> QED BY <1>3, <1>4 DEF Coming

(***************************************************************************)
(* As long as one works that nothing has crossed, it works alone, and      *)
(* nothing fails.                                                          *)
(***************************************************************************)
LEMMA Alone ==
  ASSUME IInv, WorkInv, Next, ~ crossed', NEW c \in Casters, pc'[c] \in Working
  PROVE  /\ ~ crossed /\ Knows /\ ~ Fails
         /\ \A d \in Casters \ {c} : pc'[d] \notin Working
         /\ pc[c] \in Working => \A d \in Casters \ {c} : pc[d] \notin Working
  <1>1. \A failure \in BOOLEAN : Notes(failure) =>
          /\ ~ crossed /\ ~ failure
          /\ \A d \in Casters \ {c} : pc'[d] \notin Working
    BY Zenon DEF Notes
  <1>2. ~ crossed
    BY <1>1, NotesFrame DEF IInv, noteVars, Heals
  <1>3. ~ Notes(TRUE)
    BY <1>1
  <1>4. /\ \A a, d \in Casters : a # d => ~ (pc[a] \in Working /\ pc[d] \in Working)
        /\ Knows
    BY <1>2 DEF WorkInv
  <1>5. CASE \E failure \in BOOLEAN : Notes(failure)
    BY <1>1, <1>2, <1>3, <1>4, <1>5, FailuresShow
  <1>6. CASE SameWork
    BY <1>2, <1>3, <1>4, <1>6, FailuresShow DEF SameWork
  <1>7. ASSUME NEW a \in Casters, StartCast(a), pc[a] \in {"gcast", "clear"}
        PROVE  SameWork
    <2>1. pc \in [Casters -> ResetPlaces \cup SocketPlaces]
      BY DEF IInv, Places
    <2> QED BY <1>7, <2>1 DEF StartCast, SameWork, Working, Snapping
  <1> QED BY <1>5, <1>6, <1>7, NotesFrame DEF IInv

(***************************************************************************)
(* The container and the graph that an endpoint holds change only as it    *)
(* goes on.                                                                *)
(***************************************************************************)
LEMMA HeldWhileStill ==
  ASSUME IInv, Next, NEW s \in Sockets, pc'[s] = pc[s]
  PROVE  held'[s] = held[s] /\ graph'[s] = graph[s]
  <1>0. /\ pc \in [Casters -> ResetPlaces \cup SocketPlaces]
        /\ Sockets \subseteq Casters /\ "reset" \notin Sockets
        /\ graph \in [Sockets -> Graphs] /\ held \in [Casters -> {0} \cup Boxes]
    BY SessionAssumption DEF IInv, Places, Casters, TypeOK
  <1>1. ASSUME NEW t \in Sockets, LookUp(t) \/ ExecLooksUp(t) \/ ExecAnswers(t) \/ RunFails(t)
        PROVE  held'[s] = held[s] /\ graph'[s] = graph[s]
    BY <1>0, <1>1 DEF LookUp, ExecLooksUp, ExecAnswers, RunFails, Leaves, Goto
  <1>2. ASSUME NEW t \in Sockets, SendSnapshot(t) \/ Receive(t) \/ Audit(t)
        PROVE  held'[s] = held[s] /\ graph'[s] = graph[s]
    BY <1>0, <1>2 DEF SendSnapshot, Receive, Audit, Goto
  <1>3. ASSUME NEW t \in Sockets, ReadGraph(t)
        PROVE  held'[s] = held[s] /\ graph'[s] = graph[s]
    <2>1. /\ \E l \in {"event", "loop", "snapsend"} : pc' = [pc EXCEPT ![t] = l]
          /\ \E g \in {Empty, LogOf(held[t])} : graph' = [graph EXCEPT ![t] = g]
          /\ held' = [held EXCEPT ![t] = 0]
          /\ pc[t] \in {"snap", "read"}
      BY <1>3 DEF ReadGraph, Goto
    <2> QED BY <1>0, <2>1
  <1>4. ASSUME ResetPops \/ ResetRemoves \/ ResetFails
        PROVE  held'[s] = held[s] /\ graph'[s] = graph[s]
    BY <1>0, <1>4 DEF ResetPops, ResetRemoves, ResetFails
  <1>5. ASSUME held' = held, graph' = graph
        PROVE  held'[s] = held[s] /\ graph'[s] = graph[s]
    BY <1>5
  <1> QED BY <1>1, <1>2, <1>3, <1>4, <1>5, HeldFrame, GraphFrame

(***************************************************************************)
(* Who works alone knows the repository: the graph it has read, or the     *)
(* container it asks, is that of the room.                                 *)
(***************************************************************************)
LEMMA KnowsStep ==
  ASSUME IInv, WorkInv, Next, ~ crossed'
  PROVE  Knows'
  <1>0. /\ pc \in [Casters -> ResetPlaces \cup SocketPlaces]
        /\ Sockets \subseteq Casters /\ "reset" \notin Sockets /\ "reset" \in Casters
        /\ graph \in [Sockets -> Graphs] /\ held \in [Casters -> {0} \cup Boxes]
        /\ sandbox \in [{Room} -> {0} \cup Boxes]
    BY SessionAssumption DEF IInv, Places, Casters, TypeOK
  <1>1. ASSUME NEW c \in Casters, pc'[c] \in Working
        PROVE  /\ Knows /\ ~ Fails
               /\ c # "reset" => ~ ResetPops
               /\ \A t \in Sockets : GitCommits(t) => t = c
    <2>1. /\ Knows /\ ~ Fails
          /\ \A d \in Casters \ {c} : pc'[d] \notin Working
      BY <1>1, Alone
    <2>2. ResetPops => pc'["reset"] \in Working
      BY <1>0 DEF ResetPops, Goto, Working
    <2>3. \A t \in Sockets : GitCommits(t) => pc'[t] \in Working
      BY <1>0 DEF GitCommits, Goto, Working
    <2> QED BY <1>0, <2>1, <2>2, <2>3
  <1>2. ASSUME NEW s \in Sockets, pc'[s] \in Working, pc'[s] # "ran" \/ pc[s] = pc'[s]
        PROVE  /\ Truth' = Truth
               /\ \A b \in {0} \cup Boxes : LogOf(b) = Truth => LogOf(b)' = Truth'
    <2>1. /\ ~ Fails /\ ~ ResetPops /\ \A t \in Sockets : GitCommits(t) => t = s
      BY <1>0, <1>1, <1>2
    <2>2. ~ GitCommits(s)
      BY <1>0, <1>2 DEF GitCommits, Goto
    <2> QED BY <2>1, <2>2, TruthStays DEF Fails
  <1>3. ASSUME NEW s \in Sockets, pc'[s] \in {"run", "ran"}
        PROVE  held'[s] = sandbox'[Room] /\ held'[s] # 0
    <2>1. Knows /\ ~ ResetPops
      BY <1>0, <1>1, <1>3 DEF Working
    <2>2. CASE ExecLooksUp(s)
      BY <1>0, <1>3, <2>2 DEF ExecLooksUp, Goto, poolVars
    <2>3. CASE GitCommits(s)
      BY <2>1, <2>3 DEF GitCommits, poolVars, taskVars, Knows
    <2>4. CASE pc'[s] = pc[s]
      <3>1. held'[s] = sandbox[Room] /\ held'[s] # 0
        BY <1>3, <2>1, <2>4, HeldWhileStill DEF Knows
      <3>2. \A t \in Sockets : StartSandbox(t) => sandbox' = sandbox
        BY <3>1 DEF StartSandbox, poolVars
      <3>3. sandbox' = sandbox
        BY <2>1, <3>2, RepoFrame
           DEF StartFails, GitCommits, ResetRemoves, Straggling, StragglerCommits,
               poolVars
      <3> QED BY <3>1, <3>3
    <2> QED BY <1>3, <2>2, <2>3, <2>4, WayTo
  <1>4. ASSUME NEW s \in Sockets, pc'[s] = "read"
        PROVE  LogOf(held[s])' = Truth'
    <2>1. CASE LookUp(s)
      BY <2>1, <1>0 DEF LookUp, poolVars, repoVars, Truth, LogOf, Empty
    <2>2. CASE pc'[s] = pc[s]
      <3>1. held'[s] = held[s] /\ LogOf(held[s]) = Truth /\ held[s] \in {0} \cup Boxes
        BY <1>0, <1>1, <1>4, <2>2, HeldWhileStill DEF Knows, Working
      <3>2. \A b \in {0} \cup Boxes : LogOf(b) = Truth => LogOf(b)' = Truth'
        BY <1>2, <1>4, <2>2 DEF Working
      <3> QED BY <3>1, <3>2 DEF LogOf
    <2> QED BY <1>4, <2>1, <2>2, WayTo
  <1>5. ASSUME NEW s \in Sockets, pc'[s] \in {"event", "eventing", "gcast", "gcasting"}
        PROVE  graph'[s] \in {NoGraph, Truth'}
    <2>1. Knows /\ ~ Fails /\ Truth' = Truth
      BY <1>0, <1>1, <1>2, <1>5 DEF Working
    <2>2. CASE ReadGraph(s)
      <3>1. pc[s] = "read"
        BY <1>0, <1>5, <2>2 DEF ReadGraph, Goto
      <3>2. graph'[s] = LogOf(held[s])
        BY <1>0, <2>1, <2>2 DEF Fails
      <3> QED BY <2>1, <3>1, <3>2 DEF Knows
    <2>3. CASE ExecAnswers(s)
      <3>1. pc[s] = "run" /\ graph'[s] = NoGraph
        BY <1>5, <2>1, <2>3 DEF ExecAnswers, Fails, IInv, GraphsRead
      <3> QED BY <3>1
    <2>4. CASE pc'[s] = pc[s]
      BY <1>5, <2>1, <2>4, HeldWhileStill DEF Knows
    <2>5. CASE /\ StartCast(s) \/ EndCast(s)
               /\ pc[s] \in {"event", "eventing", "gcast"}
      BY <2>1, <2>5 DEF StartCast, EndCast, taskVars, Knows
    <2> QED BY <1>5, <2>2, <2>3, <2>4, <2>5, WayTo
  <1>6. ASSUME pc'["reset"] \in {"remove", "clear", "clearing", "answered"}
        PROVE  Truth' = Empty
    <2>1. CASE ResetPops
      <3>1. sandbox'[Room] = 0 /\ alive' = alive /\ commits' = commits
        BY <2>1, <1>0 DEF ResetPops, Pool!Free, poolVars, repoVars
      <3>2. LogOf(0)' = LogOf(0)
        BY <3>1 DEF LogOf, Empty
      <3>3. Truth' = LogOf(0)'
        BY <3>1 DEF Truth
      <3> QED BY <3>2, <3>3, NothingToLog
    <2>2. CASE ~ ResetPops
      <3>1. Knows /\ ~ Fails /\ ~ (\E t \in Sockets : GitCommits(t))
        BY <1>0, <1>1, <1>6 DEF Working
      <3>2. pc["reset"] \in {"remove", "clear", "clearing", "answered"}
        BY <1>6, <2>2, WayTo
      <3> QED BY <2>2, <3>1, <3>2, TruthStays DEF Knows, Fails
    <2> QED BY <2>1, <2>2
  <1> QED BY <1>3, <1>4, <1>5, <1>6 DEF Knows

(***************************************************************************)
(* Every step keeps what a task that works alone knows.                    *)
(***************************************************************************)
LEMMA WorkStep ==
  ASSUME IInv, WorkInv, Next
  PROVE  WorkInv'
  <1>1. crossed' => disturbed'
    <2>1. ASSUME NEW failure \in BOOLEAN, Notes(failure)
          PROVE  crossed' => disturbed'
      BY <2>1, Zenon DEF Notes, WorkInv
    <2>2. CASE ~ crossed /\ Heals
      BY <2>2, Zenon DEF Heals
    <2>3. CASE UNCHANGED noteVars
      BY <2>3 DEF noteVars, WorkInv
    <2> QED BY <2>1, <2>2, <2>3, NotesFrame DEF IInv
  <1>2. ASSUME ~ crossed', NEW c \in Casters, NEW d \in Casters, c # d,
               pc'[c] \in Working, pc'[d] \in Working
        PROVE  FALSE
    BY <1>2, Alone
  <1>3. ~ crossed' => Knows'
    BY KnowsStep
  <1> QED BY <1>1, <1>2, <1>3 DEF WorkInv

(***************************************************************************)
(* Every step keeps what is known of a snapshot that nobody works beside.  *)
(***************************************************************************)
LEMMA SnapStep ==
  ASSUME IInv, SnapInv, Next
  PROVE  SnapInv'
  <1>0. /\ pc \in [Casters -> ResetPlaces \cup SocketPlaces]
        /\ Sockets \subseteq Casters /\ "reset" \notin Sockets /\ "reset" \in Casters
        /\ graph \in [Sockets -> Graphs] /\ held \in [Casters -> {0} \cup Boxes]
    BY SessionAssumption DEF IInv, Places, Casters, TypeOK
  <1>1. ASSUME NEW s \in Sockets, pc'[s] \in Snapping, s \notin late'
        PROVE  /\ s \notin late /\ ~ Fails
               /\ \A c \in Casters : pc'[c] \notin Working
    <2>1. ASSUME NEW failure \in BOOLEAN, Notes(failure)
          PROVE  /\ ~ failure /\ s \notin late
                 /\ \A c \in Casters : pc'[c] \notin Working
      BY <1>1, <2>1, Zenon DEF Notes
    <2>2. ~ Fails
      BY <2>1, FailuresShow
    <2>3. CASE UNCHANGED noteVars /\ SameWork
      <3>1. pc[s] \in Snapping /\ s \notin late
        BY <1>0, <1>1, <2>3 DEF noteVars, SameWork
      <3>2. \A c \in Casters : pc[c] \notin Working
        BY <3>1 DEF SnapInv
      <3> QED BY <2>2, <2>3, <3>1, <3>2 DEF SameWork
    <2>4. ASSUME Heals, NEW c \in Casters, StartCast(c), pc[c] \in {"gcast", "clear"}
          PROVE  FALSE
      <3>1. pc[s] \in Snapping
        BY <1>0, <1>1, <2>4 DEF StartCast, Snapping
      <3>2. s \notin late
        BY <1>1, <2>4, <3>1, Zenon DEF Heals
      <3> QED BY <2>4, <3>1, <3>2 DEF SnapInv, Working
    <2> QED BY <2>1, <2>2, <2>3, <2>4, NotesFrame DEF IInv
  <1>2. ASSUME NEW s \in Sockets, pc'[s] \in Snapping, s \notin late'
        PROVE  /\ Truth' = Truth
               /\ \A b \in {0} \cup Boxes : LogOf(b) = Truth => LogOf(b)' = Truth'
    <2>1. ~ Fails /\ \A c \in Casters : pc'[c] \notin Working
      BY <1>1, <1>2
    <2>2. ~ ResetPops
      BY <1>0, <2>1 DEF ResetPops, Goto, Working
    <2>3. ~ (\E t \in Sockets : GitCommits(t))
      BY <1>0, <2>1 DEF GitCommits, Goto, Working
    <2> QED BY <2>1, <2>2, <2>3, TruthStays DEF Fails
  <1>3. ASSUME NEW s \in Sockets, pc'[s] = "snap", s \notin late'
        PROVE  LogOf(held[s])' = Truth'
    <2>1. CASE LookUp(s)
      BY <2>1, <1>0 DEF LookUp, poolVars, repoVars, Truth, LogOf, Empty
    <2>2. CASE pc'[s] = pc[s]
      <3>1. held'[s] = held[s] /\ LogOf(held[s]) = Truth /\ held[s] \in {0} \cup Boxes
        BY <1>0, <1>1, <1>3, <2>2, HeldWhileStill DEF SnapInv, Snapping
      <3>2. \A b \in {0} \cup Boxes : LogOf(b) = Truth => LogOf(b)' = Truth'
        BY <1>2, <1>3 DEF Snapping
      <3> QED BY <3>1, <3>2 DEF LogOf
    <2> QED BY <1>3, <2>1, <2>2, WayTo
  <1>4. ASSUME NEW s \in Sockets, pc'[s] = "snapsend", s \notin late'
        PROVE  graph'[s] = Truth'
    <2>1. Truth' = Truth /\ s \notin late /\ ~ Fails
      BY <1>1, <1>2, <1>4 DEF Snapping
    <2>2. CASE ReadGraph(s)
      <3>1. pc[s] = "snap"
        BY <1>0, <1>4, <2>2 DEF ReadGraph, Goto
      <3>2. graph'[s] = LogOf(held[s])
        BY <1>0, <2>1, <2>2 DEF Fails
      <3> QED BY <2>1, <3>1, <3>2 DEF SnapInv, Snapping
    <2>3. CASE pc'[s] = pc[s]
      BY <1>4, <2>1, <2>3, HeldWhileStill DEF SnapInv, Snapping
    <2> QED BY <1>4, <2>2, <2>3, WayTo
  <1>5. ASSUME NEW s \in Sockets, pc'[s] = "snapsend"
        PROVE  graph'[s] # Empty
    <2>1. CASE ReadGraph(s)
      <3>1. \E g \in {Empty, LogOf(held[s])} :
              /\ graph' = [graph EXCEPT ![s] = g]
              /\ g = Empty => pc' # [pc EXCEPT ![s] = "snapsend"]
              /\ \E l \in {"event", "loop", "snapsend"} : pc' = [pc EXCEPT ![s] = l]
        BY <1>0, <2>1 DEF ReadGraph, Goto
      <3> QED BY <1>0, <1>5, <3>1
    <2>2. CASE pc'[s] = pc[s]
      BY <1>5, <2>2, HeldWhileStill DEF SnapInv
    <2> QED BY <1>5, <2>1, <2>2, WayTo
  <1> QED BY <1>1, <1>3, <1>4, <1>5 DEF SnapInv

(***************************************************************************)
(* What the tab of a live client, or of one on its first visit, shows      *)
(* changes when that client is sent something, or by the reset.            *)
(***************************************************************************)
LEMMA ViewFrame ==
  ASSUME IInv, NewAreUntold, TabInv, Next, NEW s \in Sockets, FirstVisit(s) \/ Live(s)
  PROVE  \/ view'[TabOf[s]] = view[TabOf[s]]
         \/ pc[s] # "new" /\ \E c \in Casters : SendCast(c, s)
         \/ pc[s] # "new" /\ SendSnapshot(s)
         \/ ResetAnswered /\ view'[TabOf[s]] = Empty
  <1>0. /\ view \in [Tabs -> Graphs \ {NoGraph}] /\ TabOf \in [Sockets -> Tabs]
        /\ Sockets \subseteq Casters
        /\ at = [t \in Sockets |-> IF pc[t] \in Outside THEN {} ELSE {Room}]
    BY SessionAssumption DEF IInv, TypeOK, Casters, Places
  <1>1. ASSUME NEW t \in Sockets \ {s}, TabOf[t] = TabOf[s], pc[t] # "new"
        PROVE  t \in gone
    <2>1. ~ FirstVisit(s)
      BY <1>1 DEF FirstVisit
    <2>2. Live(s)
      BY <2>1
    <2>3. ~ Live(t)
      BY <1>1, <2>2 DEF TabInv
    <2>4. pc[t] \in Outside \/ t \in gone
      BY <1>0, <1>1, <2>3 DEF Live
    <2>5. CASE pc[t] \in Outside
      BY <1>1, <2>5 DEF TabInv, Outside
    <2> QED BY <2>4, <2>5
  <1>2. ASSUME NEW c \in Casters, NEW t \in Sockets, SendCast(c, t)
        PROVE  \/ view'[TabOf[s]] = view[TabOf[s]]
               \/ pc[s] # "new" /\ SendCast(c, s)
    <2>1. pc[t] # "new"
      BY <1>2 DEF SendCast, Hub!Send, NewAreUntold
    <2>2. CASE t = s
      BY <1>2, <2>1, <2>2
    <2>3. CASE t # s /\ TabOf[t] = TabOf[s]
      <3>1. t \in gone
        BY <1>1, <2>1, <2>3
      <3> QED BY <1>2, <3>1 DEF SendCast, tabVars
    <2>4. CASE TabOf[t] # TabOf[s]
      BY <1>0, <1>2, <2>4 DEF SendCast, Applied, tabVars, Casting
    <2> QED BY <2>2, <2>3, <2>4
  <1>3. ASSUME NEW t \in Sockets, SendSnapshot(t)
        PROVE  \/ view'[TabOf[s]] = view[TabOf[s]]
               \/ pc[s] # "new" /\ SendSnapshot(s)
    <2>1. pc[t] # "new"
      BY <1>3 DEF SendSnapshot
    <2>2. CASE t = s
      BY <1>3, <2>1, <2>2
    <2>3. CASE t # s /\ TabOf[t] = TabOf[s]
      <3>1. t \in gone
        BY <1>1, <2>1, <2>3
      <3> QED BY <1>3, <3>1 DEF SendSnapshot
    <2>4. CASE TabOf[t] # TabOf[s]
      BY <1>0, <1>3, <2>4 DEF SendSnapshot
    <2> QED BY <2>2, <2>3, <2>4
  <1>4. ASSUME ResetAnswered
        PROVE  view'[TabOf[s]] \in {view[TabOf[s]], Empty}
    BY <1>0, <1>4 DEF ResetAnswered, tabVars
  <1> QED BY <1>2, <1>3, <1>4, TabFrame

(***************************************************************************)
(* Every step keeps the connections of a tab apart.                        *)
(***************************************************************************)
LEMMA TabStep ==
  ASSUME IInv, NewAreUntold, TabInv, Next
  PROVE  TabInv'
  <1>0. /\ pc \in [Casters -> ResetPlaces \cup SocketPlaces]
        /\ Sockets \subseteq Casters /\ "reset" \notin Sockets
        /\ \A t \in Sockets : pc[t] \in SocketPlaces
    BY SessionAssumption DEF IInv, Places, Casters
  <1>1. \A t \in Sockets : t \in gone /\ pc[t] # "new" => t \in gone'
    <2>1. ASSUME NEW c \in Casters, StartCast(c) \/ EndCast(c) PROVE gone' = gone
      BY <2>1 DEF StartCast, EndCast, hubVars, Hub!Broadcast, Hub!Finish
    <2>2. ASSUME NEW c \in Casters, NEW s \in Sockets, SendCast(c, s)
          PROVE  gone' = gone
      BY <2>2 DEF SendCast, Hub!Send
    <2>3. ASSUME NEW s \in Sockets,
                 Open(s) \/ ClientGoes(s) \/ CloseFailed(s) \/ Leave(s)
          PROVE  \A t \in Sockets : t \in gone /\ pc[t] # "new" => t \in gone'
      BY <2>3 DEF Open, ClientGoes, CloseFailed, Leave, Hub!Connect,
                  Hub!ClientGoes, Hub!Disconnect
    <2>4. ASSUME NEW s \in Sockets, Private(s) PROVE gone' = gone
      BY <2>4, PrivateMove DEF IInv, hubVars
    <2>5. ASSUME ResetWork PROVE gone' = gone
      BY <2>5, ResetMove DEF IInv, hubVars
    <2>6. ASSUME Straggling PROVE gone' = gone
      BY <2>6 DEF Straggling, StragglerCommits, hubVars
    <2> QED BY <2>1, <2>2, <2>3, <2>4, <2>5, <2>6, StepCases
  <1>2. ASSUME NEW s \in Sockets,
               pc'[s] \in {"leave", "left", "leaving", "mark", "done"}
        PROVE  s \in gone'
    <2>1. CASE pc[s] \in {"leave", "left", "leaving", "mark", "done"}
      BY <1>1, <2>1 DEF TabInv
    <2>2. CASE pc[s] \notin {"leave", "left", "leaving", "mark", "done"}
      <3>1. Acts(s)
        BY <1>2, <2>2, OwnMoves, Zenon
      <3>2. ~ StartCast(s) /\ ~ EndCast(s)
        BY <1>0, <1>2, <2>2 DEF StartCast, EndCast, Goto, AfterCast, Ready,
                                Casting, SocketPlaces, Outside
      <3>3. ASSUME Open(s) \/ Leave(s) PROVE FALSE
        BY <1>0, <1>2, <2>2, <3>3 DEF Open, Leave, Goto
      <3>4. CASE CloseFailed(s)
        BY <3>4 DEF CloseFailed
      <3>5. CASE ReceiveDisconnect(s)
        BY <1>1, <3>5 DEF ReceiveDisconnect
      <3>6. ASSUME Private(s), ~ ReceiveDisconnect(s) PROVE FALSE
        <4>1. CASE ReadGraph(s)
          <5>1. \E l \in {"event", "loop", "snapsend"} : pc' = [pc EXCEPT ![s] = l]
            BY <4>1 DEF ReadGraph, Goto
          <5> QED BY <1>0, <1>2, <5>1
        <4>2. CASE Persist(s) \/ LookUp(s) \/ SendSnapshot(s) \/ Receive(s)
                   \/ StartSandbox(s) \/ StartFails(s) \/ ExecLooksUp(s)
          BY <4>2, <1>0, <1>2 DEF Persist, LookUp, SendSnapshot, Receive,
                                  StartSandbox, StartFails, ExecLooksUp, Goto
        <4>3. CASE GitCommits(s) \/ ExecAnswers(s) \/ RunFails(s) \/ Audit(s)
                   \/ SendError(s)
          BY <4>3, <1>0, <1>2 DEF GitCommits, ExecAnswers, RunFails, Leaves,
                                  Audit, SendError, Goto
        <4>4. CASE MarkRow(s)
          BY <4>4, <2>2 DEF MarkRow
        <4> QED BY <3>6, <4>1, <4>2, <4>3, <4>4 DEF Private
      <3> QED BY <3>1, <3>2, <3>3, <3>4, <3>5, <3>6 DEF Acts
    <2> QED BY <2>1, <2>2
  <1>3. ASSUME NEW s \in Sockets, NEW w \in Sockets, s # w, TabOf[s] = TabOf[w],
               Live(s)', Live(w)'
        PROVE  FALSE
    <2>1. (Live(s) \/ Open(s)) /\ (Live(w) \/ Open(w))
      BY <1>3, NewStays
    <2>2. ~ (Live(s) /\ Live(w))
      BY <1>3 DEF TabInv
    <2>3. ~ (Open(s) /\ Live(w)) /\ ~ (Open(w) /\ Live(s))
      BY <1>3 DEF Open
    <2>4. ~ (Open(s) /\ Open(w))
      BY <1>0, <1>3 DEF Open, Goto
    <2> QED BY <2>1, <2>2, <2>3, <2>4
  <1>4. ASSUME NEW s \in Sockets, pc'[s] = "new", FirstVisit(s)'
        PROVE  view'[TabOf[s]] = Empty
    <2>1. FirstVisit(s) /\ pc[s] = "new"
      BY <1>4, NewStays
    <2>2. view[TabOf[s]] = Empty
      BY <2>1 DEF TabInv
    <2> QED BY <2>1, <2>2, ViewFrame
  <1> QED BY <1>2, <1>3, <1>4 DEF TabInv

(***************************************************************************)
(* An arriving client goes on to the snapshot, unless it finds that there  *)
(* is none to take.                                                        *)
(***************************************************************************)
LEMMA ArrivingStays ==
  ASSUME IInv, Next, NEW s \in Sockets, Arriving(s), ~ SendSnapshot(s)
  PROVE  \/ Arriving(s)'
         \/ Persist(s) /\ sandbox[Room] = 0
         \/ ReadGraph(s) /\ pc[s] = "snap" /\ pc' = [pc EXCEPT ![s] = "loop"]
  <1>0. /\ pc \in [Casters -> ResetPlaces \cup SocketPlaces]
        /\ Sockets \subseteq Casters
    BY DEF IInv, Places, Casters
  <1>1. CASE pc'[s] = pc[s] \/ pc'[s] \in {"joining", "persist"}
    BY <1>1 DEF Arriving
  <1>2. CASE Persist(s)
    BY <1>2, <1>0 DEF Persist, Goto, Arriving
  <1>3. CASE LookUp(s)
    BY <1>3, <1>0 DEF LookUp, Goto, Arriving
  <1>4. CASE ReadGraph(s)
    <2>1. pc[s] = "snap"
      BY <1>4 DEF ReadGraph, Arriving
    <2>2. \E l \in {"loop", "snapsend"} : pc' = [pc EXCEPT ![s] = l]
      BY <1>4, <2>1 DEF ReadGraph, Goto
    <2> QED BY <1>4, <2>1, <2>2, <1>0 DEF Arriving
  <1>5. \/ pc'[s] = pc[s] \/ pc'[s] \in {"joining", "persist"}
        \/ Persist(s) \/ LookUp(s) \/ ReadGraph(s)
    BY WayTo DEF Arriving
  <1> QED BY <1>1, <1>2, <1>3, <1>4, <1>5

(***************************************************************************)
(* A snapshot is sent when the container that was asked has commits, if    *)
(* the read does not fail.                                                 *)
(***************************************************************************)
LEMMA SnapshotReads ==
  ASSUME IInv, ~ Fails, NEW s \in Sockets, ReadGraph(s), pc[s] = "snap"
  PROVE  pc'[s] = IF LogOf(held[s]) = Empty THEN "loop" ELSE "snapsend"
  <1>0. /\ pc \in [Casters -> ResetPlaces \cup SocketPlaces]
        /\ Sockets \subseteq Casters /\ graph \in [Sockets -> Graphs]
    BY DEF IInv, Places, Casters, TypeOK
  <1>1. \E g \in {Empty, LogOf(held[s])} :
          /\ graph' = [graph EXCEPT ![s] = g]
          /\ pc' = [pc EXCEPT ![s] = IF g = Empty THEN "loop" ELSE "snapsend"]
    BY DEF ReadGraph, Goto
  <1>2. graph' = [graph EXCEPT ![s] = LogOf(held[s])]
    BY DEF Fails
  <1> QED BY <1>0, <1>1, <1>2

(***************************************************************************)
(* A graph that is sent to a live client, by a task that works alone, or   *)
(* as a snapshot that nobody works beside, is that of the repository.      *)
(***************************************************************************)
LEMMA SentIsTruth ==
  ASSUME IInv, SnapInv, Knows, Next, NEW s \in Sockets, Live(s)
  PROVE  /\ \A c \in Casters :
              SendCast(c, s) /\ pc[c] \in {"gcasting", "clearing"} =>
                view'[TabOf[s]] = Truth'
         /\ \A c \in Casters :
              SendCast(c, s) /\ pc[c] \notin {"gcasting", "clearing"} => view' = view
         /\ SendSnapshot(s) =>
              view'[TabOf[s]] # Empty /\ (s \notin late => view'[TabOf[s]] = Truth')
         /\ ResetAnswered => Truth' = Empty
  <1>0. /\ view \in [Tabs -> Graphs \ {NoGraph}] /\ TabOf \in [Sockets -> Tabs]
        /\ Sockets \subseteq Casters /\ s \notin gone
        /\ pc["reset"] \in ResetPlaces /\ \A t \in Sockets : pc[t] \in SocketPlaces
    BY SessionAssumption DEF IInv, TypeOK, Casters, Places, Live
  <1>1. ASSUME NEW c \in Casters, SendCast(c, s), pc[c] \in {"gcasting", "clearing"}
        PROVE  view'[TabOf[s]] = Truth'
    <2>1. Applied(c, TabOf[s]) /\ Truth' = Truth
      BY <1>0, <1>1 DEF SendCast, poolVars, repoVars, Truth, LogOf, Empty
    <2>2. CASE pc[c] = "gcasting"
      <3>1. c \in Sockets
        BY <1>0, <2>2 DEF ResetPlaces, Casters
      <3>2. graph[c] = Truth
        BY <2>2, <3>1 DEF Knows, IInv, GraphsRead
      <3>3. view' = [view EXCEPT ![TabOf[s]] = graph[c]]
        BY <2>1, <2>2 DEF Applied
      <3> QED BY <2>1, <3>2, <3>3, <1>0
    <2>3. CASE pc[c] = "clearing"
      <3>1. c = "reset"
        BY <1>0, <2>3 DEF SocketPlaces, Outside, Casters
      <3>2. Truth = Empty
        BY <2>3, <3>1 DEF Knows
      <3>3. view' = [view EXCEPT ![TabOf[s]] = Empty]
        BY <2>1, <2>3 DEF Applied
      <3> QED BY <2>1, <3>2, <3>3, <1>0
    <2> QED BY <1>1, <2>2, <2>3
  <1>2. ASSUME NEW c \in Casters, SendCast(c, s), pc[c] \notin {"gcasting", "clearing"}
        PROVE  view' = view
    BY <1>2, <1>0 DEF SendCast, Applied, Casting, tabVars
  <1>3. ASSUME SendSnapshot(s)
        PROVE  view'[TabOf[s]] # Empty /\ (s \notin late => view'[TabOf[s]] = Truth')
    <2>1. view' = [view EXCEPT ![TabOf[s]] = graph[s]] /\ pc[s] = "snapsend"
      BY <1>0, <1>3 DEF SendSnapshot
    <2>2. graph[s] # Empty /\ (s \notin late => graph[s] = Truth)
      BY <2>1 DEF SnapInv, Snapping
    <2>3. Truth' = Truth
      BY <1>3 DEF SendSnapshot, poolVars, repoVars, Truth, LogOf, Empty
    <2> QED BY <1>0, <2>1, <2>2, <2>3
  <1>4. ASSUME ResetAnswered PROVE Truth' = Empty
    <2>1. Truth = Empty
      BY <1>4 DEF ResetAnswered, Knows
    <2>2. Truth' = Truth
      BY <1>4 DEF ResetAnswered, poolVars, repoVars, Truth, LogOf, Empty
    <2> QED BY <2>1, <2>2
  <1> QED BY <1>1, <1>2, <1>3, <1>4

(***************************************************************************)
(* As long as nothing is disturbed, every step but the healing ones keeps  *)
(* the notes that were taken, and who works knows the repository.          *)
(***************************************************************************)
LEMMA Undisturbed ==
  ASSUME IInv, WorkInv, Next, ~ disturbed'
  PROVE  \/ \E c \in Casters : StartCast(c) /\ pc[c] \in {"gcast", "clear"}
         \/ ~ disturbed /\ Knows /\ ~ Fails /\ late \subseteq late'
  <1>1. ASSUME NEW failure \in BOOLEAN, Notes(failure)
        PROVE  ~ disturbed /\ ~ failure
    BY <1>1, Zenon DEF Notes
  <1>2. ASSUME NEW failure \in BOOLEAN, Notes(failure)
        PROVE  late \subseteq late'
    <2>1. late' = late \/ late' = late \cup {s \in Sockets : pc'[s] \in Snapping}
      BY <1>2, Zenon DEF Notes
    <2> QED BY <2>1
  <1>3. ~ Fails
    BY <1>1, FailuresShow
  <1>4. ~ disturbed => Knows
    BY DEF WorkInv
  <1> QED BY <1>1, <1>2, <1>3, <1>4, NotesFrame DEF IInv, noteVars

(***************************************************************************)
(* A step that shows s nothing new, and neither commits nor takes the      *)
(* sandbox away, keeps the promises to it.                                 *)
(***************************************************************************)
LEMMA PromisesStay ==
  ASSUME IInv, SnapInv, ShownInv, Knows, Next, ~ disturbed, ~ Fails,
         late \subseteq late', ~ ResetPops, ~ (\E t \in Sockets : GitCommits(t)),
         NEW s \in Sockets, Live(s), ~ SendSnapshot(s),
         view'[TabOf[s]] = view[TabOf[s]],
         \A c \in Casters :
           SendCast(c, s) => pc[c] \notin {"gcasting", "clearing"}
  PROVE  /\ s \notin late' /\ FirstVisit(s)' => ShowsTruth(s)'
         /\ s \notin late' /\ Truth' # Empty => CatchesUp(s)'
         /\ Truth' # Empty /\ Joined(s)' => ShowsSome(s)'
  <1>0. /\ pc \in [Casters -> ResetPlaces \cup SocketPlaces]
        /\ Sockets \subseteq Casters /\ held \in [Casters -> {0} \cup Boxes]
    BY DEF IInv, Places, Casters, TypeOK
  <1>1. Truth' = Truth /\ (Truth # Empty => sandbox'[Room] = sandbox[Room])
    BY TruthStays DEF Fails
  <1>2. Coming(s) => Coming(s)'
    <2>1. \A d \in Sockets : pc[d] = "ran" => held[d] \in alive
      BY DEF Knows, IInv, Registered
    <2> QED BY <2>1, ComingStays
  \* An arriving client goes on to the snapshot, or there is nothing to show.
  <1>3. ASSUME Arriving(s), s \notin late
        PROVE  Arriving(s)' \/ Truth = Empty
    <2>1. ASSUME ReadGraph(s), pc[s] = "snap", pc' = [pc EXCEPT ![s] = "loop"]
          PROVE  Truth = Empty
      <3>1. LogOf(held[s]) = Empty
        BY <2>1, <1>0, SnapshotReads
      <3> QED BY <2>1, <3>1, <1>3 DEF SnapInv, Snapping
    <2>2. Persist(s) /\ sandbox[Room] = 0 => Truth = Empty
      BY NothingToLog
    <2> QED BY <1>3, <2>1, <2>2, ArrivingStays
  <1>4. ASSUME s \notin late', FirstVisit(s)' PROVE ShowsTruth(s)'
    <2>1. FirstVisit(s) /\ s \notin late
      BY <1>4, NewStays
    <2>2. ShowsTruth(s)
      BY <2>1 DEF ShownInv
    <2>3. CASE view[TabOf[s]] = Truth
      BY <2>3, <1>1 DEF ShowsTruth
    <2>4. CASE Arriving(s) /\ view[TabOf[s]] = Empty
      BY <2>1, <2>4, <1>1, <1>3 DEF ShowsTruth
    <2>5. CASE Coming(s)
      BY <2>5, <1>2 DEF ShowsTruth
    <2> QED BY <2>2, <2>3, <2>4, <2>5 DEF ShowsTruth
  <1>5. ASSUME s \notin late', Truth' # Empty PROVE CatchesUp(s)'
    <2>1. CatchesUp(s) /\ s \notin late /\ Truth # Empty
      BY <1>1, <1>5 DEF ShownInv
    <2>2. CASE view[TabOf[s]] = Truth
      BY <2>2, <1>1 DEF CatchesUp
    <2>3. CASE Arriving(s)
      BY <2>1, <2>3, <1>3 DEF CatchesUp
    <2>4. CASE Coming(s)
      BY <2>4, <1>2 DEF CatchesUp
    <2> QED BY <2>1, <2>2, <2>3, <2>4 DEF CatchesUp
  <1>6. ASSUME Truth' # Empty, Joined(s)' PROVE ShowsSome(s)'
    <2>1. Truth # Empty /\ sandbox'[Room] = sandbox[Room]
      BY <1>1, <1>6
    <2>2. ASSUME SnapshotDue(s) PROVE SnapshotDue(s)'
      <3>1. CASE LookUp(s)
        BY <3>1, <2>1, <2>2, <1>0 DEF LookUp, Goto, SnapshotDue
      <3>2. CASE ReadGraph(s)
        <4>1. pc[s] = "snap" /\ held[s] = sandbox[Room]
          BY <3>2, <2>2 DEF ReadGraph, SnapshotDue
        <4>2. pc'[s] = "snapsend"
          BY <3>2, <4>1, <2>1, SnapshotReads DEF Truth
        <4> QED BY <4>2 DEF SnapshotDue
      <3>3. CASE pc'[s] = pc[s]
        BY <3>3, <2>1, <2>2, HeldWhileStill DEF SnapshotDue
      <3> QED BY <3>1, <3>2, <3>3, <2>2, WayTo DEF SnapshotDue
    <2>3. CASE Joined(s)
      <3>1. ShowsSome(s)
        BY <2>1, <2>3 DEF ShownInv
      <3> QED BY <3>1, <2>2, <1>2 DEF ShowsSome
    <2>4. CASE ~ Joined(s)
      <3>1. pc[s] \in {"join", "joining", "persist"} /\ pc'[s] # pc[s]
        BY <2>4, <1>6 DEF Joined
      <3>2. pc'[s] \notin {"joining", "persist"}
        BY <1>6 DEF Joined
      <3>3. Persist(s)
        BY <3>1, <3>2, WayTo
      <3>4. sandbox[Room] # 0
        BY <2>1, NothingToLog
      <3>5. pc'[s] = "look"
        BY <3>3, <3>4, <1>0 DEF Persist, Goto
      <3> QED BY <3>5 DEF ShowsSome, SnapshotDue
    <2> QED BY <2>3, <2>4
  <1> QED BY <1>4, <1>5, <1>6

(***************************************************************************)
(* Every step keeps the promises to the live clients.                      *)
(***************************************************************************)
LEMMA ShownStep ==
  ASSUME IInv, NewAreUntold, GraphInv, Next
  PROVE  ShownInv'
  <1> SUFFICES ASSUME ~ disturbed', NEW s \in Sockets, Live(s)'
               PROVE  /\ s \notin late' /\ FirstVisit(s)' => ShowsTruth(s)'
                      /\ s \notin late' /\ Truth' # Empty => CatchesUp(s)'
                      /\ Truth' # Empty /\ Joined(s)' => ShowsSome(s)'
    BY DEF ShownInv
  <1> DEFINE Promises == /\ s \notin late' /\ FirstVisit(s)' => ShowsTruth(s)'
                         /\ s \notin late' /\ Truth' # Empty => CatchesUp(s)'
                         /\ Truth' # Empty /\ Joined(s)' => ShowsSome(s)'
  <1>0. /\ pc \in [Casters -> ResetPlaces \cup SocketPlaces]
        /\ Sockets \subseteq Casters /\ "reset" \notin Sockets /\ "reset" \in Casters
        /\ WorkInv /\ SnapInv /\ TabInv /\ ShownInv
        /\ pc["reset"] \in ResetPlaces /\ \A t \in Sockets : pc[t] \in SocketPlaces
    BY SessionAssumption DEF IInv, Places, Casters, GraphInv
  <1>1. ASSUME Coming(s)' PROVE Promises
    BY <1>1 DEF ShowsTruth, CatchesUp, ShowsSome
  <1>2. ASSUME view'[TabOf[s]] = Truth' PROVE Promises
    BY <1>2 DEF ShowsTruth, CatchesUp, ShowsSome
  <1>3. ASSUME Open(s) PROVE Promises
    <2>1. pc'[s] = "join"
      BY <1>0, <1>3 DEF Open, Goto
    <2>2. Arriving(s)' /\ ~ Joined(s)'
      BY <2>1 DEF Arriving, Joined
    <2>3. FirstVisit(s)' => view'[TabOf[s]] = Empty
      BY <1>0, <1>3, NewStays DEF TabInv
    <2> QED BY <2>2, <2>3 DEF ShowsTruth, CatchesUp
  <1>4. ASSUME ~ Open(s), NEW c \in Casters, StartCast(c), pc[c] \in {"gcast", "clear"}
        PROVE  Promises
    <2>1. s \in cast'[c].todo
      BY <1>4, NewStays, CastReaches
    <2>2. /\ pc[c] = "gcast" => c \in Sockets /\ pc'[c] = "gcasting"
          /\ pc[c] = "clear" => c = "reset" /\ pc'[c] = "clearing"
      BY <1>0, <1>4 DEF StartCast, Casters, ResetPlaces, SocketPlaces, Outside
    <2>3. Coming(s)'
      BY <1>4, <2>1, <2>2 DEF Coming
    <2> QED BY <2>3, <1>1
  <1>5. ASSUME ~ Open(s), ~ disturbed, Knows, ~ Fails, late \subseteq late'
        PROVE  Promises
    <2>1. Live(s)
      BY <1>5, NewStays
    <2>2. ASSUME ResetPops \/ \E t \in Sockets : GitCommits(t) PROVE Promises
      <3>1. \/ pc'["reset"] \in {"remove", "clear"}
            \/ \E t \in Sockets : pc'[t] = "ran"
        BY <1>0, <2>2 DEF ResetPops, GitCommits, Goto
      <3>2. Coming(s)'
        BY <3>1 DEF Coming
      <3> QED BY <3>2, <1>1
    <2>3. ASSUME NEW c \in Casters, SendCast(c, s), pc[c] \in {"gcasting", "clearing"}
          PROVE  Promises
      BY <1>0, <1>2, <1>5, <2>1, <2>3, SentIsTruth
    <2>4. ASSUME SendSnapshot(s) PROVE Promises
      <3>1. view'[TabOf[s]] # Empty /\ (s \notin late' => view'[TabOf[s]] = Truth')
        BY <1>0, <1>5, <2>1, <2>4, SentIsTruth
      <3> QED BY <3>1 DEF ShowsTruth, CatchesUp, ShowsSome
    <2>5. ASSUME ResetAnswered, view'[TabOf[s]] = Empty PROVE Promises
      BY <1>0, <1>2, <1>5, <2>1, <2>5, SentIsTruth
    <2>6. ASSUME /\ ~ ResetPops /\ ~ (\E t \in Sockets : GitCommits(t))
                 /\ ~ SendSnapshot(s) /\ view'[TabOf[s]] = view[TabOf[s]]
                 /\ \A c \in Casters :
                      SendCast(c, s) => pc[c] \notin {"gcasting", "clearing"}
          PROVE  Promises
      BY <1>0, <1>5, <2>1, <2>6, PromisesStay
    <2>7. \A c \in Casters :
            SendCast(c, s) /\ pc[c] \notin {"gcasting", "clearing"} => view' = view
      BY <1>0, <1>5, <2>1, SentIsTruth
    <2>8. \/ view'[TabOf[s]] = view[TabOf[s]]
          \/ \E c \in Casters : SendCast(c, s)
          \/ SendSnapshot(s)
          \/ ResetAnswered /\ view'[TabOf[s]] = Empty
      BY <1>0, <2>1, ViewFrame
    <2> HIDE DEF Promises
    <2> QED BY <2>2, <2>3, <2>4, <2>5, <2>6, <2>7, <2>8
  <1> HIDE DEF Promises
  <1>6. Promises
    BY <1>0, <1>3, <1>4, <1>5, Undisturbed
  <1> QED BY <1>6 DEF Promises

(***************************************************************************)
(* The invariants of what the tabs show: no step leaves them.              *)
(***************************************************************************)
LEMMA GraphHolds == Spec => [](NewAreUntold /\ GraphInv)
  <1>1. Init => NewAreUntold /\ GraphInv
    <2> SUFFICES ASSUME Init PROVE NewAreUntold /\ GraphInv
      OBVIOUS
    <2>0. "reset" \notin Sockets /\ Casters = Sockets \cup {"reset"}
          /\ TabOf \in [Sockets -> Tabs]
      BY SessionAssumption DEF Casters
    <2>1. /\ \A c \in Casters : pc[c] \in {"new", "idle"} /\ cast[c].todo = {}
          /\ \A s \in Sockets : pc[s] = "new" /\ at[s] = {} /\ view[TabOf[s]] = Empty
          /\ pc["reset"] = "idle"
      BY <2>0 DEF Init, Hub!Init, Hub!NoCast
    <2>2. \A c \in Casters : pc[c] \notin Working /\ pc[c] \notin Snapping
      BY <2>1 DEF Working, Snapping
    <2>3. NewAreUntold
      BY <2>1 DEF NewAreUntold
    <2>4. ~ crossed
      BY Zenon DEF Init
    <2>5. WorkInv
      BY <2>1, <2>2, <2>4 DEF WorkInv, Knows
    <2>6. SnapInv
      BY <2>1, <2>2 DEF SnapInv, Snapping
    <2>7. TabInv /\ ShownInv
      BY <2>1 DEF TabInv, ShownInv, Live
    <2> QED BY <2>3, <2>5, <2>6, <2>7 DEF GraphInv
  <1>2. IInv /\ NewAreUntold /\ GraphInv /\ [Next]_vars => (NewAreUntold /\ GraphInv)'
    <2> SUFFICES ASSUME IInv, NewAreUntold, GraphInv, [Next]_vars
                 PROVE  NewAreUntold' /\ GraphInv'
      OBVIOUS
    <2>1. CASE Next
      BY <2>1, UntoldStep, WorkStep, SnapStep, TabStep, ShownStep DEF GraphInv
    <2>2. CASE UNCHANGED vars
      <3>1. Truth' = Truth /\ \A s \in Sockets : LogOf(held[s])' = LogOf(held[s])
        BY <2>2 DEF vars, poolVars, repoVars, taskVars, Truth, LogOf, Empty
      <3> USE <2>2 DEF vars, hubVars, poolVars, repoVars, tabVars, taskVars, noteVars
      <3>2. NewAreUntold' /\ TabInv'
        BY DEF NewAreUntold, GraphInv, TabInv, Live, FirstVisit, Empty
      <3>3. WorkInv'
        BY <3>1 DEF GraphInv, WorkInv, Knows, NoGraph, Empty
      <3>4. SnapInv'
        BY <3>1 DEF GraphInv, SnapInv, Empty
      <3>5. ShownInv'
        BY <3>1 DEF GraphInv, ShownInv, Live, FirstVisit, Joined, ShowsTruth,
                    CatchesUp, ShowsSome, Arriving, SnapshotDue, Coming, NoGraph,
                    Empty
      <3> QED BY <3>2, <3>3, <3>4, <3>5 DEF GraphInv
    <2> QED BY <2>1, <2>2
  <1> QED BY <1>1, <1>2, IInvHolds, PTL DEF Spec

(***************************************************************************)
(* A client that has joined has nothing under way to it when no command,   *)
(* join or reset is in progress.                                           *)
(***************************************************************************)
LEMMA SettledIsQuiet ==
  ASSUME Settled, NEW s \in Sockets, Joined(s)
  PROVE  ~ Coming(s) /\ ~ Arriving(s) /\ ~ SnapshotDue(s)
  <1>1. \A c \in Casters : pc[c] \notin Working /\ pc[c] \notin Snapping
    BY DEF Settled, Busy
  <1>2. ~ Coming(s)
    BY <1>1 DEF Coming, Working, Casters
  <1>3. ~ Arriving(s) /\ ~ SnapshotDue(s)
    BY <1>1 DEF Joined, Arriving, SnapshotDue, Snapping, Casters
  <1> QED BY <1>2, <1>3

(***************************************************************************)
(* Once a write command or a reset has shown its graph with no other at    *)
(* work, every client shows the graph of the repository whenever no        *)
(* command, join or reset is in progress, whatever went wrong before and   *)
(* until tasks overlap or something fails again: all but those whose       *)
(* snapshot was under way beside a command, and a tab that comes back to a *)
(* repository without commits.                                             *)
(***************************************************************************)
THEOREM QuietGraphsAgree == Spec => []UndisturbedGraphsAgree
  <1>1. GraphInv => UndisturbedGraphsAgree
    <2> SUFFICES ASSUME GraphInv, Settled, ~ disturbed, NEW s \in Sockets \ late,
                        Joined(s), FirstVisit(s) \/ Truth # Empty
                 PROVE  view[TabOf[s]] = Truth
      BY DEF UndisturbedGraphsAgree
    <2>1. ~ Coming(s) /\ ~ Arriving(s)
      BY SettledIsQuiet
    <2>2. ShowsTruth(s) \/ CatchesUp(s)
      BY DEF GraphInv, ShownInv, Joined
    <2> QED BY <2>1, <2>2 DEF ShowsTruth, CatchesUp
  <1> QED BY <1>1, GraphHolds, PTL

(***************************************************************************)
(* However joins interleave with commands and resets, a client that has    *)
(* joined, on whatever connection of its tab, is not left with an empty    *)
(* graph while the repository has commits, unless commands or resets       *)
(* overlapped or something failed since one last ran alone.                *)
(***************************************************************************)
THEOREM NobodyIsLeftBlank == Spec => []NobodyLeftBlank
  <1>1. GraphInv => NobodyLeftBlank
    <2> SUFFICES ASSUME GraphInv, Settled, ~ disturbed, Truth # Empty,
                        NEW s \in Sockets, Joined(s)
                 PROVE  view[TabOf[s]] # Empty
      BY DEF NobodyLeftBlank
    <2>1. ~ Coming(s) /\ ~ SnapshotDue(s)
      BY SettledIsQuiet
    <2>2. ShowsSome(s)
      BY DEF GraphInv, ShownInv, Joined
    <2> QED BY <2>1, <2>2 DEF ShowsSome
  <1> QED BY <1>1, GraphHolds, PTL
=============================================================================
