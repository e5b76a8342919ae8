----------------------------- MODULE RoomSession -----------------------------
(***************************************************************************)
(* One room from the browser to the repository: the WebSocket endpoint of  *)
(* backend/app/main.py with the handlers of backend/app/ws/handlers.py,    *)
(* the executor, the reset endpoint, and the store of each browser tab.    *)
(* ConnectionManager supplies the broadcasts, SandboxPool the sandboxes.   *)
(*                                                                         *)
(* A repository is the number of commits made in its container.  A client  *)
(* takes in what is sent to it at once: a socket keeps the order of its    *)
(* messages, so only the order of the sends matters.                       *)
(***************************************************************************)
EXTENDS Naturals, FiniteSets

CONSTANTS Sockets,      \* WebSocket connections, each used once
          Tabs,         \* browser tabs; a tab reconnects with a new socket
          Users,        \* guest ids; tabs of one browser share theirs
          TabOf,        \* [Sockets -> Tabs]
          UserOf,       \* [Tabs -> Users]
          Objects, NoObject,
          MaxCommands,  \* bound: commands the clients send
          MaxResets,    \* bound: calls of the reset endpoint
          MaxBoxes,     \* bound: containers made for the room
          Faults        \* whether docker calls and the database may fail

ASSUME SessionAssumption ==
  /\ TabOf \in [Sockets -> Tabs] /\ UserOf \in [Tabs -> Users]
  /\ MaxCommands \in Nat /\ MaxResets \in Nat /\ MaxBoxes \in Nat
  /\ Faults \in BOOLEAN
  /\ "reset" \notin Sockets /\ NoObject \notin Objects

VARIABLES
  rooms, members, at, gone, cast,   \* ConnectionManager
  sandbox, last,                    \* SandboxPool
  alive,     \* containers that still run
  commits,   \* container -> commits in its repository
  pc,        \* where the endpoint of a socket, or the reset call, is
  held,      \* the container a call of exec or stop has looked up
  graph,     \* the graph an endpoint has read and not yet sent
  row,       \* the Session row of a socket: "none", "open", "closed", or
             \* "lost" when the database failed to close it
  view,      \* tab -> the graph in its store
  shown,     \* tab -> the users in its store
  sent,      \* commands sent so far
  resets,    \* reset calls so far
  loose,     \* container -> timed-out commands that still run in it
  \* History, for the properties only.
  owed,      \* socket -> the container its command changed, until the audit
  disturbed, \* overlapping tasks or a failure may have left a graph wrong
  crossed,   \* ... and a task that was at work then still is
  late       \* sockets whose snapshot was on its way beside such a task

hubVars  == <<rooms, members, at, gone, cast>>
poolVars == <<sandbox, last>>
repoVars == <<alive, commits>>
tabVars  == <<view, shown>>
taskVars == <<held, graph>>
noteVars == <<disturbed, crossed, late>>
vars == <<hubVars, poolVars, repoVars, tabVars, taskVars, pc, row, sent,
          resets, loose, owed, noteVars>>

Room == "room"
Casters == Sockets \cup {"reset"}
Boxes == 1..MaxBoxes

Hub == INSTANCE ConnectionManager WITH Rooms <- {Room}
Pool == INSTANCE SandboxPool WITH Rooms <- {Room}, MaxRooms <- 1,
                                  MaxIds <- MaxBoxes

-----------------------------------------------------------------------------
(* Graphs and who is working on one.                                       *)

Empty == [box |-> 0, n |-> 0]
NoGraph == [box |-> 0, n |-> 1]
Graphs == {Empty, NoGraph} \cup [box : Boxes, n : 1..MaxCommands]

\* git log --all in a container; a repository without commits, or no
\* container to ask, gives an empty graph.
LogOf(b) ==
  IF b \in alive /\ commits[b] > 0 THEN [box |-> b, n |-> commits[b]] ELSE Empty

Truth == LogOf(sandbox[Room])

\* From the moment the repository may change to the last send; and from the
\* decision to send a snapshot to its send.
Working == {"run", "ran", "graph", "read", "event", "eventing", "gcast",
            "gcasting", "remove", "clear", "clearing", "answered"}
Snapping == {"look", "snap", "snapsend"}
Busy == Working \cup Snapping

\* Two tasks at work at once, or a failure.
Notes(failure) ==
  LET working == {c \in Casters : pc'[c] \in Working}
      trouble == failure \/ \E c, d \in working : c # d
  IN  /\ disturbed' = (disturbed \/ trouble)
      /\ crossed' = (working # {} /\ (crossed \/ trouble))
      /\ late' = IF working = {} /\ ~ failure THEN late
                 ELSE late \cup {s \in Sockets : pc'[s] \in Snapping}

\* A task that has been alone at work from its beginning starts to show its
\* graph: that makes good what was wrong before, but for the sockets a
\* snapshot may still reach afterwards.
Heals == /\ disturbed' = FALSE
         /\ late' = {s \in late : pc[s] \in Snapping}
         /\ UNCHANGED crossed

\* A handler goes on to its broadcast without an await, and the lock of a
\* RoomState is never found taken: no other task runs in between.
Ready == {"join", "event", "gcast", "left", "clear"}
Awaiting == \A c \in Casters : pc[c] \notin Ready

Goto(c, l) == Awaiting /\ pc' = [pc EXCEPT ![c] = l]

\* SandboxManager._lock: stop holds it until the container is removed.
LockFree == pc["reset"] # "remove"

-----------------------------------------------------------------------------
(* Broadcasts: the message is the one the caster's step is about.          *)

Casting == {"joining", "eventing", "gcasting", "leaving", "clearing"}

\* Mutants of AfterCast: a graph is sent whether there is one or not; it is
\* never sent; the audit is left out.
AfterCastAnyGraph(c) ==
  CASE pc[c] = "joining"  -> "persist"
    [] pc[c] = "eventing" -> "gcast"
    [] pc[c] = "gcasting" -> "audit"
    [] pc[c] = "leaving"  -> "mark"
    [] pc[c] = "clearing" -> "answered"

AfterCastNoGraph(c) ==
  CASE pc[c] = "joining"  -> "persist"
    [] pc[c] = "eventing" -> "audit"
    [] pc[c] = "leaving"  -> "mark"
    [] pc[c] = "clearing" -> "answered"

AfterCastNoAudit(c) ==
  CASE pc[c] = "joining"  -> "persist"
    [] pc[c] = "eventing" -> IF graph[c] = NoGraph THEN "loop" ELSE "gcast"
    [] pc[c] = "gcasting" -> "loop"
    [] pc[c] = "leaving"  -> "mark"
    [] pc[c] = "clearing" -> "answered"

AfterCast(c) ==
  CASE pc[c] = "joining"  -> "persist"
    [] pc[c] = "eventing" -> IF graph[c] = NoGraph THEN "audit" ELSE "gcast"
    [] pc[c] = "gcasting" -> "audit"
    [] pc[c] = "leaving"  -> "mark"
    [] pc[c] = "clearing" -> "answered"

\* connection_manager.broadcast; without a RoomState it returns at once.
StartCast(c) ==
  LET during == CASE pc[c] = "join"  -> "joining"
                  [] pc[c] = "event" -> "eventing"
                  [] pc[c] = "gcast" -> "gcasting"
                  [] pc[c] = "left"  -> "leaving"
                  [] pc[c] = "clear" -> "clearing"
  IN  /\ pc[c] \in Ready
      /\ pc' = [pc EXCEPT ![c] = during]
      /\ IF rooms[Room] = NoObject THEN UNCHANGED hubVars
                                   ELSE Hub!Broadcast(c, Room)
      /\ IF pc[c] \in {"gcast", "clear"} /\ ~ crossed THEN Heals ELSE Notes(FALSE)
      /\ UNCHANGED <<poolVars, repoVars, tabVars, taskVars, row, sent, resets,
                     loose, owed>>

\* gitStore.applyMessage in the tab that receives what c broadcasts.
Applied(c, tab) ==
  CASE pc[c] = "joining"  ->
         /\ shown' = [shown EXCEPT ![tab] = @ \cup {UserOf[TabOf[c]]}]
         /\ UNCHANGED view
    [] pc[c] = "leaving"  ->
         /\ shown' = [shown EXCEPT ![tab] = @ \ {UserOf[TabOf[c]]}]
         /\ UNCHANGED view
    [] pc[c] = "gcasting" -> view' = [view EXCEPT ![tab] = graph[c]] /\ UNCHANGED shown
    [] pc[c] = "clearing" -> view' = [view EXCEPT ![tab] = Empty] /\ UNCHANGED shown
    [] pc[c] = "eventing" -> UNCHANGED tabVars

SendCast(c, s) ==
  /\ pc[c] \in Casting /\ Awaiting
  /\ Hub!Send(c, s)
  /\ IF s \in gone THEN UNCHANGED tabVars ELSE Applied(c, TabOf[s])
  /\ UNCHANGED <<poolVars, repoVars, taskVars, pc, row, sent, resets, loose,
                 owed, noteVars>>

EndCast(c) ==
  /\ pc[c] \in Casting
  /\ IF Hub!Casting(c) THEN Hub!Finish(c) ELSE UNCHANGED hubVars
  /\ Goto(c, AfterCast(c))
  /\ Notes(FALSE)
  /\ UNCHANGED <<poolVars, repoVars, tabVars, taskVars, row, sent, resets,
                 loose, owed>>

-----------------------------------------------------------------------------
(* The client.                                                             *)

Live(s) == at[s] # {} /\ s \notin gone

\* A socket with a valid token is accepted and connected; the tab has given
\* up its earlier one.
Open(s) ==
  /\ pc[s] = "new"
  /\ \A u \in Sockets : TabOf[u] = TabOf[s] => ~ Live(u)
  /\ Hub!Connect(s, Room)
  /\ Goto(s, "join")
  /\ UNCHANGED <<poolVars, repoVars, tabVars, taskVars, row, sent, resets,
                 loose, owed, noteVars>>

ClientGoes(s) ==
  /\ Awaiting
  /\ Hub!ClientGoes(s)
  /\ UNCHANGED <<poolVars, repoVars, tabVars, taskVars, pc, row, sent, resets,
                 loose, owed, noteVars>>

-----------------------------------------------------------------------------
(* on_user_joined                                                          *)

\* Mutant of Persist: no snapshot for whoever joins.
PersistOnly(s) ==
  /\ pc[s] = "persist"
  /\ row' = [row EXCEPT ![s] = "open"]
  /\ Goto(s, "loop")
  /\ Notes(FALSE)
  /\ UNCHANGED <<hubVars, poolVars, repoVars, tabVars, taskVars, sent, resets,
                 loose, owed>>

\* The Session row is best effort; then the snapshot, if there is a sandbox.
Persist(s) ==
  /\ pc[s] = "persist"
  /\ \/ row' = [row EXCEPT ![s] = "open"]
     \/ Faults /\ UNCHANGED row
  /\ Goto(s, IF sandbox[Room] = 0 THEN "loop" ELSE "look")
  /\ Notes(FALSE)
  /\ UNCHANGED <<hubVars, poolVars, repoVars, tabVars, taskVars, sent, resets,
                 loose, owed>>

\* snapshot_graph's exec looks the container up (here and after a command).
LookUp(s) ==
  /\ pc[s] \in {"look", "graph"} /\ LockFree
  /\ held' = [held EXCEPT ![s] = sandbox[Room]]
  /\ Goto(s, IF pc[s] = "look" THEN "snap" ELSE "read")
  /\ Notes(FALSE)
  /\ UNCHANGED <<hubVars, poolVars, repoVars, tabVars, graph, row, sent, resets,
                 loose, owed>>

\* Its exec is answered; any failure makes the graph empty.
ReadGraph(s) ==
  /\ pc[s] \in {"snap", "read"}
  /\ \E failure \in {FALSE, Faults} :
       LET read == IF failure THEN Empty ELSE LogOf(held[s])
       IN  /\ graph' = [graph EXCEPT ![s] = read]
           /\ Goto(s, IF pc[s] = "read" THEN "event"
                      ELSE IF read = Empty THEN "loop" ELSE "snapsend")
           /\ Notes(failure)
  /\ held' = [held EXCEPT ![s] = 0]
  /\ UNCHANGED <<hubVars, poolVars, repoVars, tabVars, row, sent, resets, loose,
                 owed>>

\* The private GRAPH_UPDATE; a failed send is only logged.
SendSnapshot(s) ==
  /\ pc[s] = "snapsend"
  /\ view' = IF s \in gone THEN view ELSE [view EXCEPT ![TabOf[s]] = graph[s]]
  /\ graph' = [graph EXCEPT ![s] = NoGraph]
  /\ Goto(s, "loop")
  /\ UNCHANGED <<hubVars, poolVars, repoVars, shown, held, row, sent, resets,
                 loose, owed, noteVars>>

-----------------------------------------------------------------------------
(* The receive loop and on_git_command.                                    *)

\* A message; it may have been sent before the client went.  An unknown one,
\* and a command over the rate limit, are answered with an ERROR; what is no
\* JSON, or has a payload that is no object, raises into the endpoint.  JSON
\* that is no object is passed over: no step.
Receive(s) ==
  /\ pc[s] = "loop" /\ sent < MaxCommands
  /\ sent' = sent + 1
  /\ graph' = [graph EXCEPT ![s] = NoGraph]
  /\ \E l \in {"start", "error", "failed"} : Goto(s, l)
  /\ UNCHANGED <<hubVars, poolVars, repoVars, tabVars, held, row, resets, loose,
                 owed, noteVars>>

ReceiveDisconnect(s) ==
  /\ pc[s] = "loop" /\ s \in gone
  /\ Goto(s, "leave")
  /\ UNCHANGED <<hubVars, poolVars, repoVars, tabVars, taskVars, row, sent,
                 resets, loose, owed, noteVars>>

\* sandbox_manager.start, then the executor's validation, which needs no
\* await: a sandbox is started even for a command that is then refused.
StartSandbox(s) ==
  /\ pc[s] = "start" /\ LockFree
  /\ IF sandbox[Room] # 0
       THEN UNCHANGED <<poolVars, repoVars>>
       ELSE /\ Pool!Allocate(Room)
            /\ alive' = {last'}   \* what bore the room's name is removed
            /\ UNCHANGED commits
  /\ \E l \in {"exec", "error"} : Goto(s, l)
  /\ UNCHANGED <<hubVars, tabVars, taskVars, row, sent, resets, loose, owed,
                 noteVars>>

\* SandboxError is answered with an ERROR; anything else ends the endpoint.
\* What bore the room's name may have been removed before the failure.
StartFails(s) ==
  /\ Faults /\ pc[s] = "start" /\ LockFree
  /\ sandbox[Room] = 0
  /\ alive' \in {alive, {}}
  /\ \E l \in {"error", "failed"} : Goto(s, l)
  /\ UNCHANGED <<hubVars, poolVars, commits, tabVars, taskVars, row, sent,
                 resets, loose, owed, noteVars>>

ExecLooksUp(s) ==
  /\ pc[s] = "exec" /\ LockFree
  /\ held' = [held EXCEPT ![s] = sandbox[Room]]
  /\ Goto(s, IF sandbox[Room] = 0 THEN "error" ELSE "run")
  /\ Notes(FALSE)
  /\ UNCHANGED <<hubVars, poolVars, repoVars, tabVars, graph, row, sent, resets,
                 loose, owed>>

\* git in container b moves a ref.
Commits(b) == commits' = [commits EXCEPT ![b] = @ + 1] /\ UNCHANGED alive

Leaves(s, l) == Goto(s, l) /\ held' = [held EXCEPT ![s] = 0]

\* The command changes the repository; exec has yet to answer.
GitCommits(s) ==
  /\ pc[s] = "run" /\ held[s] \in alive
  /\ Commits(held[s])
  /\ owed' = [owed EXCEPT ![s] = held[s]]
  /\ Goto(s, "ran")
  /\ Notes(FALSE)
  /\ UNCHANGED <<hubVars, poolVars, tabVars, taskVars, row, sent, resets,
                 loose>>

\* exec answers.  After a write command that succeeded, also one that changed
\* nothing, run() goes on to read the graph; after a read-only one, and after
\* one with an exit code, whatever it did, it does not.
ExecAnswers(s) ==
  /\ pc[s] \in {"run", "ran"}
  /\ \/ Leaves(s, "graph") /\ Notes(FALSE)
     \/ Leaves(s, "event") /\ Notes(pc[s] = "ran")
  /\ UNCHANGED <<hubVars, poolVars, repoVars, tabVars, graph, row, sent, resets,
                 loose, owed>>

\* The container is gone, or exec fails; a command that timed out goes on.
RunFails(s) ==
  /\ pc[s] \in {"run", "ran"}
  /\ held[s] \notin alive \/ Faults
  /\ \/ Leaves(s, "error")
     \/ Faults /\ Leaves(s, "failed")
  /\ \/ UNCHANGED loose
     \/ /\ Faults /\ pc[s] = "run" /\ held[s] \in alive
        /\ loose' = [loose EXCEPT ![held[s]] = @ + 1]
  /\ Notes(held[s] \in alive)
  /\ UNCHANGED <<hubVars, poolVars, repoVars, tabVars, graph, row, sent, resets,
                 owed>>

\* What timed out changes the repository after all.
StragglerCommits(b) ==
  /\ Awaiting
  /\ loose[b] > 0 /\ b \in alive
  /\ Commits(b)
  /\ loose' = [loose EXCEPT ![b] = @ - 1]
  /\ UNCHANGED <<hubVars, poolVars, tabVars, taskVars, pc, row, sent, resets,
                 owed>>
  /\ Notes(TRUE)

\* log_command, best effort: a database that is down is not held against it.
Audit(s) ==
  /\ pc[s] = "audit"
  /\ owed' = [owed EXCEPT ![s] = 0]
  /\ graph' = [graph EXCEPT ![s] = NoGraph]
  /\ Goto(s, "loop")
  /\ UNCHANGED <<hubVars, poolVars, repoVars, tabVars, held, row, sent, resets,
                 loose, noteVars>>

\* _send_error; over a broken connection it raises into the endpoint.
SendError(s) ==
  /\ pc[s] = "error"
  /\ \/ Goto(s, "loop")
     \/ s \in gone /\ Goto(s, "failed")
  /\ UNCHANGED <<hubVars, poolVars, repoVars, tabVars, taskVars, row, sent,
                 resets, loose, owed, noteVars>>

-----------------------------------------------------------------------------
(* The end of an endpoint.                                                 *)

\* "except Exception": close(1011), and on to "finally".
CloseFailed(s) ==
  /\ pc[s] = "failed"
  /\ gone' = gone \cup {s}
  /\ Goto(s, "leave")
  /\ UNCHANGED <<rooms, members, at, cast, poolVars, repoVars, tabVars,
                 taskVars, row, sent, resets, loose, owed, noteVars>>

\* Mutant of Leave: nobody is told.
LeaveSilently(s) ==
  /\ pc[s] = "leave"
  /\ Hub!Disconnect(s, Room)
  /\ Goto(s, "mark")
  /\ UNCHANGED <<poolVars, repoVars, tabVars, taskVars, row, sent, resets,
                 loose, owed, noteVars>>

Leave(s) ==
  /\ pc[s] = "leave"
  /\ Hub!Disconnect(s, Room)
  /\ Goto(s, "left")
  /\ UNCHANGED <<poolVars, repoVars, tabVars, taskVars, row, sent, resets,
                 loose, owed, noteVars>>

\* Mutant of MarkRow: the update is never committed.
MarkNothing(s) ==
  /\ pc[s] = "mark"
  /\ Goto(s, "done")
  /\ UNCHANGED <<hubVars, poolVars, repoVars, tabVars, taskVars, row, sent,
                 resets, loose, owed, noteVars>>

\* mark_session_disconnected, best effort, when there is a row.
MarkRow(s) ==
  /\ pc[s] = "mark"
  /\ IF row[s] = "open"
       THEN \E end \in {"closed"} \cup (IF Faults THEN {"lost"} ELSE {}) :
              row' = [row EXCEPT ![s] = end]
       ELSE UNCHANGED row
  /\ Goto(s, "done")
  /\ UNCHANGED <<hubVars, poolVars, repoVars, tabVars, taskVars, sent, resets,
                 loose, owed, noteVars>>

-----------------------------------------------------------------------------
(* reset_sandbox                                                           *)

\* stop pops the registry entry ...
ResetPops ==
  /\ pc["reset"] = "idle" /\ resets < MaxResets
  /\ resets' = resets + 1
  /\ IF sandbox[Room] = 0 THEN UNCHANGED poolVars ELSE Pool!Free(Room)
  /\ held' = [held EXCEPT !["reset"] = sandbox[Room]]
  /\ Goto("reset", IF sandbox[Room] = 0 THEN "clear" ELSE "remove")
  /\ Notes(FALSE)
  /\ UNCHANGED <<hubVars, repoVars, tabVars, graph, row, sent, loose, owed>>

\* Mutant of ResetRemoves: the clients are not told.
ResetRemovesSilently ==
  /\ pc["reset"] = "remove"
  /\ alive' = alive \ {held["reset"]}
  /\ held' = [held EXCEPT !["reset"] = 0]
  /\ Goto("reset", "idle")
  /\ Notes(FALSE)
  /\ UNCHANGED <<hubVars, poolVars, commits, tabVars, graph, row, sent, resets,
                 loose, owed>>

\* ... and removes the container, or leaves it behind and says nothing.
ResetRemoves ==
  /\ pc["reset"] = "remove"
  /\ \/ alive' = alive \ {held["reset"]}
     \/ Faults /\ UNCHANGED alive
  /\ held' = [held EXCEPT !["reset"] = 0]
  /\ Goto("reset", "clear")
  /\ Notes(FALSE)
  /\ UNCHANGED <<hubVars, poolVars, commits, tabVars, graph, row, sent, resets,
                 loose, owed>>

\* stop fails (502, or 500): nobody is told, though the entry is gone.
ResetFails ==
  /\ Faults /\ pc["reset"] = "remove"
  /\ held' = [held EXCEPT !["reset"] = 0]
  /\ Goto("reset", "idle")
  /\ Notes(TRUE)
  /\ UNCHANGED <<hubVars, poolVars, repoVars, tabVars, graph, row, sent, resets,
                 loose, owed>>

\* The 204 reaches the tab that asked, whose handleReset clears its store;
\* the endpoint may also have been called from elsewhere.
ResetAnswered ==
  /\ pc["reset"] = "answered"
  /\ \/ UNCHANGED tabVars
     \/ \E t \in Tabs : /\ view' = [view EXCEPT ![t] = Empty]
                       /\ shown' = [shown EXCEPT ![t] = {}]
  /\ Goto("reset", "idle")
  /\ Notes(FALSE)
  /\ UNCHANGED <<hubVars, poolVars, repoVars, taskVars, row, sent, resets,
                 loose, owed>>

-----------------------------------------------------------------------------
Init ==
  /\ Hub!Init /\ Pool!Init
  /\ alive = {} /\ commits = [b \in Boxes |-> 0]
  /\ pc = [c \in Casters |-> IF c = "reset" THEN "idle" ELSE "new"]
  /\ held = [c \in Casters |-> 0]
  /\ graph = [s \in Sockets |-> NoGraph]
  /\ row = [s \in Sockets |-> "none"]
  /\ view = [t \in Tabs |-> Empty]
  /\ shown = [t \in Tabs |-> {}]
  /\ sent = 0 /\ resets = 0 /\ loose = [b \in Boxes |-> 0]
  /\ owed = [s \in Sockets |-> 0]
  /\ disturbed = FALSE /\ crossed = FALSE /\ late = {}

Sending(c) == EndCast(c) \/ \E s \in Sockets : SendCast(c, s)

\* What an endpoint does by itself.
Endpoint(s) ==
  \/ Sending(s) \/ Persist(s) \/ LookUp(s) \/ ReadGraph(s) \/ SendSnapshot(s)
  \/ ReceiveDisconnect(s) \/ StartSandbox(s) \/ StartFails(s) \/ ExecLooksUp(s)
  \/ GitCommits(s) \/ ExecAnswers(s) \/ RunFails(s) \/ Audit(s)
  \/ SendError(s) \/ CloseFailed(s) \/ Leave(s) \/ MarkRow(s)

ResetStep ==
  Sending("reset") \/ ResetRemoves \/ ResetFails \/ ResetAnswered

Next ==
  \/ \E c \in Casters : StartCast(c)
  \/ \E s \in Sockets : Open(s) \/ ClientGoes(s) \/ Receive(s) \/ Endpoint(s)
  \/ ResetPops \/ ResetStep
  \/ \E b \in Boxes : StragglerCommits(b)

Spec == Init /\ [][Next]_vars

\* Every await ends: docker and database calls answer or time out.
Fairness ==
  /\ \A c \in Casters : WF_vars(StartCast(c))
  /\ \A s \in Sockets : WF_vars(Endpoint(s))
  /\ WF_vars(ResetStep)

FairSpec == Spec /\ Fairness

-----------------------------------------------------------------------------
TypeOK ==
  /\ Hub!TypeOK
  /\ sandbox \in [{Room} -> {0} \cup Boxes] /\ last \in {0} \cup Boxes
  /\ alive \subseteq Boxes /\ commits \in [Boxes -> 0..MaxCommands]
  /\ pc \in [Casters -> Busy \cup Casting \cup
       {"new", "join", "persist", "loop", "start", "exec", "audit", "error",
        "failed", "leave", "left", "mark", "done", "idle"}]
  /\ held \in [Casters -> {0} \cup Boxes]
  /\ graph \in [Sockets -> Graphs]
  /\ row \in [Sockets -> {"none", "open", "closed", "lost"}]
  /\ view \in [Tabs -> Graphs \ {NoGraph}]
  /\ shown \in [Tabs -> SUBSET Users]
  /\ sent \in 0..MaxCommands /\ resets \in 0..MaxResets
  /\ loose \in [Boxes -> 0..MaxCommands]
  /\ owed \in [Sockets -> {0} \cup Boxes]
  /\ disturbed \in BOOLEAN /\ crossed \in BOOLEAN /\ late \subseteq Sockets

Settled == \A c \in Casters : pc[c] \notin Busy

\* A connected client whose on_user_joined is over.
Joined(s) == Live(s) /\ pc[s] \notin {"join", "joining", "persist"}

\* The tab had no connection before this one.
FirstVisit(s) ==
  \A u \in Sockets \ {s} : TabOf[u] = TabOf[s] => pc[u] = "new"

(***************************************************************************)
(* Graphs that overlapping commands, failures or a failed reset have left  *)
(* wrong do not stay wrong: once a write command or a reset has run with   *)
(* no other beside it, every client shows the graph of the room's          *)
(* repository whenever no command, join or reset is in progress, until     *)
(* commands overlap or something fails again.  Not so who got a snapshot   *)
(* while a command was at work, and a tab that comes back to a repository  *)
(* without commits.                                                        *)
(***************************************************************************)
UndisturbedGraphsAgree ==
  Settled /\ ~ disturbed =>
    \A s \in Sockets \ late :
      Joined(s) /\ (FirstVisit(s) \/ Truth # Empty) => view[TabOf[s]] = Truth

(***************************************************************************)
(* However joins interleave with commands and resets, nobody is left with  *)
(* an empty graph while the repository has commits, unless two commands or *)
(* resets overlapped or something failed since one last ran alone: who     *)
(* joins too late for a broadcast still gets the snapshot.                 *)
(***************************************************************************)
NobodyLeftBlank ==
  Settled /\ ~ disturbed /\ Truth # Empty =>
    \A s \in Sockets : Joined(s) => view[TabOf[s]] # Empty

(***************************************************************************)
(* Without failures, a command that changed the repository is in the audit *)
(* log before its endpoint reads the next message or ends, also when its   *)
(* client has gone meanwhile; unless a reset removed the container, and    *)
(* with it the repository.                                                 *)
(***************************************************************************)
AppliedIsAudited ==
  ~ Faults => \A s \in Sockets :
                owed[s] \in alive => pc[s] \notin {"loop", "leave", "done"}

(***************************************************************************)
(* When no arrival or departure is being announced, a client on its first  *)
(* connection lists nobody who is not connected, whatever tabs and         *)
(* connections a user has had.                                             *)
(***************************************************************************)
NoGhosts ==
  (\A s \in Sockets : pc[s] \notin {"join", "joining", "left", "leaving"}) =>
    \A s \in Sockets :
      Joined(s) /\ FirstVisit(s) =>
        shown[TabOf[s]] \subseteq {UserOf[TabOf[u]] : u \in {v \in Sockets : at[v] # {}}}

(***************************************************************************)
(* An endpoint whose client has gone comes to its end, whatever it is      *)
(* doing and whatever fails meanwhile, and has then tried to close the     *)
(* Session row it opened.                                                  *)
(***************************************************************************)
LeaversAreForgotten ==
  \A s \in Sockets : s \in gone ~> pc[s] = "done" /\ row[s] # "open"

-----------------------------------------------------------------------------
(* What the documentation says and the code does not do.                   *)

\* README.md:30: every commit is shown at once.  When all is quiet, every
\* client shows the repository's graph.
GraphsAgree ==
  Settled => \A s \in Sockets :
               Joined(s) /\ FirstVisit(s) => view[TabOf[s]] = Truth
=============================================================================
