# git-trainer: models, checks and proofs

git-trainer is a web application in which students share a room. A room has one
git repository in a docker container (its *sandbox*). Whoever is in the room types
git commands into a terminal in the browser, and all browsers show the commit
graph. This directory holds TLA+ models of that system, the TLC configurations
that check them, and proofs for TLAPS. Every definition is translated from the
source; `PROJECT.json` ("map") gives the lines it stands for.

## 1. The system

### Parts, state and operations

| Part | Source | State | Operations |
|---|---|---|---|
| SandboxManager | `backend/app/docker/sandbox.py` | registry room → container, one lock for all rooms, lazy docker client | `start` (with the adoption of a taken name), `stop`, `exec`, `memory_usage`, `cleanup_orphans` |
| Process | `backend/app/main.py`, `lifespan` | starting, cleaning up, serving | startup, shutdown, crash |
| ConnectionManager | `backend/app/ws/manager.py` | room → `RoomState` (its connections) | `connect`, `disconnect`, `broadcast` |
| WebSocket endpoint, handlers | `main.py`, `ws/handlers.py` | one coroutine per connection | join, snapshot, command, leave, error |
| GitCommandExecutor | `git/executor.py` | none | whitelist, `run`, `snapshot_graph` |
| Reset endpoint | `api/rooms.py` | none | stop the sandbox, broadcast an empty graph |
| RateLimiter | `ratelimit.py` | deque of times per (room, user) | `allow`, `reset` |
| Session tokens | `auth.py` | none (signed, with an expiry) | `create_token`, `verify_token` |
| Persistence | `db/`, `models/db.py` | users, rooms, sessions, command log | join and leave transactions, audit entries; best effort, from the handlers |
| Reconnecting WebSocket | `frontend/src/hooks/useWebSocket.ts` | socket, timer, queue of unsent messages, state | connect, reconnect, send |
| Room component | `components/Room.tsx` | token of the session, store reset | change of room or name, commands, reset button |
| gitStore | `store/gitStore.ts` | graph, events, users of a tab | `applyMessage`, `reset` |
| Terminal | `components/Terminal.tsx` | line, cursor, history, number of events printed | keys, paste, printing of events |
| Metrics | `metrics.py` | counters, ring of the latest latencies | `record`, `snapshot`, `reset` |
| Git log parser | `git/parser.py` | none | `parse_graph` |
| Graph layout | `components/GitGraph.tsx` | none | `computeLayout` |

### How they interact

A browser tab asks for a token, opens a WebSocket with it and sends commands over
it. The endpoint of the connection runs the handlers; each command starts the
sandbox when there is none, is executed in it by the executor through
`SandboxManager.exec`, and is answered by broadcasts of the ConnectionManager:
first `GIT_EVENT`, then, when the command changed the repository, `GRAPH_UPDATE`.
The graph is the text of `git log --all`, parsed by the backend into nodes with a
branch label each, and laid out in lanes by the tab. Joins and departures are
broadcast as well. The reset endpoint is an ordinary HTTP
call that runs beside the WebSocket tasks, and uses the same two singletons. In
the tab every message goes through `gitStore`, which the graph and the terminal
render.

The backend is one asyncio process: a task runs alone between two awaits, so the
models take the code between two awaits as one step. Every docker call is an
await (`asyncio.to_thread`), as is every send to a client and every database
session. No state of the backend survives a restart except the containers and
the database.

### What is hard in it

- Tasks interleave at every await. The registry is read, then docker is asked for
  seconds, then the registry is written; a broadcast holds a `RoomState` over many
  sends while joins and departures change the table.
- Graphs are read and broadcast by independent tasks without an order between
  them; a join reads one too; a reset removes the container under all of them.
- Docker may fail at every call, in a way the code wraps (`SandboxError`) or not;
  a command that timed out goes on in the container; a container may die.
- The process may be restarted with containers running, and with a creation on its
  way to the daemon.
- A tab changes its room or name while a token request, a socket and a
  reconnection timer of the old one are pending; tokens expire.
- The graph is read only after commands that may have changed it; what the log
  says, and in which order, depends on refs, HEAD, tags, the stash and on the dates
  of commits.
- The terminal prints events that others cause while the student types.
- Students open a new room together: their join transactions find nothing, insert
  the same unique keys, wait for each other, and some are refused.

`PROJECT.json` lists these hazards with the lines where they bite.

### What makes each part correct

- SandboxManager: never more than `max_rooms` sandboxes; one sandbox per room and
  none shared; whatever is removed by force is in nobody's use; leftovers of an
  earlier process or a failed stop never get in the way; the lock is always given
  back.
- ConnectionManager: who is connected is reached by the next broadcast, who left
  is not; empty rooms disappear.
- Handlers: everybody sees the repository's graph; late joiners too; what changed
  the repository is audited; who leaves is forgotten.
- Persistence: references stay whole, a Session row is open while its connection is
  there, and a join is refused only in favour of one that succeeded.
- RateLimiter: at most `max_events` in any window, and no refusal without cause.
- Metrics: the statistics are those of the latest executions.
- Parser and layout: the graph on screen has the commits, edges and labels of the
  repository as it is now; one branch, one lane.
- Tab: one connection, to the room on screen; nothing typed is executed twice, or
  lost while there is a way to send it.
- Terminal: what is on the line is what will be sent.

## 2. Modules

| Module | Models | Composes |
|---|---|---|
| `SandboxPool` | what the manager promises: a room has a sandbox or none, never more than `max_rooms`, never one used before | |
| `SandboxManager` | `sandbox.py`, its callers as tasks, the docker daemon, restarts | refines `SandboxPool` |
| `SandboxManager_proof` | theorems | extends `SandboxManager` |
| `ConnectionManager` | `manager.py` with the sockets it knows | |
| `ConnectionManager_proof` | theorems | extends `ConnectionManager` |
| `RoomSession` | endpoint, handlers, executor, reset endpoint and the stores of the tabs, for one room | instances of `ConnectionManager` and `SandboxPool` |
| `MCRoomSession` | who uses which tab and connection; symmetry | extends `RoomSession` |
| `RoomSession_proof` | theorems | extends `RoomSession`, an instance of `ConnectionManager_proof` |
| `RateLimiter` | `ratelimit.py` | |
| `Metrics` | `metrics.py` | |
| `CommandIntake` | the part of `on_git_command` and of `run` that limits and measures, for concurrent students | extends `RateLimiter` and `Metrics` |
| `MCCommandIntake` | symmetry | extends `CommandIntake` |
| `CommandIntake_proof` | theorems about the limiter, the endpoints and the metrics | extends `CommandIntake` |
| `GitLog` | `parser.py` | |
| `GraphLayout` | `GitGraph.tsx` | extends `GitLog` |
| `GitRepository` | git, as far as the code relies on it (external) | extends `GitLog` for the lines it prints |
| `GitExecutor` | `executor.py`, from a command to the graph on screen | extends `GitRepository`, `GraphLayout` |
| `GitExecutor_proof` | theorems about executor, parser and layout | extends `GitExecutor` |
| `Persistence` | `repository.py`, the transactions of join and leave, unique columns, failures of the database, restarts | |
| `Persistence_proof` | theorems | extends `Persistence` |
| `RoomTab` | one tab: session, token, socket, queue, timer; of the backend the handshake | |
| `RoomTab_proof` | theorems | extends `RoomTab` |
| `Terminal` | one terminal with the event list of the store | |
| `Terminal_proof` | theorems | extends `Terminal` |

How state and actions correspond to the code:

**SandboxManager.** `containers`, `client`, `lock` are `_containers`, `_client`,
`_lock`. A task has a program counter `pc` that names the await it is at, the
argument `room` and the local `cid`. `Call` is a handler that enters an operation
(the tasks may call anything in any order, which includes what the handlers and
the metrics endpoint do). `Enter` steps take the lock, `Answer` steps receive the
answer of a docker call, one action per outcome. `docker`, `running`, `lastId` are
the daemon: it gives every container a new id and refuses a taken name.
`docker run` is a creation and a start, so a failed one may leave a container
that bears the name. `Exit` is the end of the process at any moment.
Only containers of this application are in the model.

**ConnectionManager.** `RoomState` objects are explicit, because a broadcast may
hold one that `_rooms` no longer has. `Connect` is the part of `connect` after
`accept`, `Broadcast`/`Send`/`Finish` are the three phases of `broadcast`.
`RoomState.lock` never makes a task wait, since it is never held across an await.

**RoomSession.** `pc` of a socket is where its endpoint is, `held` the container a
call of `exec` or `stop` has looked up, `graph` the graph it has read and not sent.
A repository is the number of commits in its container, which is all the
properties tell apart. A broadcast is the one of ConnectionManager; its messages
are applied to the store of the receiving tab as they are sent (a socket keeps
their order).

What git does and what `exec` answers are two steps. `GitCommits` changes the
repository while the call is under way; `ExecAnswers` is `exec_run` returning, after
such a change or without one, so a successful `git init` or `git add` makes `run` read
the graph as well, and a command with an exit code may have committed; in `RunFails` the
container went before the answer, or docker failed, or the time was up, whatever git had
done. `loose` counts the commands of a container that timed out and still run:
`StragglerCommits` is what they do later.

History variables serve the properties. `owed` is the container a command has changed,
until the audit entry is written. A task is at work (`Working`) from the moment it may change
the repository to its last send. `disturbed` is set when two tasks are at work at once, or
when a failure may leave a screen wrong (a failed graph read, an error after a change, a
time-out, a reset that fails); `crossed` says that a task this happened to is still at work.
When a task that is not crossed begins to broadcast a graph, `disturbed` is cleared
(`Heals`): what was wrong must be made good by that broadcast. `late` has the sockets whose snapshot
was on its way beside a task at work, so that it may come after the broadcast with an older graph.

**RoomTab.** A step is one browser event with all renders and effects it causes.
`Restart` is the effect of `useWebSocket` on a new url; `Enabled` derives the token
the way `Room` does. A socket object is used again once it is closed and its wire
is empty.

**RateLimiter, Metrics, CommandIntake.** Time is a clock that ticks; `admitted` keeps
every admission as history. `Pruned` is the loop that drops old entries. A student
is a key of the limiter with one connection, whose endpoint handles one command at
a time; `stage` says where it is: admitted and waiting for its sandbox
(`Command`), or inside `exec` (`Begins`), which returns and is recorded
(`Returns`) or raises and is not (`Raises`). Both clocks of the code are `now`.
`avg_ms` is represented by the sum it is computed from. The code computes a rank as
`math.ceil(p / 100 * n)` in floating point; for the three percentiles and every
list the ring can hold (1000) that is the integer formula of `Rank`. `sorted` is stable:
`Ascending` puts a sample after those that are less and the equal ones before it.

**GitExecutor and what is under it.** One command at a time, since interleavings are
in `RoomSession`. `repo` is the repository, `read` the one the graph on screen was
read from, or `None` after a fault: a log that could not be read, a command that
raised, or one that failed and had moved refs. `GitRepository` says where each
whitelisted subcommand may leave commits, branches, tags, HEAD and the stash, and
which logs git may print then: a commit whose turn it is, the latest first, those of one
second in any order (checked against git 2.39 while modelling). `Tidy` forgets what no
ref shows and numbers the rest anew, so sequences of commands have no end although
commits are bounded. Seconds are counted only where a commit is. `parse_graph` and
`computeLayout` are translated step by step over lines, fields and refs that are
records; splitting of text at separators is in the shape of these records.

**Persistence.** `pc` of a connection is the SQL statement it executes next. `user`
and `room` are the uuids a join has found or inserted; a uuid is the connection
whose transaction drew it, so a row that was rolled back and inserted again has
another one. What a transaction has inserted and not committed is derived from
them (`InsertedUser`, `InsertedRoom`). A statement sees committed rows (the default
isolation of Postgres); an `INSERT` of a key that an open transaction has inserted
waits. SQLite, the development database, makes every writer wait for every other,
so it has fewer of these behaviours. `RoomSession` uses the module's result only:
a join has a row or not.

**Terminal.** Refs are variables of the same role; `index` is `historyIndexRef`
plus one, 0 for null. `screen` is what the escape sequences leave on the last line
of the terminal: this is where typing at the end of the line, typing in the
middle, cursor movement and full redraws differ.

## 3. Runs

Every property has a mutant: a plausible bug, written next to the definition it
changes, under which TLC finds the property violated.

| Run | Instance | Shows |
|---|---|---|
| `SandboxManager` | 2 rooms, 2 tasks, 1 place, 3 containers | registry and names sound (`WithinLimit`, `DoomedIsNobodys`, `NameIsCurrent`), refinement of `SandboxPool`, every call returns |
| `ConnectionManager` | 1 room, 3 clients, 2 broadcasts, 3 objects | `ConnectedIsReached`, `NoStrays`, `EmptyRoomsGo` |
| `CommandIntake` | 2 students, limit 2, window 2, time to 3, 4 commands, a ring of 3 | `WindowLimit`, `RefusedWhenFull`, `SnapshotIsOfRuns` |
| `GitExecutor` | 3 commits, 3 branches (one with a slash), 1 tag, a stash, 2 refs at a time; subjects with and without text, cut or whole | `LogRoundTrip`, `ScreenIsCurrent`, `InheritsBranch`, `LanesApart` |
| `RoomReset` | 2 clients of different users; 3 commands, resets and departures together; no failure | `UndisturbedGraphsAgree`, `NobodyLeftBlank`, `AppliedIsAudited`, `NoGhosts` |
| `RoomAlone` | 1 client, 2 commands, 2 resets, every failure | `UndisturbedGraphsAgree` (what failures left wrong is made good), `LeaversAreForgotten` |
| `Persistence` | 3 connections, 2 users, 2 rooms, 2 database connections, 1 failure or exit | `RefsExist`, `OpenIsLive`, `RaceHasWinner`, `JoinsEnd` |
| `RoomTab` | 2 rooms, 2 names, 3 sockets, 2 commands, 2 changes | `OneConnection`, `StoreIsOfRoom`, `AtMostOnce`, `OnlineIsTrue`, `QueueIsSent` |
| `Terminal` | lines of 3 characters, history of 2, 3 commands, 2 events, 1 reset | `LineAsShown`, `HistoryIsRecent`, `EventsInOrder` |

Three runs show where the code does not do what a comment or the README says:

| Run | What happens |
|---|---|
| `RoomGraphsDiffer` | Two commands overlap. The first reads the graph, the second commits, reads and broadcasts, and then the first broadcasts its older graph. All screens keep it until the next write command. |
| `RoomTabLeak` | A command typed while the socket is down is queued. The student changes the room. The queue is sent to, and executed in, the new room. |
| `TerminalLost` | The terminal counts the events it has printed and keeps the count when the store is emptied, so as many of the next events stay invisible, among them the answer to a command, with its prompt. |

### Bounds, and why they are enough

- Two tasks inside the manager suffice for one that has checked and one that
  interferes, since the lock admits one; two rooms with one place make the limit
  bite; three ids let a room have a leftover, a sandbox and a successor.
- One room in `ConnectionManager`: rooms share only `_rooms`, whose keys are
  independent. Three clients and two broadcasts give a join, a departure and a
  dead connection while two snapshots are in use. Three `RoomState` objects are
  the most that can be in use: one per broadcast and the stored one.
- `RoomReset` has the actors whose races matter: two clients that command, join
  and leave, and the reset. Its constraint `Few` admits three of these events between them (2,040,909
  states), which is two overlapping commands and a reset or a third that runs alone, or a
  departure in place of one. Failures, and what follows them, are the business of `RoomAlone`
  (497,047 states).
- Three connections over two users and two rooms give `Persistence` a chain: one
  that has inserted a user waits for a room while another waits for that user. Two
  database connections are fewer than the transactions that want one. `MaxFaults`
  bounds failures and exits; one at any point meets every open transaction.
- Three visible commits give `GitExecutor` a fork, a merge with its two parents, a
  stash on a commit, and a rebase of two commits with one below; two refs beside
  HEAD put two labels on one commit or on two lines of history. An instance with
  three refs (41,548 states, under three minutes) passes too.
- Four commands overfill a ring of three; the clock runs one tick past a window.
  Longer histories are covered by the proofs.
- `Few`, a constraint of `RoomReset`, and `MaxCommands`, `MaxResets`, `MaxBoxes`, `MaxTyped`, `MaxChanges`, `MaxSent`,
  `MaxLine`, `MaxTime`, `MaxRequests`, `MaxIds`, `MaxCommits`, `MaxRefs`, and
  `MaxEvents` of the terminal, which are in the guards, bound counters. Where a system stops because a bound is used up, the configuration says
  `CHECK_DEADLOCK FALSE`.
- Tokens, texts of messages, ids and command lines are members of small sets.

### Fairness

- `SandboxManager`: the docker SDK has time-outs, so an `Answer` comes (weak
  fairness); `asyncio.Lock` wakes its waiters in the order they came, which strong
  fairness of `Enter` stands for. Nothing is assumed of calls, deaths and exits.
- `ConnectionManager`: a send ends, and the endpoint of a client that has gone
  reads the disconnect. Nothing is assumed of joins.
- `RoomSession`: every await ends. Clients need not send or leave.
- `Persistence`: the database answers a statement that need not wait (weak fairness
  of the steps of each connection). Nothing is assumed of clients and failures.
- `RoomTab`: timers fire, a wire delivers or breaks, a handshake is answered, and
  one that is possible again and again succeeds in the end (strong fairness of
  `Opens`). Nothing is assumed of the student, of token requests and of expiry;
  `QueueIsSent` is about tabs that keep a token that has not expired.
- `CommandIntake`, `GitExecutor`: none; their properties are about what must not be.

## 4. Proofs

All theorems hold for every value of the constants that satisfies the module's
`ASSUME`: finite `Rooms` of the manager and finite `Connections` of the database,
natural limits, model values distinct from the sets they are added to (and, in
`Persistence`, from the rows of the tables; in `GitRepository`, `None` is no branch). Each inductive invariant was an
invariant of a TLC run on the instances of section 3 before it was proved.

**SandboxManager** (`SandboxManager_proof`). None of the safety properties is
inductive alone. The inductive invariant `IInv` adds

- `LockInv`: a task is at a critical step exactly when it holds the lock, so one
  task at most is inside `start` or `stop`;
- `StartInv`: what `start` checked (no entry, a free place) stays true until it
  records the container, because only the lock holder records;
- `IdsInv`: ids not yet given out are used nowhere, so a new container differs
  from all others;
- `NameInv`: what a task holds in `cid` to remove it is no other room's sandbox.

`LimitStep` follows from `StartInv`; `NamingStep` splits on what a step does to
registry and names (`DataEffects`: only recording, a failed start that left a
container, popping, and the end of the process do more than take names away).
From `IInv` follow `TypeOK`, `WithinLimit`, `DoomedIsNobodys`, `NameIsCurrent` and
the refinement of `SandboxPool` (every step is a step or a stutter of it). Two
consequences of the refinement are stated and proved by themselves, without a run:
`OwnContainer` and the action property `NeverSwapped`.

**RateLimiter** (`CommandIntake_proof`). `WindowLimit` is about the history of
admissions, while the code keeps only a pruned deque. The inductive invariant says
that the deque of a key is the tail of its history, that what was dropped is older
than the window, and that an admission and the one `max_events` later are a window
apart. `PrunedIsSuffix` says what the loop returns. `TypeCorrect` states the types.
`RefusedWhenFull` needs one more invariant, that the history is in the order of time
(`InOrder`): a refusal means that the deque is full and lost nothing, its first entry
is in the window, and the later ones are later.

**CommandIntake** (`CommandIntake_proof`). `UsesLimiter`: every step of the endpoints
is a step or a stutter of `RateLimiter` (by the way they are defined: it is a lemma), so `WindowLimit` and `RefusedWhenFull` carry
over (`CommandsAreLimited`, `CommandsAreRefusedWhenFull`). `SamplesAreLatest`: the ring holds the latest executions in
order, whatever its size, by the invariant that it is the tail of the history
(`KeptKeeps` for one `append`); with the count of the failures this is `MetricsInv`.
`RankIsNearest`: for lists of every length a percentile reads inside the list, at the
nearest rank. `MetricsAreTrue` is `SnapshotIsOfRuns` for every ring. Samples up to
different ones are properly included in each other, so that no two have one place and
every place is taken (`EveryPlace`), and the sorted list has at each rank the sample of that
place (`AtPlace`). `PercentileAtRank` compares two definitions of a percentile: the samples
up to the one at the nearest rank are enough, those below any smaller one are too few. The sum,
from which the average is computed, is a fold, of which nothing is proved.

**GitExecutor** (`GitExecutor_proof`). The inductive invariant is `Current`: the
repository is `Tidied`, that is, it is `Sound` (parents are older than their children, refs
point to commits that are there, HEAD is on a branch or at a commit, refs are finitely many)
and `Tidy` leaves it alone; and the graph on screen was read from it, unless a fault was
reported. `ScreenIsCurrent` alone is not inductive: `run` tidies what any command leaves, and
after `git show` the repository must be the very same one. So every subcommand, the copies of
a rebase included, is shown to leave a sound repository (`EndsSound`), tidying one to keep it
sound and to show all it has (`TidySound`, `TidyShows`), and tidying it again to change
nothing (`TidyTwice`), since renumbering 1 to n in order is the identity (`PlacesOfAll`).

`LanesAreApart` follows from what the lanes handed out have in common after every row
(`Handed`): different branches have different lanes, all below the next. `BranchesInherited` goes through the rows of a newer-first log: when
the rows above one are settled, so is that row (`InheritOne`), as the labels above it are
its own and those above its children, all of which are in rows before it
(`LabelsOfChildren`). `LogIsRead` is `LogRoundTrip` for any log, any subjects and any place where
`splitlines` cuts them: a log that
git may print has every commit once (`LogPrinted`, `LogCovers`), its lines are in the output
at offsets (`OutputLines`), the parser has read one more commit after the lines of each
(`ReadMore`, `ParsedLog`) and passes over second lines, and a label is the branch of
HEAD or of a local branch without a slash because only those are in the decoration under
the kinds that `_primary_branch` looks for (`Decorated`, `LabelOfCommit`).

The recursive functions of these modules are unfolded row by row (`OwnersByRow`,
`AboveBySteps`, `AncestorsBySteps`, `GraphByLine`, `WalksBySteps`), and what holds of 0 and
of each next row holds of all rows (`UpTo`): if not, there would be a least exception,
and a set of numbers has a least member (`LeastNumber`, from the well-foundedness of inclusion
between finite sets). The same replaces the induction over a set of commits: what is reached by
steps to parents is in every set that is closed under them (`AncestorsLeast`,
`AboveLeast`).

**ConnectionManager** (`ConnectionManager_proof`). `ConnectedIsReached` and
`NoStrays` need each other, and three facts: a socket is in one room at most
(`OneRoom`), rooms do not share a `RoomState` (`OwnState`), and whom a broadcast
takes for dead has gone or left (`DeadAreGone`), so the removal at its end, from a
`RoomState` taken many awaits earlier, hits nobody who is there. A new `RoomState`
is empty because `NoStrays` says that a used one is stored in `_rooms`. `TypeCorrect`
states the types, which no run repeats.

**RoomSession** (`RoomSession_proof`). The endpoints use `ConnectionManager` by its own
actions, which are steps of its specification because an endpoint connects only a socket
that is not connected, and begins a broadcast only after its last one; both can be told
from where a task is (`Places`). So its inductive invariant is not proved again: the step lemma is
taken from an instance of `ConnectionManager_proof`, and `RoomIsReached` is what its
theorems say of the room. The inductive invariant `IInv` adds to these

- `Counted`: the commits of a repository, the commands that have yet to commit, and those
  that timed out are not more than the commands sent, without which the type of `commits` is not
  inductive;
- `GraphsRead`: an endpoint has a graph to send only when it read one;
- `Registered`: the registered container runs, and none is registered while `stop`
  removes the one it popped;
- `Owing`: without failures, an endpoint that owes an audit entry is on its way to it, or
  the container it changed is gone.

`CommandsAreAudited` follows. `NobodyIsAGhost` says who is *not* in a list of users; what
is inductive is that whoever is in it is connected or has a departure under way to that
very tab (`Listed`).

`QuietGraphsAgree` and `NobodyIsLeftBlank` are about states in which all is quiet, and so
say nothing of the steps in between; `GraphInv` does. Its parts:

- `WorkInv`: unless something crossed it, one task at most is at work, and what it
  holds is the truth (`Knows`): the registered container, a graph read from it, or, for a
  reset, that there is none;
- `SnapInv`: a snapshot that nobody works beside is right, and no snapshot is empty;
- `TabInv`: two connections of a tab are not live at once, and one that is no more has ended
  for the client too;
- `ShownInv`: while `disturbed` is false, a client shows the truth, is still arriving, or has a
  broadcast coming to it (`Coming`) that will make it so. This is stated three times
  with different promises: `ShowsTruth` on a first visit, `CatchesUp` for later visits to a repository with
  commits, and `ShowsSome`, without the exception of `late`, that the client is not left blank.

That `disturbed` is cleared makes `ShownInv` hard: in that step it must hold of every client at once,
from nothing but `WorkInv`, which does not depend on `disturbed` while no task
is crossed. It does, because the broadcast that starts reaches everybody who is in the room
(`IInv` of the manager), and who comes later takes a snapshot that nobody works beside. Each part has its
step lemma (`WorkStep`, `SnapStep`, `TabStep`, `ShownStep`), with the steps that change
neither repository nor screens treated together (`ViewFrame`, `ComingStays`, `PromisesStay`).

**Persistence** (`Persistence_proof`). `TypeInv` adds to the types which locals are set
at which statement. `RefsExist` alone is not inductive: a transaction holds a uuid it found
long ago, or will insert at its end. `RefInv` says that what a transaction found is
still there, that what it inserted nobody has committed (`Held`), that of two open
transactions one at most has inserted a key (`Unique`, which is what waiting is for), and that
whoever is in a table also has a Session row (`Winners`: the three are written in one
transaction). `Landing` is the lemma about transactions that become visible together,
as an exit may let any of them. `BeatenByWinner` follows from `Winners` and from what no step
undoes (`Lasting`).

**RoomTab** (`RoomTab_proof`). `ConnInv` adds to `OneConnection`, `StoreIsOfRoom` and
`OnlineIsTrue` that a timer runs only when there is a token, and that what the hook shows is the phase
of the socket it listens to. `RestartConn` says that the effect builds it up again
whatever was pending, provided it is restarted with a token exactly when there is one.
`AtMostOnce` is proved with the stronger `OnceInv`: the queue, the wires and what
the rooms have executed share no number, nor do two of the same kind even when they are
equal, and no number is above what has been typed.

**Terminal** (`Terminal_proof`). `LineType` says that buffer, history and draft are
lines, that the cursor is in its line and the screen shows it; for `Trim`, and for the word before
the cursor, the least number with a property has to exist (`LeastNumber`, proved from the
well-foundedness of inclusion between finite sets). `HistoryIsRecent` is inductive with
it. `EventInv` says why the subscription never prints twice: the
terminal has counted at least what the store holds, so that there is at most one event to print,
newer than all others.

**Only model-checked.** Liveness (`CallsReturn`, `EmptyRoomsGo`,
`LeaversAreForgotten`, `JoinsEnd`, `QueueIsSent`) depends on fairness and `ENABLED`, which are
out of the prover's reach. Every other property of a run that is expected to pass is
stated by a theorem.

## 5. Not modelled, and what the models do not say

- Container images, isolation, memory limits; the text of messages, logs, layout.
- The author environment of the executor (`executor.py:98`): a name and an e-mail
  address that go to git. In the models a commit has an author of its own.
- The index, the working tree and files; so which of the allowed outcomes of a git
  command occurs is open.
- Signatures of tokens. Only expiry and the room a token is for matter here.
- `list_audit`, `stats` and `room_size` only read.
- Landing page (a form, the URL and localStorage, from which the first session
  comes: `RoomTab` starts from any), REST stubs (no state), configuration and
  schemas (values and shapes, which are constants and records of the models), load
  test.

Behaviour met while modelling that no run singles out:

- `stop` logs a failed `remove` and returns normally, so the container stays until
  the room's next `start` adopts its name (`sandbox.py:286`).
- Nothing but a reset frees a sandbox: rooms that everybody left keep theirs until
  `max_rooms` is reached and no new room can start (`sandbox.py:170`). Nor is the deque
  of a student who left ever dropped (`ratelimit.py:25`).
- `start` returns a registry entry without asking the daemon; when the container
  has died, commands fail until somebody resets the room (`sandbox.py:167`).
- A command whose graph was read before a reset may broadcast it after the reset's
  empty graph (`rooms.py:91`). The screens show it until a write command or reset has run
  alone; `UndisturbedGraphsAgree` says that they do not show it for longer.
- A command beside another may read a graph without commits (`git init` while the first
  commit is made) and broadcast it last: all screens are blank until the next write
  (`executor.py:146`). `NobodyLeftBlank` is about what follows a write that runs alone.
- A reset between what git did and the answer of `exec_run` ends the command in an error,
  and what it did is in no audit log (`sandbox.py:360`, `handlers.py:210`); nor is it in any
  repository, and `AppliedIsAudited` speaks of containers that are still there.
- A tab that missed a reset while it was offline gets no snapshot and keeps the old
  graph (`handlers.py:101`). `UndisturbedGraphsAgree` is therefore about first connections and,
  for a tab that comes back, repositories with commits. The runs have one connection per tab;
  tabs that come back are covered by the theorems only.
- A command that timed out may still change the repository (`StragglerCommits`), is in no
  audit log, and what it did is on no screen until the next write command
  (`handlers.py:210`, `sandbox.py:348`).
- A docker exception other than those wrapped as `SandboxError` closes the
  connection (`sandbox.py:336`), although `handlers.py:4` promises an `ERROR`
  message.
- Without any failure of the database, a first join that loses a race for a user or
  a room has no Session row, and a user or room it had inserted goes with the
  rollback (`repository.py:26`, `repository.py:48`): `get_or_create_*` does not look
  again after the `IntegrityError`. `RaceHasWinner` says that somebody's join
  succeeded in exchange.
- A Session row stays open for ever when the process died, a departure could not be
  written, or the answer to a commit was lost (`repository.py:65`).
- A room name of more than 59 characters cuts the random suffix, and one of 63 leaves
  nothing of it, so two such rooms are one (`session.ts:117`).
- The token is fetched once per session. A tab that loses its connection after the
  token has expired is refused at every reconnection, for ever (`Room.tsx:57`),
  although `useWebSocket.ts:25` speaks of auto-reconnect.
- A rebase that stops, and any other command that ends with an error after it moved
  refs, leaves the old graph on every screen until the next command that succeeds
  (`executor.py:149`).
- Newer-first is not guaranteed, though `GitGraph.tsx:48` says it is: of commits of the same
  second git may print the parent before its child when a ref or HEAD shows it, as after
  a rebase of several commits. The parent then inherits nothing and is drawn in
  lane 0. `InheritsBranch` is about the other logs; `LanesApart` and `LogRoundTrip`
  hold in any order.
- A local branch with "/" in its name is taken for a remote one and has no label,
  unless HEAD is on it (`parser.py:112`). A ref with a comma is cut in pieces
  (`parser.py:99`).
- A stash shows its two commits in the graph, without a branch, since
  `git log --all` includes `refs/stash` (`parser.py:24`).
- A subject with a character at which `str.splitlines` breaks, and git does not, loses
  what follows it, and its commit's author; when the character comes first, the label is the
  short hash (`LogRoundTrip` says so). One with the separator itself spoils the fields
  (`parser.py:44`), although `parser.py:35` allows any character. The terminal accepts
  ASCII 0x20 to 0x7e only (`Terminal.tsx:334`), so neither can be typed there, and
  neither can a commit message in Ukrainian.
- `git log --all` in a repository without commits ends with 0 and prints nothing; the
  comment at `executor.py:174` expects another exit code. The graph is the same.
- A user in two tabs disappears from the lists when one of them closes
  (`gitStore.ts:107`). `NoGhosts` covers the opposite direction only.

## 6. Plan

Every part that keeps state is modelled, every safety property that the runs check is
proved, and every liveness property is checked on the instances of section 3. The models follow the
code; what may be added when the code grows:

1. A tab that reconnects gets no snapshot of a repository without commits (section 5). When
   the backend sends one, `UndisturbedGraphsAgree` can be stated for every connection, and
   a run with two connections of a tab shows it.
2. The backend does not stop a command that timed out (`sandbox.py:321`). When it does,
   `StragglerCommits` goes, and `AppliedIsAudited` can be asked of runs with failures.
