----------------------------- MODULE Persistence -----------------------------
(***************************************************************************)
(* What a WebSocket connection leaves in the database                      *)
(* (backend/app/db/repository.py, called from on_user_joined and           *)
(* on_user_left of backend/app/ws/handlers.py).                            *)
(*                                                                         *)
(* A join is one transaction: find or insert the user, find or insert the  *)
(* room, insert the Session row, commit.  A departure closes the row in    *)
(* another one.  Between two statements other transactions go on.  The     *)
(* database reads what is committed; an INSERT waits while another open    *)
(* transaction has inserted the same unique key, and fails when that one   *)
(* has committed.  Whatever fails is logged and the connection goes on     *)
(* without a Session row.                                                  *)
(*                                                                         *)
(* pc[c] is the statement connection c executes next.  A uuid is the       *)
(* connection whose transaction drew it.                                   *)
(***************************************************************************)
EXTENDS Naturals, FiniteSets

CONSTANTS
    Connections,   \* WebSocket connections, each of which joins once
    Names,         \* values of User.username
    Slugs,         \* values of Room.slug
    None,          \* no row, or a variable that is not set
    PoolSize,      \* database connections of the engine
    MaxFaults      \* bound: failures of the database and exits of the process

ASSUME PersistenceAssumption ==
    /\ IsFiniteSet(Connections)
    /\ PoolSize \in Nat \ {0}
    /\ MaxFaults \in Nat
    /\ None \notin Connections \cup Names \cup Slugs
    /\ None \notin [id : Connections, owner : Connections]   \* nor is it a row
    /\ None \notin [user : Connections, room : Connections, open : BOOLEAN]

VARIABLES
    users,    \* committed users: uuid by username
    rooms,    \* committed rooms: uuid and owner by slug
    rows,     \* committed Session row of a connection
    up,       \* the process serves
    pc, name, slug,
    user, room,   \* locals of the join: uuids the transaction has found or inserted
    id,           \* db_session_id is not None
    beaten,   \* history: joins that failed on a unique column
    lost,     \* history: rows open after a failure or an exit
    faults

vars == <<users, rooms, rows, up, pc, name, slug, user, room, id, beaten, lost, faults>>
stored == <<users, rooms, rows>>
past == <<beaten, lost, faults>>

JoinSteps == {"find_user", "add_user", "find_room", "add_room", "add_row", "commit"}
Steps == JoinSteps \cup {"new", "in", "mark", "mark_commit", "done"}

UserRows == Connections \cup {None}
RoomRows == [id : Connections, owner : Connections] \cup {None}
SessionRows == [user : Connections, room : Connections, open : BOOLEAN] \cup {None}

Init ==
    /\ users = [n \in Names |-> None]
    /\ rooms = [s \in Slugs |-> None]
    /\ rows = [c \in Connections |-> None]
    /\ up = TRUE
    /\ pc = [c \in Connections |-> "new"]
    /\ name = [c \in Connections |-> None]
    /\ slug = [c \in Connections |-> None]
    /\ user = [c \in Connections |-> None]
    /\ room = [c \in Connections |-> None]
    /\ id = [c \in Connections |-> FALSE]
    /\ beaten = {}
    /\ lost = {}
    /\ faults = 0

-----------------------------------------------------------------------------
(* Transactions. *)

\* An AsyncSession takes a database connection at its first statement and gives
\* it back when it ends.
InTransaction ==
    {c \in Connections : pc[c] \in (JoinSteps \ {"find_user"}) \cup {"mark_commit"}}

Begin == Cardinality(InTransaction) < PoolSize

\* Open transactions that have inserted the user n, or the room s.
InsertedUser(n) == {c \in InTransaction : user[c] = c /\ name[c] = n}
InsertedRoom(s) == {c \in InTransaction : room[c] = c /\ slug[c] = s}

Goto(c, step) == pc' = [pc EXCEPT ![c] = step]

\* The session of a join ends; what it had not committed is gone.
EndJoin(c) ==
    /\ Goto(c, "in")
    /\ user' = [user EXCEPT ![c] = None]
    /\ room' = [room EXCEPT ![c] = None]

\* An INSERT refused by a unique column: IntegrityError.
Beaten(c) ==
    /\ EndJoin(c)
    /\ beaten' = beaten \cup {c}
    /\ UNCHANGED <<stored, up, name, slug, id, lost, faults>>

\* What the database holds once the joins of the set J are committed.
NewUsers(J) ==
    [n \in Names |-> IF \E c \in J : user[c] = c /\ name[c] = n
                     THEN CHOOSE c \in J : user[c] = c /\ name[c] = n
                     ELSE users[n]]
NewRooms(J) ==
    [s \in Slugs |-> IF \E c \in J : room[c] = c /\ slug[c] = s
                     THEN LET c == CHOOSE c \in J : room[c] = c /\ slug[c] = s
                          IN [id |-> c, owner |-> user[c]]
                     ELSE rooms[s]]
NewRow(c) == [user |-> user[c], room |-> room[c], open |-> TRUE]

Landed(J) ==
    /\ users' = NewUsers(J)
    /\ rooms' = NewRooms(J)

\* mark_session_disconnected: a row that is closed stays as it is.
Closed(row) == IF row = None THEN None ELSE [row EXCEPT !.open = FALSE]

-----------------------------------------------------------------------------
(* on_user_joined. *)

Join(c, n, s) ==
    /\ up
    /\ pc[c] = "new"
    /\ Goto(c, "find_user")
    /\ name' = [name EXCEPT ![c] = n]
    /\ slug' = [slug EXCEPT ![c] = s]
    /\ UNCHANGED <<stored, up, user, room, id, past>>

FindUser(c) ==
    /\ pc[c] = "find_user"
    /\ Begin
    /\ user' = [user EXCEPT ![c] = users[name[c]]]
    /\ Goto(c, IF users[name[c]] = None THEN "add_user" ELSE "find_room")
    /\ UNCHANGED <<stored, up, name, slug, room, id, past>>

AddUserCommits(c) ==   \* mutant: commit instead of flush
    /\ pc[c] = "add_user"
    /\ InsertedUser(name[c]) = {}
    /\ users[name[c]] = None
    /\ users' = [users EXCEPT ![name[c]] = c]
    /\ user' = [user EXCEPT ![c] = c]
    /\ Goto(c, "find_room")
    /\ UNCHANGED <<rooms, rows, up, name, slug, room, id, past>>
AddUser(c) ==
    /\ pc[c] = "add_user"
    /\ InsertedUser(name[c]) = {}
    /\ users[name[c]] = None
    /\ user' = [user EXCEPT ![c] = c]
    /\ Goto(c, "find_room")
    /\ UNCHANGED <<stored, up, name, slug, room, id, past>>

UserExists(c) ==
    /\ pc[c] = "add_user"
    /\ InsertedUser(name[c]) = {}
    /\ users[name[c]] # None
    /\ Beaten(c)

FindRoomRecord(c) ==   \* mutant: the room is passed on instead of its id
    /\ pc[c] = "find_room"
    /\ room' = [room EXCEPT ![c] = rooms[slug[c]]]
    /\ Goto(c, IF rooms[slug[c]] = None THEN "add_room" ELSE "add_row")
    /\ UNCHANGED <<stored, up, name, slug, user, id, past>>
FindRoomEarly(c) ==   \* mutant: a room is found before it is committed
    /\ pc[c] = "find_room"
    /\ LET found == IF rooms[slug[c]] # None THEN {rooms[slug[c]].id}
                    ELSE InsertedRoom(slug[c])
       IN /\ \/ found = {} /\ room' = room
             \/ \E r \in found : room' = [room EXCEPT ![c] = r]
          /\ Goto(c, IF found = {} THEN "add_room" ELSE "add_row")
    /\ UNCHANGED <<stored, up, name, slug, user, id, past>>
FindRoom(c) ==
    /\ pc[c] = "find_room"
    /\ \/ /\ rooms[slug[c]] = None
          /\ Goto(c, "add_room")
          /\ UNCHANGED room
       \/ /\ rooms[slug[c]] # None
          /\ Goto(c, "add_row")
          /\ room' = [room EXCEPT ![c] = rooms[slug[c]].id]
    /\ UNCHANGED <<stored, up, name, slug, user, id, past>>

AddRoom(c) ==
    /\ pc[c] = "add_room"
    /\ InsertedRoom(slug[c]) = {}
    /\ rooms[slug[c]] = None
    /\ room' = [room EXCEPT ![c] = c]
    /\ Goto(c, "add_row")
    /\ UNCHANGED <<stored, up, name, slug, user, id, past>>

RoomExists(c) ==
    /\ pc[c] = "add_room"
    /\ InsertedRoom(slug[c]) = {}
    /\ rooms[slug[c]] # None
    /\ Beaten(c)

AddRowElsewhere(c) ==   \* mutant: a second session inside the first
    /\ pc[c] = "add_row"
    /\ Begin
    /\ Goto(c, "commit")
    /\ UNCHANGED <<stored, up, name, slug, user, room, id, past>>
AddRow(c) ==
    /\ pc[c] = "add_row"
    /\ Goto(c, "commit")
    /\ UNCHANGED <<stored, up, name, slug, user, room, id, past>>

Commit(c) ==
    /\ pc[c] = "commit"
    /\ Landed({c})
    /\ rows' = [rows EXCEPT ![c] = NewRow(c)]
    /\ id' = [id EXCEPT ![c] = TRUE]
    /\ EndJoin(c)
    /\ UNCHANGED <<up, name, slug, past>>

-----------------------------------------------------------------------------
(* on_user_left. *)

Leave(c) ==
    /\ pc[c] = "in"
    /\ Goto(c, IF id[c] THEN "mark" ELSE "done")
    /\ UNCHANGED <<stored, up, name, slug, user, room, id, past>>

Mark(c) ==
    /\ pc[c] = "mark"
    /\ Begin
    /\ Goto(c, "mark_commit")
    /\ UNCHANGED <<stored, up, name, slug, user, room, id, past>>

CommitMarkForgotten(c) ==   \* mutant: no commit, so the session rolls back
    /\ pc[c] = "mark_commit"
    /\ Goto(c, "done")
    /\ UNCHANGED <<stored, up, name, slug, user, room, id, past>>
CommitMark(c) ==
    /\ pc[c] = "mark_commit"
    /\ rows' = [rows EXCEPT ![c] = Closed(@)]
    /\ Goto(c, "done")
    /\ UNCHANGED <<users, rooms, up, name, slug, user, room, id, past>>

-----------------------------------------------------------------------------
(* Failures. *)

\* A statement or the wait for a database connection fails: the session rolls
\* back and the exception is logged.
JoinFails(c) ==
    /\ faults < MaxFaults
    /\ faults' = faults + 1
    /\ pc[c] \in JoinSteps
    /\ EndJoin(c)
    /\ UNCHANGED <<stored, up, name, slug, id, beaten, lost>>

\* The commit lands but its answer does not arrive.
JoinAnswerLost(c) ==
    /\ faults < MaxFaults
    /\ faults' = faults + 1
    /\ pc[c] = "commit"
    /\ Landed({c})
    /\ rows' = [rows EXCEPT ![c] = NewRow(c)]
    /\ EndJoin(c)
    /\ lost' = lost \cup {c}
    /\ UNCHANGED <<up, name, slug, id, beaten>>

LeaveFails(c) ==
    /\ faults < MaxFaults
    /\ faults' = faults + 1
    /\ pc[c] \in {"mark", "mark_commit"}
    /\ Goto(c, "done")
    /\ lost' = lost \cup {c}
    /\ \/ UNCHANGED rows
       \/ pc[c] = "mark_commit" /\ rows' = [rows EXCEPT ![c] = Closed(@)]
    /\ UNCHANGED <<users, rooms, up, name, slug, user, room, id, beaten>>

\* The process ends.  Open transactions are rolled back, except that a commit on
\* its way to the database may land.
Exit ==
    /\ up
    /\ faults < MaxFaults
    /\ faults' = faults + 1
    /\ up' = FALSE
    /\ \E L \in SUBSET {c \in Connections : pc[c] \in {"commit", "mark_commit"}} :
          LET J == {c \in L : pc[c] = "commit"} IN
          /\ Landed(J)
          /\ rows' = [c \in Connections |-> IF c \in J THEN NewRow(c)
                                            ELSE IF c \in L THEN Closed(rows[c])
                                            ELSE rows[c]]
    /\ pc' = [c \in Connections |-> IF pc[c] = "new" THEN "new" ELSE "done"]
    /\ user' = [c \in Connections |-> None]
    /\ room' = [c \in Connections |-> None]
    /\ lost' = lost \cup {c \in Connections : pc[c] \notin {"new", "done"}}
    /\ UNCHANGED <<name, slug, id, beaten>>

\* lifespan: init_db creates the tables that are missing, so none.
Startup ==
    /\ ~up
    /\ up' = TRUE
    /\ UNCHANGED <<stored, pc, name, slug, user, room, id, past>>

-----------------------------------------------------------------------------
JoinStep(c) ==
    \/ FindUser(c) \/ AddUser(c) \/ UserExists(c)
    \/ FindRoom(c) \/ AddRoom(c) \/ RoomExists(c)
    \/ AddRow(c) \/ Commit(c)

LeaveStep(c) == Mark(c) \/ CommitMark(c)

Next ==
    \/ \E c \in Connections :
          \/ \E n \in Names, s \in Slugs : Join(c, n, s)
          \/ JoinStep(c)
          \/ Leave(c)
          \/ LeaveStep(c)
          \/ JoinFails(c)
          \/ JoinAnswerLost(c)
          \/ LeaveFails(c)
    \/ Exit
    \/ Startup

Spec == Init /\ [][Next]_vars

\* The database answers; nothing is assumed of clients and of failures.
FairSpec ==
    /\ Spec
    /\ \A c \in Connections : WF_vars(JoinStep(c)) /\ WF_vars(LeaveStep(c))

-----------------------------------------------------------------------------
(* Properties. *)

\* Tables hold rows of their types, and variables of the handlers hold what
\* their statements assign.
TypeOK ==
    /\ users \in [Names -> UserRows]
    /\ rooms \in [Slugs -> RoomRows]
    /\ rows \in [Connections -> SessionRows]
    /\ up \in BOOLEAN
    /\ pc \in [Connections -> Steps]
    /\ name \in [Connections -> Names \cup {None}]
    /\ slug \in [Connections -> Slugs \cup {None}]
    /\ user \in [Connections -> Connections \cup {None}]
    /\ room \in [Connections -> Connections \cup {None}]
    /\ id \in [Connections -> BOOLEAN]
    /\ beaten \subseteq Connections
    /\ lost \subseteq Connections
    /\ faults \in 0 .. MaxFaults

\* Every Session row points to the user and the room it is of, and every room
\* to an owner that exists, whatever was rolled back, lost or restarted.
RefsExist ==
    /\ \A c \in Connections : rows[c] # None =>
          /\ users[name[c]] = rows[c].user
          /\ rooms[slug[c]] # None /\ rooms[slug[c]].id = rows[c].room
    /\ \A s \in Slugs : rooms[s] # None =>
          \E n \in Names : users[n] = rooms[s].owner

\* A row is open only while its connection is there and knows it
\* (on_user_left can close it), or after a failure; and whoever knows its row
\* and is there has it open.
OpenIsLive ==
    \A c \in Connections :
       LET present == id[c] /\ pc[c] \in {"in", "mark", "mark_commit"}
           open == rows[c] # None /\ rows[c].open
       IN (open => present \/ c \in lost) /\ (present => open)

\* get_or_create gives up only for the good of another: a connection that was
\* refused by a unique column shares its name or room with one that has a
\* Session row.
RaceHasWinner ==
    \A c \in beaten : \E d \in Connections \ {c} :
       /\ name[d] = name[c] \/ slug[d] = slug[c]
       /\ rows[d] # None

\* No join waits for ever on a key or a database connection that another has:
\* every join gets to the snapshot (or ends with the process).
JoinsEnd ==
    \A c \in Connections : pc[c] \in JoinSteps ~> pc[c] \notin JoinSteps
=============================================================================
