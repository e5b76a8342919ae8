-------------------------- MODULE Persistence_proof --------------------------
(* Proofs about Persistence, for all values of its constants. *)
EXTENDS Persistence, TLAPS

USE PersistenceAssumption

(***************************************************************************)
(* A commit leaves well-typed tables, whichever transactions land.         *)
(***************************************************************************)
LEMMA LandedType ==
  ASSUME TypeOK, NEW J \in SUBSET Connections,
         \A c \in J : user[c] # None
  PROVE  /\ NewUsers(J) \in [Names -> UserRows]
         /\ NewRooms(J) \in [Slugs -> RoomRows]
<1>1. ASSUME NEW n \in Names, \E c \in J : user[c] = c /\ name[c] = n
      PROVE  (CHOOSE c \in J : user[c] = c /\ name[c] = n) \in Connections
  BY <1>1
<1>2. ASSUME NEW s \in Slugs, \E c \in J : room[c] = c /\ slug[c] = s
      PROVE  LET c == CHOOSE c \in J : room[c] = c /\ slug[c] = s
             IN  c \in Connections /\ user[c] \in Connections
  BY <1>2 DEF TypeOK
<1>3. NewUsers(J) \in [Names -> UserRows]
  BY <1>1 DEF NewUsers, UserRows, TypeOK
<1>4. NewRooms(J) \in [Slugs -> RoomRows]
  BY <1>2 DEF NewRooms, RoomRows, TypeOK
<1> QED BY <1>3, <1>4

(***************************************************************************)
(* The types of the tables and of the locals, and which locals are set at  *)
(* which statement.                                                        *)
(***************************************************************************)
HasUser == {"find_room", "add_room", "add_row", "commit"}
HasRoom == {"add_row", "commit"}

Locals ==
  \A c \in Connections :
     /\ user[c] # None <=> pc[c] \in HasUser
     /\ room[c] # None <=> pc[c] \in HasRoom
     /\ pc[c] # "new" => name[c] \in Names /\ slug[c] \in Slugs
     /\ pc[c] \in {"new"} \cup JoinSteps => rows[c] = None /\ ~ id[c]

TypeInv == TypeOK /\ Locals

LEMMA TypeStep == TypeInv /\ [Next]_vars => TypeInv'
<1> SUFFICES ASSUME TypeInv, [Next]_vars PROVE TypeInv'
  OBVIOUS
<1> USE DEF TypeInv, TypeOK, Locals, HasUser, HasRoom, JoinSteps, Steps, stored, past
<1>1. ASSUME NEW c \in Connections, NEW n \in Names, NEW s \in Slugs, Join(c, n, s)
      PROVE  TypeInv'
  BY <1>1 DEF Join, Goto
<1>2. ASSUME NEW c \in Connections, FindUser(c) PROVE TypeInv'
  <2>1. users[name[c]] \in UserRows
    BY <1>2 DEF FindUser
  <2> QED BY <1>2, <2>1 DEF FindUser, Goto, UserRows
<1>3. ASSUME NEW c \in Connections, AddUser(c) PROVE TypeInv'
  BY <1>3 DEF AddUser, Goto
<1>4. ASSUME NEW c \in Connections, UserExists(c) PROVE TypeInv'
  BY <1>4 DEF UserExists, Beaten, EndJoin, Goto
<1>5. ASSUME NEW c \in Connections, FindRoom(c) PROVE TypeInv'
  <2>1. slug[c] \in Slugs
    BY <1>5 DEF FindRoom
  <2>2. rooms[slug[c]] # None => rooms[slug[c]].id \in Connections
    BY <2>1 DEF RoomRows
  <2> QED BY <1>5, <2>2 DEF FindRoom, Goto
<1>6. ASSUME NEW c \in Connections, AddRoom(c) PROVE TypeInv'
  BY <1>6 DEF AddRoom, Goto
<1>7. ASSUME NEW c \in Connections, RoomExists(c) PROVE TypeInv'
  BY <1>7 DEF RoomExists, Beaten, EndJoin, Goto
<1>8. ASSUME NEW c \in Connections, AddRow(c) PROVE TypeInv'
  BY <1>8 DEF AddRow, Goto
<1>9. ASSUME NEW c \in Connections, pc[c] = "commit"
      PROVE  /\ NewUsers({c}) \in [Names -> UserRows]
             /\ NewRooms({c}) \in [Slugs -> RoomRows]
             /\ NewRow(c) \in SessionRows
  BY <1>9, LandedType DEF NewRow, SessionRows
<1>10. ASSUME NEW c \in Connections, Commit(c) PROVE TypeInv'
  BY <1>9, <1>10 DEF Commit, Landed, EndJoin, Goto
<1>11. ASSUME NEW c \in Connections, Leave(c) PROVE TypeInv'
  BY <1>11 DEF Leave, Goto
<1>12. ASSUME NEW c \in Connections, Mark(c) PROVE TypeInv'
  BY <1>12 DEF Mark, Goto
<1>13. ASSUME NEW c \in Connections PROVE Closed(rows[c]) \in SessionRows
  <2>1. CASE rows[c] = None
    BY <2>1 DEF Closed, SessionRows
  <2>2. CASE rows[c] \in [user : Connections, room : Connections, open : BOOLEAN]
    BY <2>2, PersistenceAssumption DEF Closed, SessionRows
  <2> QED BY <2>1, <2>2 DEF SessionRows
<1>14. ASSUME NEW c \in Connections, CommitMark(c) PROVE TypeInv'
  BY <1>13, <1>14 DEF CommitMark, Goto
<1>15. ASSUME NEW c \in Connections, JoinFails(c) PROVE TypeInv'
  BY <1>15 DEF JoinFails, EndJoin, Goto
<1>16. ASSUME NEW c \in Connections, JoinAnswerLost(c) PROVE TypeInv'
  BY <1>9, <1>16 DEF JoinAnswerLost, Landed, EndJoin, Goto
<1>17. ASSUME NEW c \in Connections, LeaveFails(c) PROVE TypeInv'
  BY <1>13, <1>17 DEF LeaveFails, Goto
<1>18. CASE Exit
  <2>1. PICK L \in SUBSET {c \in Connections : pc[c] \in {"commit", "mark_commit"}} :
          LET J == {c \in L : pc[c] = "commit"} IN
          /\ Landed(J)
          /\ rows' = [c \in Connections |-> IF c \in J THEN NewRow(c)
                                            ELSE IF c \in L THEN Closed(rows[c])
                                            ELSE rows[c]]
    BY <1>18 DEF Exit
  <2> DEFINE J == {c \in L : pc[c] = "commit"}
  <2>2. J \in SUBSET Connections /\ \A c \in J : pc[c] = "commit" /\ user[c] # None
    OBVIOUS
  <2>3. /\ users' \in [Names -> UserRows]
        /\ rooms' \in [Slugs -> RoomRows]
    BY <2>1, <2>2, LandedType DEF Landed
  <2>4. \A c \in J : NewRow(c) \in SessionRows
    BY <1>9, <2>2
  <2>5. /\ rows' \in [Connections -> SessionRows]
        /\ \A c \in Connections : pc[c] = "new" => rows'[c] = None
    BY <2>1, <2>4, <1>13
  <2> HIDE DEF J
  <2>6. /\ pc' \in [Connections -> Steps]
        /\ \A c \in Connections : pc'[c] \in {"new", "done"} /\ (pc'[c] = "new" <=> pc[c] = "new")
        /\ user' \in [Connections -> Connections \cup {None}]
        /\ room' \in [Connections -> Connections \cup {None}]
        /\ \A c \in Connections : user'[c] = None /\ room'[c] = None
    BY <1>18 DEF Exit
  <2>7. UNCHANGED <<name, slug, id, beaten>> /\ up' = FALSE /\ faults' = faults + 1
    BY <1>18 DEF Exit
  <2>8. faults < MaxFaults
    BY <1>18 DEF Exit
  <2>9. lost' \subseteq Connections
    BY <1>18 DEF Exit
  <2>10. TypeOK'
    <3>1. faults' \in 0..MaxFaults
      BY <2>7, <2>8
    <3>2. /\ name' \in [Connections -> Names \cup {None}]
          /\ slug' \in [Connections -> Slugs \cup {None}]
          /\ id' \in [Connections -> BOOLEAN] /\ beaten' \subseteq Connections
          /\ up' \in BOOLEAN
      BY <2>7
    <3> QED BY <2>3, <2>5, <2>6, <2>9, <3>1, <3>2
  <2>11. Locals'
    <3>1. SUFFICES ASSUME NEW c \in Connections
                   PROVE  /\ user'[c] # None <=> pc'[c] \in HasUser
                          /\ room'[c] # None <=> pc'[c] \in HasRoom
                          /\ pc'[c] # "new" => name'[c] \in Names /\ slug'[c] \in Slugs
                          /\ pc'[c] \in {"new"} \cup JoinSteps => rows'[c] = None /\ ~ id'[c]
      OBVIOUS
    <3> QED BY <2>5, <2>6, <2>7
  <2> QED BY <2>10, <2>11
<1>19. CASE Startup
  BY <1>19 DEF Startup
<1>20. CASE UNCHANGED vars
  BY <1>20 DEF vars
<1> QED BY <1>1, <1>2, <1>3, <1>4, <1>5, <1>6, <1>7, <1>8, <1>10, <1>11, <1>12,
           <1>14, <1>15, <1>16, <1>17, <1>18, <1>19, <1>20
        DEF Next, JoinStep, LeaveStep

LEMMA TypeHolds == Spec => []TypeInv
<1>1. Init => TypeInv
  BY DEF Init, TypeInv, TypeOK, Locals, HasUser, HasRoom, JoinSteps, Steps,
         UserRows, RoomRows, SessionRows
<1> QED BY <1>1, TypeStep, PTL DEF Spec

(***************************************************************************)
(* Tables hold rows of their types, and locals what was assigned to them.  *)
(***************************************************************************)
THEOREM TypeCorrect == Spec => []TypeOK
BY TypeHolds, PTL DEF TypeInv

-----------------------------------------------------------------------------
(***************************************************************************)
(* The inductive invariant of the tables.  Held: what a transaction has in *)
(* its locals is committed, or is its own and nobody has committed another *)
(* for that key.  Unique: of the open transactions one at most has         *)
(* inserted a key.  Winners: whoever is in the table of users or rooms     *)
(* joined under that name or in that room, and has a Session row.          *)
(***************************************************************************)
Held ==
  \A c \in Connections :
     /\ user[c] = c => users[name[c]] = None
     /\ user[c] \notin {c, None} => users[name[c]] = user[c]
     /\ room[c] = c => rooms[slug[c]] = None
     /\ room[c] \notin {c, None} => rooms[slug[c]] # None /\ rooms[slug[c]].id = room[c]

Unique ==
  \A c, d \in Connections : c # d =>
     /\ user[c] = c /\ user[d] = d => name[c] # name[d]
     /\ room[c] = c /\ room[d] = d => slug[c] # slug[d]

Winners ==
  /\ \A n \in Names, d \in Connections : users[n] = d => name[d] = n /\ rows[d] # None
  /\ \A s \in Slugs, d \in Connections :
        rooms[s] # None /\ rooms[s].id = d => slug[d] = s /\ rows[d] # None

RefInv == Held /\ Unique /\ Winners /\ RefsExist

(***************************************************************************)
(* What landing the transactions J does: an entry that was there stays, a  *)
(* new one is of a transaction of J that inserted it, and whatever the     *)
(* transactions of J refer to is there afterwards.                         *)
(***************************************************************************)
LEMMA Landing ==
  ASSUME TypeInv, RefInv, NEW J \in SUBSET Connections,
         \A c \in J : pc[c] = "commit", Landed(J)
  PROVE  /\ \A n \in Names : users[n] # None => users'[n] = users[n]
         /\ \A s \in Slugs : rooms[s] # None => rooms'[s] = rooms[s]
         /\ \A n \in Names : users'[n] = users[n]
               \/ \E c \in J : user[c] = c /\ name[c] = n /\ users'[n] = c
         /\ \A s \in Slugs : rooms'[s] = rooms[s]
               \/ \E c \in J : /\ room[c] = c /\ slug[c] = s
                               /\ rooms'[s] = [id |-> c, owner |-> user[c]]
         /\ \A c \in J : users'[name[c]] = user[c]
         /\ \A c \in J : rooms'[slug[c]] # None /\ rooms'[slug[c]].id = room[c]
<1> USE DEF TypeInv, TypeOK, Locals, HasUser, HasRoom
<1>1. \A c \in J : /\ name[c] \in Names /\ slug[c] \in Slugs
                   /\ user[c] \in Connections /\ room[c] \in Connections
  OBVIOUS
<1>2. /\ users' = NewUsers(J)
      /\ rooms' = NewRooms(J)
  BY DEF Landed
<1>3. ASSUME NEW n \in Names, NEW c \in J, user[c] = c, name[c] = n
      PROVE  users'[n] = c /\ users[n] = None
  <2>1. \A d \in J : user[d] = d /\ name[d] = n => d = c
    BY <1>3 DEF RefInv, Unique
  <2>2. (CHOOSE d \in J : user[d] = d /\ name[d] = n) = c
    BY <1>3, <2>1
  <2>3. users'[n] = CHOOSE d \in J : user[d] = d /\ name[d] = n
    BY <1>2, <1>3 DEF NewUsers
  <2>4. users[n] = None
    BY <1>3 DEF RefInv, Held
  <2> QED BY <2>2, <2>3, <2>4
<1>4. ASSUME NEW s \in Slugs, NEW c \in J, room[c] = c, slug[c] = s
      PROVE  rooms'[s] = [id |-> c, owner |-> user[c]] /\ rooms[s] = None
  <2>1. \A d \in J : room[d] = d /\ slug[d] = s => d = c
    BY <1>4 DEF RefInv, Unique
  <2>2. (CHOOSE d \in J : room[d] = d /\ slug[d] = s) = c
    BY <1>4, <2>1
  <2>3. rooms'[s] = LET d == CHOOSE d \in J : room[d] = d /\ slug[d] = s
                    IN  [id |-> d, owner |-> user[d]]
    BY <1>2, <1>4 DEF NewRooms
  <2>4. rooms[s] = None
    BY <1>4 DEF RefInv, Held
  <2> QED BY <2>2, <2>3, <2>4
<1>5. ASSUME NEW n \in Names, ~ \E c \in J : user[c] = c /\ name[c] = n
      PROVE  users'[n] = users[n]
  BY <1>2, <1>5 DEF NewUsers
<1>6. ASSUME NEW s \in Slugs, ~ \E c \in J : room[c] = c /\ slug[c] = s
      PROVE  rooms'[s] = rooms[s]
  BY <1>2, <1>6 DEF NewRooms
<1>7. ASSUME NEW c \in J PROVE users'[name[c]] = user[c]
  <2>1. CASE user[c] = c
    BY <1>1, <1>3, <2>1
  <2>2. CASE user[c] # c
    <3>1. users[name[c]] = user[c] /\ users[name[c]] # None
      BY <1>1, <2>2 DEF RefInv, Held
    <3> QED BY <1>1, <1>3, <1>5, <3>1
  <2> QED BY <2>1, <2>2
<1>8. ASSUME NEW c \in J PROVE rooms'[slug[c]] # None /\ rooms'[slug[c]].id = room[c]
  <2>1. CASE room[c] = c
    <3>1. rooms'[slug[c]] = [id |-> c, owner |-> user[c]]
      BY <1>1, <1>4, <2>1
    <3>2. rooms'[slug[c]] \in [id : Connections, owner : Connections]
      BY <1>1, <3>1
    <3> QED BY <2>1, <3>1, <3>2
  <2>2. CASE room[c] # c
    <3>1. rooms[slug[c]] # None /\ rooms[slug[c]].id = room[c]
      BY <1>1, <2>2 DEF RefInv, Held
    <3> QED BY <1>1, <1>4, <1>6, <3>1
  <2> QED BY <2>1, <2>2
<1>9. \A n \in Names : users[n] # None => users'[n] = users[n]
  BY <1>3, <1>5
<1>10. \A s \in Slugs : rooms[s] # None => rooms'[s] = rooms[s]
  BY <1>4, <1>6
<1>11. \A n \in Names : users'[n] = users[n]
          \/ \E c \in J : user[c] = c /\ name[c] = n /\ users'[n] = c
  BY <1>3, <1>5
<1>12. \A s \in Slugs : rooms'[s] = rooms[s]
          \/ \E c \in J : /\ room[c] = c /\ slug[c] = s
                          /\ rooms'[s] = [id |-> c, owner |-> user[c]]
  BY <1>4, <1>6
<1> QED BY <1>7, <1>8, <1>9, <1>10, <1>11, <1>12

(***************************************************************************)
(* The steps that end joins, or touch no table: the transactions J land    *)
(* with their Session rows, other rows keep what they refer to, and no     *)
(* transaction holds more than before.                                     *)
(***************************************************************************)
Settles(J) ==
  /\ \A c \in J : pc[c] = "commit"
  /\ Landed(J)
  /\ UNCHANGED <<name, slug>>
  /\ \A c \in J : rows'[c] = NewRow(c) /\ user'[c] = None /\ room'[c] = None
  /\ \A c \in Connections \ J :
        /\ rows'[c] # None => /\ rows[c] # None
                              /\ rows'[c].user = rows[c].user /\ rows'[c].room = rows[c].room
        /\ rows[c] # None => rows'[c] # None
        /\ user'[c] \in {user[c], None}
        /\ room'[c] \in {room[c], None}

LEMMA SettlesRef ==
  ASSUME TypeInv, TypeInv', RefInv, NEW J \in SUBSET Connections, Settles(J)
  PROVE  RefInv'
<1> DEFINE Lands ==
      /\ \A n \in Names : users[n] # None => users'[n] = users[n]
      /\ \A s \in Slugs : rooms[s] # None => rooms'[s] = rooms[s]
      /\ \A n \in Names : users'[n] = users[n]
            \/ \E c \in J : user[c] = c /\ name[c] = n /\ users'[n] = c
      /\ \A s \in Slugs : rooms'[s] = rooms[s]
            \/ \E c \in J : /\ room[c] = c /\ slug[c] = s
                            /\ rooms'[s] = [id |-> c, owner |-> user[c]]
      /\ \A c \in J : users'[name[c]] = user[c]
      /\ \A c \in J : rooms'[slug[c]] # None /\ rooms'[slug[c]].id = room[c]
<1>1. Lands
  BY Landing DEF Settles
<1> HIDE DEF Lands
<1>2. /\ \A c \in J : /\ pc[c] = "commit" /\ rows'[c] = NewRow(c)
                      /\ user'[c] = None /\ room'[c] = None
      /\ \A c \in Connections \ J :
            /\ rows'[c] # None => /\ rows[c] # None
                                  /\ rows'[c].user = rows[c].user
                                  /\ rows'[c].room = rows[c].room
            /\ rows[c] # None => rows'[c] # None
            /\ user'[c] \in {user[c], None}
            /\ room'[c] \in {room[c], None}
      /\ name' = name /\ slug' = slug
  BY DEF Settles
<1>3. \A c \in J : /\ name[c] \in Names /\ slug[c] \in Slugs
                   /\ user[c] \in Connections /\ room[c] \in Connections
  BY <1>2 DEF TypeInv, TypeOK, Locals, HasUser, HasRoom
<1>4. \A c \in J : /\ rows'[c] # None
                   /\ rows'[c].user = user[c] /\ rows'[c].room = room[c]
  <2> SUFFICES ASSUME NEW c \in J
               PROVE  /\ rows'[c] # None
                      /\ rows'[c].user = user[c] /\ rows'[c].room = room[c]
    OBVIOUS
  <2>1. rows'[c] = [user |-> user[c], room |-> room[c], open |-> TRUE]
    BY <1>2 DEF NewRow
  <2>2. rows'[c] \in [user : Connections, room : Connections, open : BOOLEAN]
    BY <1>3, <2>1
  <2>3. rows'[c] # None
    BY <2>2
  <2>4. rows'[c].user = user[c] /\ rows'[c].room = room[c]
    BY <2>1
  <2> QED BY <2>3, <2>4
<1>5. \A c \in Connections : (user'[c] # None => name[c] \in Names /\ c \notin J /\ user'[c] = user[c])
                          /\ (room'[c] # None => slug[c] \in Slugs /\ c \notin J /\ room'[c] = room[c])
  BY <1>2 DEF TypeInv, TypeOK, Locals, HasUser, HasRoom
<1>6. Held'
  <2> SUFFICES ASSUME NEW c \in Connections
               PROVE  /\ user'[c] = c => users'[name[c]] = None
                      /\ user'[c] \notin {c, None} => users'[name[c]] = user'[c]
                      /\ room'[c] = c => rooms'[slug[c]] = None
                      /\ room'[c] \notin {c, None} => /\ rooms'[slug[c]] # None
                                                      /\ rooms'[slug[c]].id = room'[c]
    BY <1>2 DEF Held
  <2>1. ASSUME user'[c] = c PROVE users'[name[c]] = None
    <3>1. c \notin J /\ user[c] = c /\ name[c] \in Names /\ users[name[c]] = None
      BY <1>5, <2>1 DEF RefInv, Held
    <3>2. ~ \E d \in J : user[d] = d /\ name[d] = name[c]
      BY <3>1 DEF RefInv, Unique
    <3> QED BY <1>1, <3>1, <3>2 DEF Lands
  <2>2. ASSUME user'[c] \notin {c, None} PROVE users'[name[c]] = user'[c]
    <3>1. user'[c] = user[c] /\ name[c] \in Names /\ users[name[c]] = user[c]
      BY <1>5, <2>2 DEF RefInv, Held
    <3> QED BY <1>1, <2>2, <3>1 DEF Lands
  <2>3. ASSUME room'[c] = c PROVE rooms'[slug[c]] = None
    <3>1. c \notin J /\ room[c] = c /\ slug[c] \in Slugs /\ rooms[slug[c]] = None
      BY <1>5, <2>3 DEF RefInv, Held
    <3>2. ~ \E d \in J : room[d] = d /\ slug[d] = slug[c]
      BY <3>1 DEF RefInv, Unique
    <3> QED BY <1>1, <3>1, <3>2 DEF Lands
  <2>4. ASSUME room'[c] \notin {c, None}
        PROVE  rooms'[slug[c]] # None /\ rooms'[slug[c]].id = room'[c]
    <3>1. /\ room'[c] = room[c] /\ slug[c] \in Slugs
          /\ rooms[slug[c]] # None /\ rooms[slug[c]].id = room[c]
      BY <1>5, <2>4 DEF RefInv, Held
    <3> QED BY <1>1, <2>4, <3>1 DEF Lands
  <2> QED BY <2>1, <2>2, <2>3, <2>4
<1>7. Unique'
  BY <1>2, <1>5 DEF RefInv, Unique
<1>8. Winners'
  <2>1. ASSUME NEW n \in Names, NEW d \in Connections, users'[n] = d
        PROVE  name'[d] = n /\ rows'[d] # None
    BY <1>1, <1>2, <1>4, <2>1 DEF Lands, RefInv, Winners
  <2>2. ASSUME NEW s \in Slugs, NEW d \in Connections, rooms'[s] # None, rooms'[s].id = d
        PROVE  slug'[d] = s /\ rows'[d] # None
    <3>1. CASE rooms'[s] = rooms[s]
      <4>1. slug[d] = s /\ rows[d] # None
        BY <2>2, <3>1 DEF RefInv, Winners
      <4> QED BY <1>2, <1>4, <4>1
    <3>2. ASSUME NEW c \in J, slug[c] = s, rooms'[s] = [id |-> c, owner |-> user[c]]
          PROVE  slug'[d] = s /\ rows'[d] # None
      BY <1>2, <1>4, <2>2, <3>2
    <3> QED BY <1>1, <3>1, <3>2 DEF Lands
  <2> QED BY <2>1, <2>2 DEF Winners
<1>9. RefsExist'
  <2>1. ASSUME NEW c \in Connections, rows'[c] # None
        PROVE  /\ users'[name[c]] = rows'[c].user
               /\ rooms'[slug[c]] # None /\ rooms'[slug[c]].id = rows'[c].room
    <3>1. CASE c \in J
      BY <1>1, <1>4, <3>1 DEF Lands
    <3>2. CASE c \notin J
      <4>1. /\ rows[c] # None
            /\ rows'[c].user = rows[c].user /\ rows'[c].room = rows[c].room
        BY <1>2, <2>1, <3>2
      <4>2. /\ users[name[c]] = rows[c].user
            /\ rooms[slug[c]] # None /\ rooms[slug[c]].id = rows[c].room
        BY <4>1 DEF RefInv, RefsExist
      <4>3. name[c] \in Names /\ slug[c] \in Slugs /\ rows[c].user # None
        BY <4>1 DEF TypeInv, TypeOK, Locals, SessionRows
      <4> QED BY <1>1, <4>1, <4>2, <4>3 DEF Lands
    <3> QED BY <3>1, <3>2
  <2>2. ASSUME NEW s \in Slugs, rooms'[s] # None
        PROVE  \E n \in Names : users'[n] = rooms'[s].owner
    <3>1. CASE rooms'[s] = rooms[s]
      <4>1. PICK n \in Names : users[n] = rooms[s].owner
        BY <2>2, <3>1 DEF RefInv, RefsExist
      <4>2. users[n] # None
        BY <2>2, <3>1, <4>1 DEF TypeInv, TypeOK, RoomRows
      <4> QED BY <1>1, <3>1, <4>1, <4>2 DEF Lands
    <3>2. ASSUME NEW c \in J, rooms'[s] = [id |-> c, owner |-> user[c]]
          PROVE  \E n \in Names : users'[n] = rooms'[s].owner
      BY <1>1, <1>3, <3>2 DEF Lands
    <3>3. \/ rooms'[s] = rooms[s]
          \/ \E c \in J : rooms'[s] = [id |-> c, owner |-> user[c]]
      BY <1>1 DEF Lands
    <3> QED BY <3>1, <3>2, <3>3
  <2> QED BY <1>2, <2>1, <2>2 DEF RefsExist
<1> QED BY <1>6, <1>7, <1>8, <1>9 DEF RefInv

LEMMA RefStep == TypeInv /\ TypeInv' /\ RefInv /\ [Next]_vars => RefInv'
<1> SUFFICES ASSUME TypeInv, TypeInv', RefInv, [Next]_vars PROVE RefInv'
  OBVIOUS
<1> USE DEF stored, past
<1>1. ASSUME UNCHANGED <<users, rooms>> PROVE Landed({})
  BY <1>1 DEF Landed, NewUsers, NewRooms, TypeInv, TypeOK
<1>2. ASSUME NEW c \in Connections,
             /\ rows'[c] # None => /\ rows[c] # None
                                   /\ rows'[c].user = rows[c].user /\ rows'[c].room = rows[c].room
             /\ rows[c] # None => rows'[c] # None,
             \A d \in Connections \ {c} : rows'[d] = rows[d],
             UNCHANGED <<users, rooms, name, slug>>,
             \A d \in Connections : user'[d] \in {user[d], None} /\ room'[d] \in {room[d], None}
      PROVE  RefInv'
  BY <1>1, <1>2, SettlesRef DEF Settles
<1>3. ASSUME NEW c \in Connections
      PROVE  /\ Closed(rows[c]) = None <=> rows[c] = None
             /\ rows[c] # None => /\ Closed(rows[c]).user = rows[c].user
                                  /\ Closed(rows[c]).room = rows[c].room
  <2>1. CASE rows[c] = None
    BY <2>1 DEF Closed
  <2>2. CASE rows[c] \in [user : Connections, room : Connections, open : BOOLEAN] /\ rows[c] # None
    <3>1. Closed(rows[c]) = [rows[c] EXCEPT !.open = FALSE]
      BY <2>2 DEF Closed
    <3>2. Closed(rows[c]) \in [user : Connections, room : Connections, open : BOOLEAN]
      BY <2>2, <3>1
    <3>3. Closed(rows[c]) # None
      BY <3>2
    <3> QED BY <2>2, <3>1, <3>3
  <2> QED BY <2>1, <2>2 DEF TypeInv, TypeOK, SessionRows
<1>4. ASSUME NEW c \in Connections, NEW n \in Names, NEW s \in Slugs, Join(c, n, s)
      PROVE  RefInv'
  <2>1. rows[c] = None /\ user[c] = None /\ room[c] = None
    BY <1>4 DEF Join, TypeInv, Locals, HasUser, HasRoom
  <2>2. /\ UNCHANGED <<users, rooms, rows, user, room>>
        /\ \A d \in Connections : d # c => name'[d] = name[d] /\ slug'[d] = slug[d]
    BY <1>4 DEF Join, TypeInv, TypeOK
  <2>3. Held'
    BY <2>1, <2>2 DEF RefInv, Held
  <2>4. Unique'
    BY <2>1, <2>2 DEF RefInv, Unique
  <2>5. Winners'
    BY <2>1, <2>2 DEF RefInv, Winners
  <2>6. RefsExist'
    BY <2>1, <2>2 DEF RefInv, RefsExist
  <2> QED BY <2>3, <2>4, <2>5, <2>6 DEF RefInv
<1>5. ASSUME NEW c \in Connections, FindUser(c) PROVE RefInv'
  <2>1. /\ name[c] \in Names /\ rows[c] = None
        /\ UNCHANGED <<users, rooms, rows, name, slug, room>>
        /\ user'[c] = users[name[c]]
        /\ \A d \in Connections : d # c => user'[d] = user[d]
    BY <1>5 DEF FindUser, TypeInv, TypeOK, Locals, JoinSteps
  <2>2. users[name[c]] # c
    BY <2>1 DEF RefInv, Winners
  <2>3. Held'
    BY <2>1, <2>2 DEF RefInv, Held
  <2>4. Unique'
    BY <2>1, <2>2 DEF RefInv, Unique
  <2> QED BY <2>1, <2>3, <2>4 DEF RefInv, Winners, RefsExist
<1>6. ASSUME NEW c \in Connections, AddUser(c) PROVE RefInv'
  <2>1. /\ UNCHANGED <<users, rooms, rows, name, slug, room>>
        /\ users[name[c]] = None /\ user'[c] = c
        /\ \A d \in Connections : d # c => user'[d] = user[d]
        /\ InsertedUser(name[c]) = {}
    BY <1>6 DEF AddUser, TypeInv, TypeOK
  <2>2. ASSUME NEW d \in Connections, user[d] = d PROVE name[d] # name[c]
    <3>1. pc[d] \in HasUser
      BY <2>2 DEF TypeInv, TypeOK, Locals
    <3> QED BY <2>1, <2>2, <3>1 DEF InsertedUser, InTransaction, HasUser, JoinSteps
  <2>3. Held'
    BY <2>1 DEF RefInv, Held
  <2>4. Unique'
    BY <2>1, <2>2 DEF RefInv, Unique
  <2> QED BY <2>1, <2>3, <2>4 DEF RefInv, Winners, RefsExist
<1>7. ASSUME NEW c \in Connections, FindRoom(c) PROVE RefInv'
  <2>1. /\ slug[c] \in Slugs /\ rows[c] = None /\ room[c] = None
        /\ UNCHANGED <<users, rooms, rows, name, slug, user>>
        /\ \/ room' = room
           \/ rooms[slug[c]] # None /\ room'[c] = rooms[slug[c]].id
        /\ \A d \in Connections : d # c => room'[d] = room[d]
    BY <1>7 DEF FindRoom, TypeInv, TypeOK, Locals, JoinSteps, HasRoom
  <2>2. rooms[slug[c]] # None => rooms[slug[c]].id # c
    BY <2>1 DEF RefInv, Winners
  <2>3. Held'
    BY <2>1, <2>2 DEF RefInv, Held
  <2>4. Unique'
    BY <2>1, <2>2 DEF RefInv, Unique
  <2> QED BY <2>1, <2>3, <2>4 DEF RefInv, Winners, RefsExist
<1>8. ASSUME NEW c \in Connections, AddRoom(c) PROVE RefInv'
  <2>1. /\ UNCHANGED <<users, rooms, rows, name, slug, user>>
        /\ rooms[slug[c]] = None /\ room'[c] = c
        /\ \A d \in Connections : d # c => room'[d] = room[d]
        /\ InsertedRoom(slug[c]) = {}
    BY <1>8 DEF AddRoom, TypeInv, TypeOK
  <2>2. ASSUME NEW d \in Connections, room[d] = d PROVE slug[d] # slug[c]
    <3>1. pc[d] \in HasRoom
      BY <2>2 DEF TypeInv, TypeOK, Locals
    <3> QED BY <2>1, <2>2, <3>1 DEF InsertedRoom, InTransaction, HasRoom, JoinSteps
  <2>3. Held'
    BY <2>1 DEF RefInv, Held
  <2>4. Unique'
    BY <2>1, <2>2 DEF RefInv, Unique
  <2> QED BY <2>1, <2>3, <2>4 DEF RefInv, Winners, RefsExist
<1>9. ASSUME NEW c \in Connections, UserExists(c) \/ RoomExists(c) \/ JoinFails(c)
      PROVE  RefInv'
  <2>1. EndJoin(c) /\ UNCHANGED <<users, rooms, rows, name, slug>>
    BY <1>9 DEF UserExists, RoomExists, Beaten, JoinFails
  <2>2. \A d \in Connections : user'[d] \in {user[d], None} /\ room'[d] \in {room[d], None}
    BY <2>1 DEF EndJoin, TypeInv, TypeOK
  <2> QED BY <1>2, <2>1, <2>2
<1>10. ASSUME NEW c \in Connections, AddRow(c) \/ Leave(c) \/ Mark(c)
       PROVE  RefInv'
  BY <1>2, <1>10 DEF AddRow, Leave, Mark
<1>11. ASSUME NEW c \in Connections, CommitMark(c) \/ LeaveFails(c) PROVE RefInv'
  <2>1. UNCHANGED <<users, rooms, name, slug, user, room>>
    BY <1>11 DEF CommitMark, LeaveFails
  <2>2. /\ rows'[c] \in {rows[c], Closed(rows[c])}
        /\ \A d \in Connections \ {c} : rows'[d] = rows[d]
    BY <1>11 DEF CommitMark, LeaveFails, TypeInv, TypeOK
  <2> QED BY <1>2, <1>3, <2>1, <2>2
<1>12. ASSUME NEW c \in Connections, Commit(c) \/ JoinAnswerLost(c) PROVE RefInv'
  <2>1. /\ pc[c] = "commit" /\ Landed({c}) /\ EndJoin(c) /\ UNCHANGED <<name, slug>>
        /\ rows' = [rows EXCEPT ![c] = NewRow(c)]
    BY <1>12 DEF Commit, JoinAnswerLost
  <2>2. /\ rows'[c] = NewRow(c) /\ user'[c] = None /\ room'[c] = None
        /\ \A d \in Connections \ {c} : rows'[d] = rows[d] /\ user'[d] = user[d] /\ room'[d] = room[d]
    BY <2>1 DEF EndJoin, TypeInv, TypeOK
  <2>3. Settles({c})
    BY <2>1, <2>2 DEF Settles
  <2> QED BY <2>3, SettlesRef
<1>13. CASE Exit
  <2>1. PICK L \in SUBSET {c \in Connections : pc[c] \in {"commit", "mark_commit"}} :
          LET J == {c \in L : pc[c] = "commit"} IN
          /\ Landed(J)
          /\ rows' = [c \in Connections |-> IF c \in J THEN NewRow(c)
                                            ELSE IF c \in L THEN Closed(rows[c])
                                            ELSE rows[c]]
    BY <1>13 DEF Exit
  <2> DEFINE J == {c \in L : pc[c] = "commit"}
  <2>2. J \in SUBSET Connections /\ \A c \in J : pc[c] = "commit"
    OBVIOUS
  <2>3. /\ Landed(J)
        /\ \A c \in J : rows'[c] = NewRow(c)
        /\ \A c \in Connections \ J : rows'[c] \in {rows[c], Closed(rows[c])}
    BY <2>1
  <2> HIDE DEF J
  <2>4. /\ \A c \in Connections : user'[c] = None /\ room'[c] = None
        /\ UNCHANGED <<name, slug>>
    BY <1>13 DEF Exit
  <2>5. Settles(J)
    BY <1>3, <2>2, <2>3, <2>4 DEF Settles
  <2> QED BY <2>2, <2>5, SettlesRef
<1>14. CASE Startup \/ UNCHANGED vars
  BY <1>14 DEF Startup, vars, RefInv, Held, Unique, Winners, RefsExist
<1> QED BY <1>4, <1>5, <1>6, <1>7, <1>8, <1>9, <1>10, <1>11, <1>12, <1>13, <1>14
        DEF Next, JoinStep, LeaveStep

LEMMA RefHolds == Spec => []RefInv
<1>1. Init => RefInv
  BY DEF Init, RefInv, Held, Unique, Winners, RefsExist
<1> QED BY <1>1, RefStep, TypeHolds, PTL DEF Spec

(***************************************************************************)
(* Whatever was rolled back, lost or interrupted: a Session row refers to  *)
(* the user and the room it is of, and a room to an owner that exists.     *)
(***************************************************************************)
THEOREM ReferencesHold == Spec => []RefsExist
BY RefHolds, PTL DEF RefInv

-----------------------------------------------------------------------------
(***************************************************************************)
(* What a closed row is: the row with open turned off.                     *)
(***************************************************************************)
LEMMA ClosedRow ==
  ASSUME NEW row \in SessionRows
  PROVE  /\ Closed(row) = None <=> row = None
         /\ row # None => ~ Closed(row).open
<1>1. CASE row = None
  BY <1>1 DEF Closed
<1>2. CASE row \in [user : Connections, room : Connections, open : BOOLEAN] /\ row # None
  <2>1. Closed(row) = [row EXCEPT !.open = FALSE]
    BY <1>2 DEF Closed
  <2>2. Closed(row) \in [user : Connections, room : Connections, open : BOOLEAN]
    BY <1>2, <2>1
  <2>3. Closed(row) # None
    BY <2>2
  <2>4. ~ Closed(row).open
    BY <1>2, <2>1
  <2> QED BY <1>2, <2>3, <2>4
<1> QED BY <1>1, <1>2 DEF SessionRows

(***************************************************************************)
(* OpenIsLive is inductive.  A connection knows its row from the commit    *)
(* whose answer it got; on_user_left closes that row, and every step that  *)
(* leaves one open behind is a failure.                                    *)
(***************************************************************************)
LEMMA OpenStep == TypeInv /\ OpenIsLive /\ [Next]_vars => OpenIsLive'
<1> SUFFICES ASSUME TypeInv, OpenIsLive, [Next]_vars PROVE OpenIsLive'
  OBVIOUS
<1> DEFINE Present(c) == id[c] /\ pc[c] \in {"in", "mark", "mark_commit"}
           Open(c) == rows[c] # None /\ rows[c].open
           Live(c) == (Open(c) => Present(c) \/ c \in lost) /\ (Present(c) => Open(c))
<1>0. ASSUME \A c \in Connections : Live(c)' PROVE OpenIsLive'
  BY <1>0 DEF OpenIsLive
<1>1. \A c \in Connections : Live(c)
  BY DEF OpenIsLive
<1>2. \A c \in Connections :
         pc[c] \in {"new"} \cup JoinSteps => rows[c] = None /\ ~ id[c]
  BY DEF TypeInv, Locals
<1> USE DEF TypeInv, TypeOK, JoinSteps, Steps, stored, past
<1>3. ASSUME NEW c \in Connections, UNCHANGED <<rows, id, lost>>,
             pc[c] \in {"new"} \cup JoinSteps,
             \E step \in JoinSteps \cup {"in"} : Goto(c, step)
      PROVE  OpenIsLive'
  <2>1. ~ Open(c)' /\ ~ Present(c)'
    BY <1>2, <1>3
  <2>2. ASSUME NEW d \in Connections, d # c PROVE Live(d)'
    BY <1>1, <1>3, <2>2 DEF Goto
  <2> QED BY <1>0, <2>1, <2>2
<1>4. ASSUME NEW c \in Connections, NEW n \in Names, NEW s \in Slugs, Join(c, n, s)
      PROVE  OpenIsLive'
  BY <1>3, <1>4 DEF Join
<1>5. ASSUME NEW c \in Connections,
             FindUser(c) \/ AddUser(c) \/ UserExists(c) \/ FindRoom(c) \/ AddRoom(c)
             \/ RoomExists(c) \/ AddRow(c) \/ JoinFails(c)
      PROVE  OpenIsLive'
  <2>1. pc[c] \in JoinSteps /\ UNCHANGED <<rows, id, lost>>
    BY <1>5 DEF FindUser, AddUser, UserExists, FindRoom, AddRoom, RoomExists, AddRow,
                JoinFails, Beaten
  <2>2. \E step \in JoinSteps \cup {"in"} : Goto(c, step)
    BY <1>5 DEF FindUser, AddUser, UserExists, FindRoom, AddRoom, RoomExists, AddRow,
                JoinFails, Beaten, EndJoin
  <2> QED BY <1>3, <2>1, <2>2
<1>6. ASSUME NEW c \in Connections, user[c] \in Connections, room[c] \in Connections
      PROVE  NewRow(c) # None /\ NewRow(c).open
  <2>1. NewRow(c) \in [user : Connections, room : Connections, open : BOOLEAN]
    BY <1>6 DEF NewRow
  <2>2. NewRow(c) # None
    BY <2>1
  <2>3. NewRow(c).open
    BY DEF NewRow
  <2> QED BY <2>2, <2>3
<1>7. ASSUME NEW c \in Connections, pc[c] = "commit"
      PROVE  NewRow(c) # None /\ NewRow(c).open
  BY <1>6, <1>7 DEF Locals, HasUser, HasRoom
<1>8. ASSUME NEW c \in Connections, Commit(c) PROVE OpenIsLive'
  <2>1. /\ rows' = [rows EXCEPT ![c] = NewRow(c)] /\ id' = [id EXCEPT ![c] = TRUE]
        /\ pc' = [pc EXCEPT ![c] = "in"] /\ lost' = lost /\ pc[c] = "commit"
    BY <1>8 DEF Commit, EndJoin, Goto
  <2>2. Live(c)'
    BY <1>7, <2>1
  <2>3. ASSUME NEW d \in Connections, d # c PROVE Live(d)'
    BY <1>1, <2>1, <2>3
  <2> QED BY <1>0, <2>2, <2>3
<1>9. ASSUME NEW c \in Connections, JoinAnswerLost(c) PROVE OpenIsLive'
  <2>1. /\ rows' = [rows EXCEPT ![c] = NewRow(c)] /\ id' = id
        /\ pc' = [pc EXCEPT ![c] = "in"] /\ lost' = lost \cup {c} /\ pc[c] = "commit"
    BY <1>9 DEF JoinAnswerLost, EndJoin, Goto
  <2>2. Live(c)'
    BY <1>2, <2>1
  <2>3. ASSUME NEW d \in Connections, d # c PROVE Live(d)'
    BY <1>1, <2>1, <2>3
  <2> QED BY <1>0, <2>2, <2>3
<1>10. ASSUME NEW c \in Connections, Leave(c) PROVE OpenIsLive'
  <2>1. UNCHANGED <<rows, id, lost>> /\ pc[c] = "in"
        /\ pc' = [pc EXCEPT ![c] = IF id[c] THEN "mark" ELSE "done"]
    BY <1>10 DEF Leave, Goto
  <2>2. ASSUME NEW d \in Connections PROVE Live(d)'
    BY <1>1, <2>1
  <2> QED BY <1>0, <2>2
<1>11. ASSUME NEW c \in Connections, Mark(c) PROVE OpenIsLive'
  <2>1. UNCHANGED <<rows, id, lost>> /\ pc[c] = "mark"
        /\ pc' = [pc EXCEPT ![c] = "mark_commit"]
    BY <1>11 DEF Mark, Goto
  <2>2. ASSUME NEW d \in Connections PROVE Live(d)'
    BY <1>1, <2>1
  <2> QED BY <1>0, <2>2
<1>12. ASSUME NEW c \in Connections PROVE ~ (Closed(rows[c]) # None /\ Closed(rows[c]).open)
  BY ClosedRow
<1>13. ASSUME NEW c \in Connections, CommitMark(c) PROVE OpenIsLive'
  <2>1. /\ UNCHANGED <<id, lost>>
        /\ rows' = [rows EXCEPT ![c] = Closed(rows[c])] /\ pc' = [pc EXCEPT ![c] = "done"]
    BY <1>13 DEF CommitMark, Goto
  <2>2. Live(c)'
    BY <1>12, <2>1
  <2>3. ASSUME NEW d \in Connections, d # c PROVE Live(d)'
    BY <1>1, <2>1, <2>3
  <2> QED BY <1>0, <2>2, <2>3
<1>14. ASSUME NEW c \in Connections, LeaveFails(c) PROVE OpenIsLive'
  <2>1. /\ id' = id /\ lost' = lost \cup {c} /\ pc' = [pc EXCEPT ![c] = "done"]
        /\ \A d \in Connections : d # c => rows'[d] = rows[d]
    BY <1>14 DEF LeaveFails, Goto
  <2>2. Live(c)'
    BY <2>1
  <2>3. ASSUME NEW d \in Connections, d # c PROVE Live(d)'
    BY <1>1, <2>1, <2>3
  <2> QED BY <1>0, <2>2, <2>3
<1>15. CASE Exit
  <2>1. PICK L \in SUBSET {c \in Connections : pc[c] \in {"commit", "mark_commit"}} :
          rows' = [c \in Connections |-> IF c \in {d \in L : pc[d] = "commit"} THEN NewRow(c)
                                         ELSE IF c \in L THEN Closed(rows[c])
                                         ELSE rows[c]]
    BY <1>15 DEF Exit
  <2>2. /\ pc' = [c \in Connections |-> IF pc[c] = "new" THEN "new" ELSE "done"]
        /\ lost' = lost \cup {c \in Connections : pc[c] \notin {"new", "done"}}
    BY <1>15 DEF Exit
  <2>3. ASSUME NEW c \in Connections PROVE Live(c)'
    <3>1. ~ Present(c)'
      BY <2>2
    <3>2. CASE pc[c] \in {"new", "done"}
      <4>1. rows'[c] = rows[c] /\ ~ Present(c)
        BY <2>1, <3>2
      <4> QED BY <1>1, <2>2, <3>1, <4>1
    <3>3. CASE pc[c] \notin {"new", "done"}
      BY <2>2, <3>1, <3>3
    <3> QED BY <3>2, <3>3
  <2> QED BY <1>0, <2>3
<1>16. CASE Startup \/ UNCHANGED vars
  BY <1>16 DEF Startup, vars, OpenIsLive
<1> QED BY <1>4, <1>5, <1>8, <1>9, <1>10, <1>11, <1>13, <1>14, <1>15, <1>16
        DEF Next, JoinStep, LeaveStep

(***************************************************************************)
(* A Session row is open exactly while its connection is there and knows   *)
(* it, unless something failed.                                            *)
(***************************************************************************)
THEOREM OpenRowsAreLive == Spec => []OpenIsLive
<1>1. Init => OpenIsLive
  BY DEF Init, OpenIsLive
<1> QED BY <1>1, OpenStep, TypeHolds, PTL DEF Spec

-----------------------------------------------------------------------------
(***************************************************************************)
(* What no step undoes: a connection that has joined keeps its name and    *)
(* its room, a Session row that is there stays, and only a refusal by a    *)
(* unique column makes a connection one that was beaten.                   *)
(***************************************************************************)
Lasting ==
  /\ \A c \in Connections :
        /\ pc[c] # "new" => pc'[c] # "new" /\ name'[c] = name[c] /\ slug'[c] = slug[c]
        /\ rows[c] # None => rows'[c] # None
  /\ \A c \in beaten' \ beaten :
        /\ pc[c] \in {"add_user", "add_room"}
        /\ pc[c] = "add_user" => users[name[c]] # None
        /\ pc[c] = "add_room" => rooms[slug[c]] # None

LEMMA Lasts == TypeInv /\ [Next]_vars => Lasting
<1> SUFFICES ASSUME TypeInv, [Next]_vars PROVE Lasting
  OBVIOUS
<1> USE DEF TypeInv, TypeOK, Steps, JoinSteps, stored, past, Lasting
<1>1. \A c \in Connections : rows[c] # None => Closed(rows[c]) # None
  BY ClosedRow
<1>2. ASSUME NEW c \in Connections, pc[c] = "commit" PROVE NewRow(c) # None
  <2>1. NewRow(c) \in [user : Connections, room : Connections, open : BOOLEAN]
    BY <1>2 DEF NewRow, Locals, HasUser, HasRoom
  <2> QED BY <2>1
<1>3. ASSUME NEW c \in Connections, NEW n \in Names, NEW s \in Slugs, Join(c, n, s)
      PROVE  Lasting
  BY <1>3 DEF Join, Goto
<1>4. ASSUME NEW c \in Connections,
             FindUser(c) \/ AddUser(c) \/ FindRoom(c) \/ AddRoom(c) \/ AddRow(c)
             \/ JoinFails(c) \/ Leave(c) \/ Mark(c)
      PROVE  Lasting
  <2>1. UNCHANGED <<rows, name, slug, beaten>>
    BY <1>4 DEF FindUser, AddUser, FindRoom, AddRoom, AddRow, JoinFails, Leave, Mark
  <2>2. \E step \in Steps \ {"new"} : Goto(c, step)
    BY <1>4 DEF FindUser, AddUser, FindRoom, AddRoom, AddRow, JoinFails, EndJoin, Leave, Mark
  <2> QED BY <2>1, <2>2 DEF Goto
<1>5. ASSUME NEW c \in Connections, UserExists(c) \/ RoomExists(c) PROVE Lasting
  BY <1>5 DEF UserExists, RoomExists, Beaten, EndJoin, Goto
<1>6. ASSUME NEW c \in Connections, Commit(c) \/ JoinAnswerLost(c) PROVE Lasting
  BY <1>2, <1>6 DEF Commit, JoinAnswerLost, EndJoin, Goto
<1>7. ASSUME NEW c \in Connections, CommitMark(c) \/ LeaveFails(c) PROVE Lasting
  BY <1>1, <1>7 DEF CommitMark, LeaveFails, Goto
<1>8. CASE Exit
  <2>1. PICK L \in SUBSET {c \in Connections : pc[c] \in {"commit", "mark_commit"}} :
          rows' = [c \in Connections |-> IF c \in {d \in L : pc[d] = "commit"} THEN NewRow(c)
                                         ELSE IF c \in L THEN Closed(rows[c])
                                         ELSE rows[c]]
    BY <1>8 DEF Exit
  <2>2. /\ pc' = [c \in Connections |-> IF pc[c] = "new" THEN "new" ELSE "done"]
        /\ UNCHANGED <<name, slug, beaten>>
    BY <1>8 DEF Exit
  <2>3. \A c \in Connections : rows[c] # None => rows'[c] # None
    BY <1>1, <1>2, <2>1
  <2> QED BY <2>2, <2>3
<1>9. CASE Startup \/ UNCHANGED vars
  BY <1>9 DEF Startup, vars
<1> QED BY <1>3, <1>4, <1>5, <1>6, <1>7, <1>8, <1>9 DEF Next, JoinStep, LeaveStep

(***************************************************************************)
(* The inductive invariant of the races: those beaten have joined, so that *)
(* neither they nor their winners change name or room afterwards.          *)
(***************************************************************************)
RaceInv == RaceHasWinner /\ \A c \in beaten : pc[c] # "new"

(***************************************************************************)
(* A connection is refused by a unique column only for the good of another *)
(* that has a Session row under the same name or in the same room.         *)
(***************************************************************************)
THEOREM BeatenByWinner == Spec => []RaceHasWinner
<1>1. Init => RaceInv
  BY DEF Init, RaceInv, RaceHasWinner
<1>2. TypeInv /\ RefInv /\ RaceInv /\ [Next]_vars => RaceInv'
  <2> SUFFICES ASSUME TypeInv, RefInv, RaceInv, [Next]_vars PROVE RaceInv'
    OBVIOUS
  <2>1. Lasting
    BY Lasts
  <2>2. ASSUME NEW c \in Connections, NEW d \in Connections,
               name[d] = name[c] \/ slug[d] = slug[c], rows[d] # None, pc[c] # "new"
        PROVE  (name'[d] = name'[c] \/ slug'[d] = slug'[c]) /\ rows'[d] # None
    <3>1. pc[d] # "new"
      BY <2>2 DEF TypeInv, Locals
    <3> QED BY <2>1, <2>2, <3>1 DEF Lasting
  <2>3. ASSUME NEW c \in beaten
        PROVE  /\ pc'[c] # "new"
               /\ \E d \in Connections \ {c} : /\ name'[d] = name'[c] \/ slug'[d] = slug'[c]
                                               /\ rows'[d] # None
    <3>1. c \in Connections /\ pc[c] # "new"
      BY DEF TypeInv, TypeOK, RaceInv
    <3>2. PICK d \in Connections \ {c} : (name[d] = name[c] \/ slug[d] = slug[c]) /\ rows[d] # None
      BY DEF RaceInv, RaceHasWinner
    <3> QED BY <2>1, <2>2, <3>1, <3>2 DEF Lasting
  <2>4. ASSUME NEW c \in beaten' \ beaten, c \in Connections
        PROVE  /\ pc'[c] # "new"
               /\ \E d \in Connections \ {c} : /\ name'[d] = name'[c] \/ slug'[d] = slug'[c]
                                               /\ rows'[d] # None
    <3>1. /\ pc[c] # "new" /\ rows[c] = None /\ name[c] \in Names /\ slug[c] \in Slugs
          /\ users[name[c]] # None \/ rooms[slug[c]] # None
      BY <2>1, <2>4 DEF Lasting, TypeInv, Locals, JoinSteps
    <3>2. PICK d \in Connections : (name[d] = name[c] \/ slug[d] = slug[c]) /\ rows[d] # None
      <4>1. CASE users[name[c]] # None
        <5>1. users[name[c]] \in Connections
          BY <3>1, <4>1 DEF TypeInv, TypeOK, UserRows
        <5> QED BY <3>1, <5>1 DEF RefInv, Winners
      <4>2. CASE rooms[slug[c]] # None
        <5>1. rooms[slug[c]].id \in Connections
          BY <3>1, <4>2 DEF TypeInv, TypeOK, RoomRows
        <5> QED BY <3>1, <4>2, <5>1 DEF RefInv, Winners
      <4> QED BY <3>1, <4>1, <4>2
    <3> QED BY <2>1, <2>2, <2>4, <3>1, <3>2 DEF Lasting
  <2>5. beaten' \subseteq Connections
    BY TypeStep DEF TypeInv, TypeOK
  <2> QED BY <2>3, <2>4, <2>5 DEF RaceInv, RaceHasWinner
<1>3. RaceInv => RaceHasWinner
  BY DEF RaceInv
<1> QED BY <1>1, <1>2, <1>3, TypeHolds, RefHolds, PTL DEF Spec
=============================================================================
