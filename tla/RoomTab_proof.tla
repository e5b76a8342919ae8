----------------------------- MODULE RoomTab_proof -----------------------------
(* Proofs about RoomTab, for all values of its constants. *)
EXTENDS RoomTab, SequenceTheorems, TLAPS

USE TabAssumption

(***************************************************************************)
(* The effect leaves well-typed sockets, whatever it is restarted with.    *)
(***************************************************************************)
LEMMA ConnectType ==
  ASSUME TypeOK, session' \in Sessions, Connect
  PROVE  /\ ws' \in Sockets \cup {NoSocket}
         /\ phase' \in [Sockets -> {"connecting", "open", "closed"}]
         /\ as' \in [Sockets -> Sessions]
         /\ state' \in {"connecting", "open", "closed"}
<1>1. PICK s \in Sockets \ {ws} :
        /\ ws' = s
        /\ phase' = [Detached EXCEPT ![s] = "connecting"]
        /\ as' = [as EXCEPT ![s] = session']
        /\ state' = "connecting"
  BY DEF Connect
<1>2. Detached \in [Sockets -> {"connecting", "open", "closed"}]
  BY DEF TypeOK, Detached
<1> QED BY <1>1, <1>2 DEF TypeOK

LEMMA RestartType ==
  ASSUME TypeOK, session' \in Sessions, NEW enabled \in BOOLEAN, Restart(enabled)
  PROVE  /\ ws' \in Sockets \cup {NoSocket}
         /\ phase' \in [Sockets -> {"connecting", "open", "closed"}]
         /\ as' \in [Sockets -> Sessions]
         /\ timer' \in BOOLEAN
         /\ state' \in {"connecting", "open", "closed"}
<1>1. CASE enabled
  BY <1>1, ConnectType DEF Restart
<1>2. CASE ~ enabled
  BY <1>2 DEF Restart, TypeOK, Detached
<1> QED BY <1>1, <1>2

(***************************************************************************)
(* Every step keeps the types.                                             *)
(***************************************************************************)
LEMMA TypeStep == TypeOK /\ [Next]_vars => TypeOK'
<1> SUFFICES ASSUME TypeOK, [Next]_vars PROVE TypeOK'
  OBVIOUS
<1> USE DEF TypeOK, authVars, sockVars
<1>1. CASE AuthAnswers
  <2> session' \in Sessions /\ TRUE \in BOOLEAN
    BY <1>1 DEF AuthAnswers
  <2>1. CASE Restart(TRUE)
    BY <1>1, <2>1, RestartType DEF AuthAnswers
  <2>2. CASE UNCHANGED sockVars
    BY <1>1, <2>2 DEF AuthAnswers
  <2> QED BY <1>1, <2>1, <2>2 DEF AuthAnswers
<1>2. CASE AuthFails
  <2>1. session' \in Sessions /\ FALSE \in BOOLEAN /\ Restart(FALSE)
    BY <1>2 DEF AuthFails
  <2> QED BY <1>2, <2>1, RestartType DEF AuthFails
<1>3. CASE Expire
  BY <1>3 DEF Expire
<1>4. CASE TimerFires
  <2>1. session' \in Sessions /\ Connect
    BY <1>4 DEF TimerFires
  <2> QED BY <1>4, <2>1, ConnectType DEF TimerFires
<1>5. CASE Opens
  <2>1. ws \in Sockets
    BY <1>5 DEF Opens
  <2>2. /\ phase' \in [Sockets -> {"connecting", "open", "closed"}]
        /\ wire' \in [Sockets -> Seq(Commands)]
    BY <1>5, <2>1 DEF Opens
  <2>3. queue' \in Seq(Commands)
    BY <1>5 DEF Opens
  <2> QED BY <1>5, <2>2, <2>3 DEF Opens
<1>6. CASE Closes
  BY <1>6 DEF Closes
<1>7. CASE Message
  BY <1>7 DEF Message, Connected, Sessions
<1>8. CASE Type
  <2>1. [n |-> typed', room |-> session.room] \in Commands
    BY <1>8 DEF Type, Commands, Sessions
  <2>2. typed' \in 0..MaxTyped
    BY <1>8 DEF Type
  <2>3. wire' \in [Sockets -> Seq(Commands)] /\ queue' \in Seq(Commands)
    <3>1. CASE Connected
      <4>1. wire[ws] \in Seq(Commands)
        BY <3>1 DEF Connected
      <4>2. Append(wire[ws], [n |-> typed', room |-> session.room]) \in Seq(Commands)
        BY <4>1, <2>1
      <4> QED BY <1>8, <3>1, <4>2 DEF Type, Connected
    <3>2. CASE ~ Connected
      <4>1. queue' = Append(queue, [n |-> typed', room |-> session.room])
        BY <1>8, <3>2 DEF Type
      <4> QED BY <1>8, <2>1, <3>2, <4>1 DEF Type
    <3> QED BY <3>1, <3>2
  <2> QED BY <1>8, <2>2, <2>3 DEF Type
<1>9. ASSUME NEW next \in Sessions, ChangeSession(next) PROVE TypeOK'
  <2>1. session' \in Sessions /\ Restart(auth.status = "ok" /\ auth.for = next)
    BY <1>9 DEF ChangeSession
  <2>2. store' \subseteq Rooms /\ changes' \in 0..MaxChanges
    BY <1>9 DEF ChangeSession
  <2> QED BY <1>9, <2>1, <2>2, RestartType DEF ChangeSession
<1>10. ASSUME NEW s \in Sockets, Receives(s) PROVE TypeOK'
  <2>1. wire[s] \in Seq(Commands) /\ wire[s] # <<>> /\ as[s].room \in Rooms
    BY <1>10 DEF Receives, Sessions
  <2>2. Head(wire[s]) \in Commands /\ Tail(wire[s]) \in Seq(Commands)
    BY <2>1
  <2>3. received' \in [Rooms -> Seq(Commands)]
    <3>1. received[as[s].room] \in Seq(Commands)
      BY <2>1
    <3>2. Append(received[as[s].room], Head(wire[s])) \in Seq(Commands)
      BY <2>2, <3>1, AppendProperties
    <3> QED BY <1>10, <3>2 DEF Receives
  <2>4. wire' \in [Sockets -> Seq(Commands)]
    BY <1>10, <2>2 DEF Receives
  <2> QED BY <1>10, <2>3, <2>4 DEF Receives
<1>11. ASSUME NEW s \in Sockets, Loses(s) PROVE TypeOK'
  <2>1. wire' \in [Sockets -> Seq(Commands)]
    BY <1>11 DEF Loses
  <2> QED BY <1>11, <2>1 DEF Loses
<1>12. CASE UNCHANGED vars
  BY <1>12 DEF vars
<1> QED BY <1>1, <1>2, <1>3, <1>4, <1>5, <1>6, <1>7, <1>8, <1>9, <1>10, <1>11,
           <1>12 DEF Next

(***************************************************************************)
(* The variables have their types: a socket with handlers is a socket, and *)
(* what waits or travels is made of commands.                              *)
(***************************************************************************)
THEOREM TypeCorrect == Spec => []TypeOK
<1>1. Init => TypeOK
  <2> SUFFICES ASSUME Init PROVE TypeOK
    OBVIOUS
  <2>1. <<>> \in Seq(Commands)
    OBVIOUS
  <2>2. /\ wire \in [Sockets -> Seq(Commands)] /\ queue \in Seq(Commands)
        /\ received \in [Rooms -> Seq(Commands)]
    BY <2>1 DEF Init
  <2>3. auth \in [for : Sessions, status : {"none", "ok", "error"}, expired : BOOLEAN]
    BY DEF Init
  <2>4. /\ phase \in [Sockets -> {"connecting", "open", "closed"}]
        /\ as \in [Sockets -> Sessions]
        /\ store \subseteq Rooms /\ typed \in 0..MaxTyped /\ changes \in 0..MaxChanges
    BY DEF Init
  <2>5. /\ session \in Sessions /\ asking \in BOOLEAN /\ timer \in BOOLEAN
        /\ ws \in Sockets \cup {NoSocket} /\ state \in {"connecting", "open", "closed"}
    BY DEF Init
  <2> QED BY <2>2, <2>3, <2>4, <2>5 DEF TypeOK
<1> QED BY <1>1, TypeStep, PTL DEF Spec

-----------------------------------------------------------------------------
(***************************************************************************)
(* The inductive invariant of the connection.  A timer is only left by a   *)
(* connection that had a token, and survives neither a new one nor a new   *)
(* session; what the hook shows is the phase of the socket it listens to.  *)
(***************************************************************************)
ConnInv ==
  /\ OneConnection
  /\ timer => Enabled
  /\ ws # NoSocket => phase[ws] # "closed" /\ state = phase[ws]
  /\ Enabled /\ ws = NoSocket => state # "open"
  /\ StoreIsOfRoom

(***************************************************************************)
(* The effect builds ConnInv up again, for the session now shown, if it is *)
(* restarted with a token exactly when there is one.                       *)
(***************************************************************************)
LEMMA RestartConn ==
  ASSUME TypeOK, ConnInv, TypeOK', StoreIsOfRoom',
         Restart(Enabled') \/ (Enabled' /\ timer' = FALSE /\ Connect)
  PROVE  ConnInv'
<1>1. timer' = FALSE
  BY DEF Restart
<1>2. CASE Enabled' /\ Connect
  <2>1. PICK s \in Sockets \ {ws} :
          /\ ws' = s
          /\ phase' = [Detached EXCEPT ![s] = "connecting"]
          /\ as' = [as EXCEPT ![s] = session']
          /\ state' = "connecting"
    BY <1>2 DEF Connect
  <2>2. phase'[s] = "connecting" /\ as'[s] = session'
    BY <2>1 DEF TypeOK, Detached
  <2>3. ASSUME NEW t \in Sockets, phase'[t] # "closed" PROVE t = ws'
    BY <2>1, <2>3 DEF TypeOK, ConnInv, OneConnection, Detached
  <2> QED BY <1>1, <1>2, <2>1, <2>2, <2>3 DEF ConnInv, OneConnection
<1>3. CASE ~ Enabled' /\ ws' = NoSocket /\ phase' = Detached
  <2>1. ASSUME NEW t \in Sockets, phase'[t] # "closed" PROVE FALSE
    BY <1>3, <2>1 DEF TypeOK, ConnInv, OneConnection, Detached
  <2> QED BY <1>1, <1>3, <2>1 DEF ConnInv, OneConnection
<1> QED BY <1>2, <1>3 DEF Restart

LEMMA ConnStep == TypeOK /\ TypeOK' /\ ConnInv /\ [Next]_vars => ConnInv'
<1> SUFFICES ASSUME TypeOK, TypeOK', ConnInv, [Next]_vars PROVE ConnInv'
  OBVIOUS
<1> USE DEF authVars, sockVars
<1>1. CASE AuthAnswers
  <2>1. Enabled' /\ StoreIsOfRoom'
    BY <1>1 DEF AuthAnswers, Enabled, ConnInv, StoreIsOfRoom
  <2>2. CASE Restart(TRUE)
    BY <2>1, <2>2, RestartConn DEF Restart
  <2>3. CASE Enabled /\ UNCHANGED sockVars
    BY <1>1, <2>1, <2>3 DEF AuthAnswers, ConnInv, OneConnection
  <2> QED BY <1>1, <2>2, <2>3 DEF AuthAnswers
<1>2. CASE AuthFails
  <2>1. ~ Enabled' /\ StoreIsOfRoom' /\ Restart(FALSE)
    BY <1>2 DEF AuthFails, Enabled, ConnInv, StoreIsOfRoom
  <2> QED BY <2>1, RestartConn DEF Restart
<1>3. CASE Expire
  <2>1. Enabled' <=> Enabled
    BY <1>3 DEF Expire, Enabled, TypeOK
  <2> QED BY <1>3, <2>1 DEF Expire, ConnInv, OneConnection, StoreIsOfRoom
<1>4. CASE TimerFires
  <2>1. Enabled' /\ StoreIsOfRoom' /\ timer' = FALSE /\ Connect
    BY <1>4 DEF TimerFires, ConnInv, Enabled, StoreIsOfRoom
  <2> QED BY <2>1, RestartConn
<1>5. CASE Opens
  <2>1. ws \in Sockets /\ phase' = [phase EXCEPT ![ws] = "open"] /\ state' = "open"
    BY <1>5 DEF Opens, TypeOK
  <2>2. UNCHANGED <<session, auth, ws, as, timer, store>>
    BY <1>5 DEF Opens
  <2> QED BY <2>1, <2>2 DEF ConnInv, OneConnection, StoreIsOfRoom, Enabled, TypeOK
<1>6. CASE Closes
  <2>1. ws \in Sockets /\ phase' = [phase EXCEPT ![ws] = "closed"]
    BY <1>6 DEF Closes, TypeOK
  <2>2. /\ UNCHANGED <<session, auth, as, store>>
        /\ ws' = NoSocket /\ state' = "closed" /\ timer'
    BY <1>6 DEF Closes
  <2>3. Enabled
    BY <2>1 DEF ConnInv, OneConnection
  <2> QED BY <2>1, <2>2, <2>3 DEF ConnInv, OneConnection, StoreIsOfRoom, Enabled, TypeOK
<1>7. CASE Message
  <2>1. as[ws] = session
    BY <1>7 DEF Message, Connected, ConnInv, OneConnection
  <2> QED BY <1>7, <2>1 DEF Message, ConnInv, OneConnection, StoreIsOfRoom, Enabled
<1>8. CASE Type
  BY <1>8 DEF Type, ConnInv, OneConnection, StoreIsOfRoom, Enabled
<1>9. ASSUME NEW next \in Sessions, ChangeSession(next) PROVE ConnInv'
  <2>1. Restart(auth.status = "ok" /\ auth.for = next) /\ UNCHANGED auth /\ session' = next
    BY <1>9 DEF ChangeSession
  <2>2. StoreIsOfRoom'
    BY <1>9 DEF ChangeSession, ConnInv, StoreIsOfRoom
  <2>3. Enabled' <=> (auth.status = "ok" /\ auth.for = next)
    BY <2>1 DEF Enabled
  <2> QED BY <2>1, <2>2, <2>3, RestartConn DEF Restart
<1>10. ASSUME NEW s \in Sockets, Receives(s) PROVE ConnInv'
  BY <1>10 DEF Receives, ConnInv, OneConnection, StoreIsOfRoom, Enabled
<1>11. ASSUME NEW s \in Sockets, Loses(s) PROVE ConnInv'
  BY <1>11 DEF Loses, ConnInv, OneConnection, StoreIsOfRoom, Enabled
<1>12. CASE UNCHANGED vars
  BY <1>12 DEF vars, ConnInv, OneConnection, StoreIsOfRoom, Enabled
<1> QED BY <1>1, <1>2, <1>3, <1>4, <1>5, <1>6, <1>7, <1>8, <1>9, <1>10, <1>11,
           <1>12 DEF Next

LEMMA ConnHolds == Spec => []ConnInv
<1>1. Init => ConnInv
  BY DEF Init, ConnInv, OneConnection, StoreIsOfRoom, Enabled
<1>2. TypeOK /\ TypeOK' /\ ConnInv /\ [Next]_vars => ConnInv'
  BY ConnStep
<1> QED BY <1>1, <1>2, TypeCorrect, PTL DEF Spec

(***************************************************************************)
(* However answers, timers, failures and changes of room are interleaved,  *)
(* at most one socket is alive, for the session shown, and with no         *)
(* reconnection pending beside it.                                         *)
(***************************************************************************)
THEOREM ListensToOne == Spec => []OneConnection
BY ConnHolds, PTL DEF ConnInv

(***************************************************************************)
(* The store holds messages of the room shown and of no other.             *)
(***************************************************************************)
THEOREM StoreOfRoomShown == Spec => []StoreIsOfRoom
BY ConnHolds, PTL DEF ConnInv

(***************************************************************************)
(* With a token at hand, the tab says it is online exactly when its socket *)
(* is open.                                                                *)
(***************************************************************************)
THEOREM ShowsOnline == Spec => []OnlineIsTrue
<1>1. ConnInv => OnlineIsTrue
  BY DEF ConnInv, OnlineIsTrue, Connected
<1> QED BY <1>1, ConnHolds, PTL

-----------------------------------------------------------------------------
(***************************************************************************)
(* The numbers of the commands in a sequence, which Numbers collects, when *)
(* a command is added at its end or taken from its front.                  *)
(***************************************************************************)
LEMMA NumbersOfEmpty == Numbers(<<>>) = {} /\ Distinct(<<>>)
BY DEF Numbers, Distinct

LEMMA NumbersOfAppend ==
  ASSUME NEW p \in Seq(Commands), NEW c \in Commands
  PROVE  /\ Numbers(Append(p, c)) = Numbers(p) \cup {c.n}
         /\ Distinct(p) /\ c.n \notin Numbers(p) => Distinct(Append(p, c))
<1>1. /\ Len(p) \in Nat /\ DOMAIN p = 1..Len(p)
      /\ DOMAIN Append(p, c) = 1..(Len(p) + 1)
      /\ Append(p, c)[Len(p) + 1] = c
      /\ \A i \in 1..Len(p) : Append(p, c)[i] = p[i]
  OBVIOUS
<1> DEFINE q == Append(p, c)
<1>2. ASSUME NEW i \in DOMAIN q PROVE i \in DOMAIN p \/ i = Len(p) + 1
  BY <1>1
<1>3. Numbers(q) \subseteq Numbers(p) \cup {c.n}
  BY <1>1, <1>2 DEF Numbers
<1>4. Numbers(p) \cup {c.n} \subseteq Numbers(q)
  <2>1. ASSUME NEW i \in DOMAIN p PROVE i \in DOMAIN q /\ q[i] = p[i]
    BY <1>1
  <2>2. Len(p) + 1 \in DOMAIN q /\ q[Len(p) + 1] = c
    BY <1>1
  <2> HIDE DEF q
  <2> QED BY <2>1, <2>2 DEF Numbers
<1>5. ASSUME Distinct(p), c.n \notin Numbers(p) PROVE Distinct(q)
  <2>1. ASSUME NEW i \in DOMAIN q, NEW j \in DOMAIN q, q[i].n = q[j].n
        PROVE  i = j
    <3>1. CASE i \in DOMAIN p /\ j \in DOMAIN p
      BY <1>1, <1>5, <2>1, <3>1 DEF Distinct
    <3>2. CASE i \in DOMAIN p /\ j = Len(p) + 1
      BY <1>1, <1>5, <2>1, <3>2 DEF Numbers
    <3>3. CASE i = Len(p) + 1 /\ j \in DOMAIN p
      BY <1>1, <1>5, <2>1, <3>3 DEF Numbers
    <3>4. CASE i = Len(p) + 1 /\ j = Len(p) + 1
      BY <3>4
    <3> QED BY <1>2, <3>1, <3>2, <3>3, <3>4
  <2> HIDE DEF q
  <2> QED BY <2>1 DEF Distinct
<1> QED BY <1>3, <1>4, <1>5

LEMMA NumbersOfTail ==
  ASSUME NEW p \in Seq(Commands), p # <<>>
  PROVE  /\ Numbers(p) = Numbers(Tail(p)) \cup {Head(p).n}
         /\ Distinct(p) => Distinct(Tail(p)) /\ Head(p).n \notin Numbers(Tail(p))
<1> DEFINE q == Tail(p)
<1>1. /\ Len(p) \in Nat \ {0} /\ DOMAIN p = 1..Len(p)
      /\ Head(p) = p[1] /\ DOMAIN q = 1..(Len(p) - 1)
      /\ \A i \in 1..(Len(p) - 1) : q[i] = p[i + 1]
  OBVIOUS
<1>2. ASSUME NEW i \in DOMAIN q PROVE i + 1 \in DOMAIN p /\ q[i] = p[i + 1] /\ i + 1 # 1
  BY <1>1
<1>3. ASSUME NEW i \in DOMAIN p PROVE i = 1 \/ (i - 1 \in DOMAIN q /\ q[i - 1] = p[i])
  BY <1>1
<1>4. 1 \in DOMAIN p /\ Head(p) = p[1] /\ DOMAIN q \subseteq Nat
  BY <1>1
<1> HIDE DEF q
<1>5. Numbers(p) = Numbers(q) \cup {Head(p).n}
  <2>1. Numbers(p) \subseteq Numbers(q) \cup {Head(p).n}
    BY <1>3, <1>4 DEF Numbers
  <2>2. Numbers(q) \cup {Head(p).n} \subseteq Numbers(p)
    BY <1>2, <1>4 DEF Numbers
  <2> QED BY <2>1, <2>2
<1>6. ASSUME Distinct(p) PROVE Distinct(q) /\ Head(p).n \notin Numbers(q)
  <2>1. ASSUME NEW i \in DOMAIN q, NEW j \in DOMAIN q, q[i].n = q[j].n
        PROVE  i = j
    <3>1. i + 1 = j + 1
      BY <1>2, <1>6, <2>1 DEF Distinct
    <3> QED BY <1>4, <3>1
  <2>2. Head(p).n \notin Numbers(q)
    BY <1>2, <1>4, <1>6 DEF Numbers, Distinct
  <2> QED BY <2>1, <2>2 DEF Distinct
<1> QED BY <1>5, <1>6 DEF q

(***************************************************************************)
(* The inductive invariant of the commands: the places where a command may *)
(* be share no number, and no number is above what has been typed.         *)
(***************************************************************************)
Once(p) == Distinct(p) /\ Numbers(p) \subseteq 1..typed

Apart(p, q) == Numbers(p) \cap Numbers(q) = {}

OnceInv ==
  /\ Once(queue)
  /\ \A s \in Sockets : Once(wire[s]) /\ Apart(queue, wire[s])
  /\ \A r \in Rooms : Once(received[r]) /\ Apart(queue, received[r])
  /\ \A s, t \in Sockets : s # t => Apart(wire[s], wire[t])
  /\ \A s \in Sockets, r \in Rooms : Apart(wire[s], received[r])
  /\ \A r, u \in Rooms : r # u => Apart(received[r], received[u])

LEMMA OnceStep == TypeOK /\ OnceInv /\ [Next]_vars => OnceInv'
<1> SUFFICES ASSUME TypeOK, OnceInv, [Next]_vars PROVE OnceInv'
  OBVIOUS
<1>1. CASE UNCHANGED <<wire, queue, typed, received>>
  BY <1>1 DEF OnceInv, Once, Apart
<1>2. CASE Opens
  <2>1. /\ ws \in Sockets /\ UNCHANGED <<typed, received>>
        /\ wire' = [wire EXCEPT ![ws] = queue] /\ queue' = <<>>
    BY <1>2 DEF Opens, TypeOK
  <2>2. /\ wire'[ws] = queue
        /\ \A t \in Sockets : t # ws => wire'[t] = wire[t]
    BY <2>1 DEF TypeOK
  <2> QED BY <2>1, <2>2, NumbersOfEmpty DEF OnceInv, Once, Apart
<1>3. CASE Type
  <2> DEFINE command == [n |-> typed', room |-> session.room]
  <2>1. /\ typed' = typed + 1 /\ typed \in Nat /\ UNCHANGED received
        /\ command \in Commands /\ command.n = typed + 1
    BY <1>3 DEF Type, TypeOK, Commands, Sessions
  <2>2. typed + 1 \notin 1..typed /\ 1..typed \subseteq 1..typed' /\ typed + 1 \in 1..typed'
    BY <2>1
  <2>3. ASSUME NEW p \in Seq(Commands), Once(p)
        PROVE  /\ Once(p)' /\ typed + 1 \notin Numbers(p)
               /\ Numbers(Append(p, command)) = Numbers(p) \cup {typed + 1}
               /\ Distinct(Append(p, command))
               /\ Numbers(Append(p, command)) \subseteq 1..typed'
    BY <2>1, <2>2, <2>3, NumbersOfAppend DEF Once
  <2>4. /\ queue \in Seq(Commands)
        /\ \A s \in Sockets : wire[s] \in Seq(Commands)
        /\ \A r \in Rooms : received[r] \in Seq(Commands)
    BY DEF TypeOK
  <2>5. CASE Connected
    <3>1. /\ ws \in Sockets /\ UNCHANGED queue
          /\ wire' = [wire EXCEPT ![ws] = Append(wire[ws], command)]
      BY <1>3, <2>5 DEF Type, Connected, TypeOK
    <3>2. /\ wire'[ws] = Append(wire[ws], command)
          /\ \A t \in Sockets : t # ws => wire'[t] = wire[t]
      BY <3>1 DEF TypeOK
    <3>3. Once(wire[ws]) /\ wire[ws] \in Seq(Commands)
      BY <2>4, <3>1 DEF OnceInv
    <3>4. /\ Distinct(wire'[ws]) /\ Numbers(wire'[ws]) \subseteq 1..typed'
          /\ Numbers(wire'[ws]) = Numbers(wire[ws]) \cup {typed + 1}
      BY <2>3, <3>2, <3>3
    <3> HIDE DEF command
    <3>5. ASSUME NEW p \in Seq(Commands), Once(p), Apart(p, wire[ws])
          PROVE  Apart(p, wire'[ws]) /\ Apart(wire'[ws], p)
      BY <2>3, <3>4, <3>5 DEF Apart
    <3>6. ASSUME NEW t \in Sockets, t # ws
          PROVE  Once(wire[t])' /\ Apart(wire'[t], wire'[ws]) /\ Apart(wire'[ws], wire'[t])
      BY <2>3, <2>4, <3>1, <3>2, <3>5, <3>6 DEF OnceInv
    <3>7. ASSUME NEW r \in Rooms
          PROVE  Once(received[r])' /\ Apart(wire'[ws], received'[r])
      <4>1. Once(received[r]) /\ Apart(received[r], wire[ws])
        BY <3>1 DEF OnceInv, Apart
      <4> QED BY <2>1, <2>3, <2>4, <3>5, <4>1
    <3>8. Once(queue)' /\ Apart(queue', wire'[ws])
      BY <2>3, <2>4, <3>1, <3>5 DEF OnceInv
    <3>9. \A t \in Sockets : Once(wire[t])' /\ Apart(queue', wire'[t])
      BY <3>1, <3>2, <3>4, <3>6, <3>8 DEF OnceInv, Once
    <3>10. \A t, u \in Sockets : t # u => Apart(wire'[t], wire'[u])
      BY <3>2, <3>6 DEF OnceInv
    <3>11. \A t \in Sockets, r \in Rooms : Apart(wire'[t], received'[r])
      BY <2>1, <3>2, <3>7 DEF OnceInv
    <3>12. /\ \A r \in Rooms : Apart(queue', received'[r])
           /\ \A r, u \in Rooms : r # u => Apart(received'[r], received'[u])
      BY <2>1, <3>1 DEF OnceInv
    <3> QED BY <3>7, <3>8, <3>9, <3>10, <3>11, <3>12 DEF OnceInv
  <2>6. CASE ~ Connected
    <3>1. queue' = Append(queue, command) /\ UNCHANGED wire
      BY <1>3, <2>6 DEF Type
    <3>2. ASSUME NEW p \in Seq(Commands), Apart(queue, p), Once(p)
          PROVE  Once(p)' /\ Apart(queue', p)
      BY <2>3, <2>4, <3>1, <3>2 DEF OnceInv, Apart
    <3>3. Once(queue)'
      BY <2>3, <2>4, <3>1 DEF OnceInv, Once
    <3> HIDE DEF command
    <3> QED BY <2>1, <2>4, <3>1, <3>2, <3>3 DEF OnceInv, Once, Apart
  <2> QED BY <2>5, <2>6
<1>4. ASSUME NEW s \in Sockets, Receives(s) PROVE OnceInv'
  <2> DEFINE here == as[s].room
             n == Head(wire[s]).n
  <2>1. /\ wire[s] \in Seq(Commands) /\ wire[s] # <<>> /\ here \in Rooms
        /\ received[here] \in Seq(Commands) /\ Head(wire[s]) \in Commands
    <3>1. wire[s] \in Seq(Commands) /\ wire[s] # <<>> /\ here \in Rooms
      BY <1>4 DEF Receives, TypeOK, Sessions
    <3>2. received[here] \in Seq(Commands)
      BY <3>1 DEF TypeOK
    <3> QED BY <3>1, <3>2, HeadTailProperties
  <2>2. UNCHANGED <<queue, typed>>
    BY <1>4 DEF Receives
  <2>3. /\ wire'[s] = Tail(wire[s])
        /\ \A t \in Sockets : t # s => wire'[t] = wire[t]
    BY <1>4 DEF Receives, TypeOK
  <2>4. /\ received'[here] = Append(received[here], Head(wire[s]))
        /\ \A r \in Rooms : r # here => received'[r] = received[r]
    BY <1>4, <2>1 DEF Receives, TypeOK
  <2>5. /\ Distinct(wire[s]) /\ Distinct(received[here])
        /\ Numbers(wire[s]) \cap Numbers(received[here]) = {}
    BY <2>1 DEF OnceInv, Once, Apart
  <2>6. /\ Numbers(wire[s]) = Numbers(wire'[s]) \cup {n}
        /\ Distinct(wire'[s]) /\ n \notin Numbers(wire'[s])
    BY <2>1, <2>3, <2>5, NumbersOfTail
  <2>7. /\ Numbers(received'[here]) = Numbers(received[here]) \cup {n}
        /\ Distinct(received'[here])
    BY <2>1, <2>4, <2>5, <2>6, NumbersOfAppend
  <2> HIDE DEF here, n
  <2>8. n \in Numbers(wire[s])
    BY <2>6
  <2>9. ASSUME NEW r \in Rooms
        PROVE  /\ Once(received[r])'
               /\ Apart(queue', received'[r]) /\ Apart(wire'[s], received'[r])
    <3>1. CASE r = here
      BY <2>1, <2>2, <2>6, <2>7, <2>8, <3>1 DEF OnceInv, Once, Apart
    <3>2. CASE r # here
      BY <2>2, <2>4, <2>6, <3>2 DEF OnceInv, Once, Apart
    <3> QED BY <3>1, <3>2
  <2>10. ASSUME NEW t \in Sockets, t # s
         PROVE  /\ Once(wire[t])' /\ Apart(queue', wire'[t])
                /\ Apart(wire'[t], wire'[s]) /\ Apart(wire'[s], wire'[t])
                /\ n \notin Numbers(wire'[t])
    <3>1. Apart(wire[t], wire[s]) /\ wire'[t] = wire[t]
      BY <2>3, <2>10 DEF OnceInv
    <3> QED BY <2>2, <2>6, <2>8, <3>1 DEF OnceInv, Once, Apart
  <2>11. Once(queue)' /\ Once(wire[s])' /\ Apart(queue', wire'[s])
    BY <2>2, <2>6 DEF OnceInv, Once, Apart
  <2>12. ASSUME NEW t \in Sockets, t # s, NEW r \in Rooms PROVE Apart(wire'[t], received'[r])
    <3>1. Apart(wire[t], received[r]) /\ wire'[t] = wire[t]
      BY <2>3, <2>12 DEF OnceInv
    <3>2. CASE r = here
      BY <2>7, <2>10, <2>12, <3>1, <3>2 DEF Apart
    <3>3. CASE r # here
      BY <2>4, <3>1, <3>3
    <3> QED BY <3>2, <3>3
  <2>13. ASSUME NEW r \in Rooms, r # here
         PROVE  Apart(received'[r], received'[here]) /\ Apart(received'[here], received'[r])
    <3>1. /\ Apart(received[r], received[here]) /\ received'[r] = received[r]
          /\ Apart(wire[s], received[r])
      BY <2>1, <2>4, <2>13 DEF OnceInv
    <3> QED BY <2>7, <2>8, <3>1 DEF Apart
  <2>14. ASSUME NEW t \in Sockets, NEW u \in Sockets, t # u PROVE Apart(wire'[t], wire'[u])
    <3>1. CASE t = s \/ u = s
      BY <2>10, <2>14, <3>1
    <3>2. CASE t # s /\ u # s
      BY <2>3, <2>14, <3>2 DEF OnceInv
    <3> QED BY <3>1, <3>2
  <2>15. ASSUME NEW r \in Rooms, NEW u \in Rooms, r # u
         PROVE  Apart(received'[r], received'[u])
    <3>1. CASE r = here \/ u = here
      BY <2>13, <2>15, <3>1
    <3>2. CASE r # here /\ u # here
      BY <2>4, <2>15, <3>2 DEF OnceInv
    <3> QED BY <3>1, <3>2
  <2>16. \A t \in Sockets : Once(wire[t])' /\ Apart(queue', wire'[t])
    BY <2>10, <2>11
  <2>17. \A t \in Sockets, r \in Rooms : Apart(wire'[t], received'[r])
    BY <2>9, <2>12
  <2> QED BY <2>9, <2>11, <2>14, <2>15, <2>16, <2>17 DEF OnceInv
<1>5. ASSUME NEW s \in Sockets, Loses(s) PROVE OnceInv'
  <2>1. /\ wire'[s] = <<>> /\ UNCHANGED <<queue, typed, received>>
        /\ \A t \in Sockets : t # s => wire'[t] = wire[t]
    BY <1>5 DEF Loses, TypeOK
  <2> QED BY <2>1, NumbersOfEmpty DEF OnceInv, Once, Apart
<1>6. CASE AuthAnswers \/ AuthFails \/ Expire \/ TimerFires \/ Closes \/ Message
  BY <1>1, <1>6 DEF AuthAnswers, AuthFails, Expire, TimerFires, Closes, Message
<1>7. ASSUME NEW next \in Sessions, ChangeSession(next) PROVE OnceInv'
  BY <1>1, <1>7 DEF ChangeSession
<1>8. CASE UNCHANGED vars
  BY <1>1, <1>8 DEF vars
<1> QED BY <1>2, <1>3, <1>4, <1>5, <1>6, <1>7, <1>8 DEF Next

(***************************************************************************)
(* However often connections break, no command is in two places or in one  *)
(* twice: an endpoint reads it at most once.                               *)
(***************************************************************************)
THEOREM ExecutedOnce == Spec => []AtMostOnce
<1>1. Init => OnceInv
  <2> SUFFICES ASSUME Init PROVE OnceInv
    OBVIOUS
  <2>1. /\ queue = <<>> /\ \A s \in Sockets : wire[s] = <<>>
        /\ \A r \in Rooms : received[r] = <<>>
    BY DEF Init
  <2> QED BY <2>1, NumbersOfEmpty DEF OnceInv, Once, Apart
<1>2. OnceInv => AtMostOnce
  <2> SUFFICES ASSUME OnceInv PROVE AtMostOnce
    OBVIOUS
  <2> DEFINE places == {queue} \cup {wire[s] : s \in Sockets} \cup {received[r] : r \in Rooms}
  <2>1. ASSUME NEW p \in places PROVE Distinct(p)
    BY DEF OnceInv, Once
  <2>2. ASSUME NEW p \in places, NEW q \in places, p # q
        PROVE  Numbers(p) \cap Numbers(q) = {}
    BY <2>2 DEF OnceInv, Apart
  <2> HIDE DEF places
  <2>3. (\A p \in places : Distinct(p))
        /\ (\A p, q \in places : p # q => Numbers(p) \cap Numbers(q) = {})
    BY <2>1, <2>2
  <2> QED BY <2>3 DEF AtMostOnce, places
<1> QED BY <1>1, <1>2, OnceStep, TypeCorrect, PTL DEF Spec
================================================================================
