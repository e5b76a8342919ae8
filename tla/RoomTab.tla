------------------------------- MODULE RoomTab -------------------------------
(***************************************************************************)
(* One browser tab: the session, token and store of components/Room.tsx,   *)
(* the reconnecting socket of hooks/useWebSocket.ts, and, of the backend,  *)
(* the tokens of auth.py with the handshake and the inbox of the endpoint. *)
(*                                                                         *)
(* A step is one event of the tab with every render and effect it causes:  *)
(* React runs the clean-ups of all effects before the new effects.         *)
(***************************************************************************)
EXTENDS Naturals, Sequences

CONSTANTS Rooms,       \* room slugs
          Names,       \* user names
          Sockets,     \* WebSocket objects; used again when spent
          NoSocket,
          MaxTyped,    \* bound: commands the student types
          MaxChanges   \* bound: changes of room or name

ASSUME TabAssumption ==
  /\ MaxTyped \in Nat /\ MaxChanges \in Nat
  /\ NoSocket \notin Sockets

VARIABLES
  session,   \* props.session: the room and the user name
  auth,      \* what the last answered authSession set: for which session,
             \* "none", "ok" or "error", and whether the token has expired
  asking,    \* the authSession request of this session is under way
  ws,        \* the socket with handlers: wsRef.current, or NoSocket
  phase,     \* socket -> "connecting", "open" or "closed"
  as,        \* socket -> the session its url was made for
  wire,      \* socket -> commands sent and not yet read by the endpoint
  timer,     \* the reconnection is scheduled
  state,     \* the state useWebSocket shows
  queue,     \* queueRef.current
  store,     \* the rooms whose messages are in the store
  typed,     \* commands typed so far
  received,  \* room -> the commands its endpoints have read
  changes    \* changes of session so far

authVars == <<session, auth, asking, changes>>
sockVars == <<ws, phase, as, timer, state>>
vars == <<authVars, sockVars, wire, queue, store, typed, received>>

Sessions == [room : Rooms, name : Names]

\* token !== null: the token counts only for the session it was asked for.
Enabled == auth.status = "ok" /\ auth.for = session

Connected == ws # NoSocket /\ phase[ws] = "open"

-----------------------------------------------------------------------------
(* useWebSocket's effect on [url, enabled].                                *)

Spent(s) == phase[s] = "closed" /\ wire[s] = <<>>

\* The handlers of the old socket are taken off before it is closed.
Detached == IF ws = NoSocket THEN phase ELSE [phase EXCEPT ![ws] = "closed"]

Connect ==
  \E s \in Sockets \ {ws} :
    /\ Spent(s)
    /\ ws' = s
    /\ phase' = [Detached EXCEPT ![s] = "connecting"]
    /\ as' = [as EXCEPT ![s] = session']
    /\ state' = "connecting"

\* Mutated: clearTimeout forgotten.
RestartKeepsTimer(enabled) ==
  /\ UNCHANGED timer
  /\ IF enabled
       THEN Connect
       ELSE ws' = NoSocket /\ phase' = Detached /\ UNCHANGED <<as, state>>

\* Clean-up, and a connection for the new url if there is a token.
Restart(enabled) ==
  /\ timer' = FALSE
  /\ IF enabled
       THEN Connect
       ELSE ws' = NoSocket /\ phase' = Detached /\ UNCHANGED <<as, state>>

\* Mutated: a connection lost is not shown.
ClosesSilently ==
  /\ ws # NoSocket
  /\ phase' = [phase EXCEPT ![ws] = "closed"]
  /\ ws' = NoSocket
  /\ timer' = TRUE
  /\ UNCHANGED <<authVars, as, state, wire, queue, store, typed, received>>

\* Mutated: no reconnection.
ClosesForGood ==
  /\ ws # NoSocket
  /\ phase' = [phase EXCEPT ![ws] = "closed"]
  /\ ws' = NoSocket
  /\ state' = "closed"
  /\ UNCHANGED <<authVars, as, timer, wire, queue, store, typed, received>>

\* onclose: the network fails, or the handshake is refused.
Closes ==
  /\ ws # NoSocket
  /\ phase' = [phase EXCEPT ![ws] = "closed"]
  /\ ws' = NoSocket
  /\ state' = "closed"
  /\ timer' = TRUE
  /\ UNCHANGED <<authVars, as, wire, queue, store, typed, received>>

TimerFires ==
  /\ timer
  /\ timer' = FALSE
  /\ UNCHANGED authVars
  /\ Connect
  /\ UNCHANGED <<wire, queue, store, typed, received>>

\* verify_token before accept.
Verified == ~ auth.expired /\ auth.for.room = as[ws].room

\* Mutated: the queue is sent as one message.
OpensSendsArray ==
  /\ ws # NoSocket /\ phase[ws] = "connecting" /\ Verified
  /\ phase' = [phase EXCEPT ![ws] = "open"]
  /\ state' = "open"
  /\ wire' = [wire EXCEPT ![ws] = <<queue>>]
  /\ queue' = <<>>
  /\ UNCHANGED <<authVars, ws, as, timer, store, typed, received>>

\* Mutated: the queue is not emptied.
OpensKeepsQueue ==
  /\ ws # NoSocket /\ phase[ws] = "connecting" /\ Verified
  /\ phase' = [phase EXCEPT ![ws] = "open"]
  /\ state' = "open"
  /\ wire' = [wire EXCEPT ![ws] = queue]
  /\ UNCHANGED <<authVars, ws, as, timer, queue, store, typed, received>>

\* onopen: what was queued is sent.
Opens ==
  /\ ws # NoSocket /\ phase[ws] = "connecting" /\ Verified
  /\ phase' = [phase EXCEPT ![ws] = "open"]
  /\ state' = "open"
  /\ wire' = [wire EXCEPT ![ws] = queue]
  /\ queue' = <<>>
  /\ UNCHANGED <<authVars, ws, as, timer, store, typed, received>>

\* onmessage
Message ==
  /\ Connected
  /\ store' = store \cup {as[ws].room}
  /\ UNCHANGED <<authVars, sockVars, wire, queue, typed, received>>

-----------------------------------------------------------------------------
(* Room                                                                    *)

Type ==
  /\ typed < MaxTyped
  /\ typed' = typed + 1
  /\ LET command == [n |-> typed', room |-> session.room]
     IN  IF Connected
           THEN /\ wire' = [wire EXCEPT ![ws] = Append(@, command)]
                /\ UNCHANGED queue
           ELSE queue' = Append(queue, command) /\ UNCHANGED wire
  /\ UNCHANGED <<authVars, sockVars, store, received>>

\* Mutated: no reset when the room changes.
ChangeSessionOnly(next) ==
  /\ next # session /\ changes < MaxChanges
  /\ changes' = changes + 1
  /\ session' = next
  /\ asking' = TRUE
  /\ Restart(auth.status = "ok" /\ auth.for = next)
  /\ UNCHANGED <<auth, wire, queue, store, typed, received>>

\* A new session is asked a token for, and the answer to an earlier request
\* is dropped; a token is at hand only when its own session is back.
ChangeSession(next) ==
  /\ next # session /\ changes < MaxChanges
  /\ changes' = changes + 1
  /\ session' = next
  /\ asking' = TRUE
  /\ store' = IF next.room = session.room THEN store ELSE {}
  /\ Restart(auth.status = "ok" /\ auth.for = next)
  /\ UNCHANGED <<auth, wire, queue, typed, received>>

\* A token made in the same second is the same: url and socket stay.
AuthAnswers ==
  /\ asking /\ asking' = FALSE
  /\ auth' = [for |-> session, status |-> "ok", expired |-> FALSE]
  /\ UNCHANGED session
  /\ \/ Restart(TRUE)
     \/ Enabled /\ ~ auth.expired /\ UNCHANGED sockVars
  /\ UNCHANGED <<changes, wire, queue, store, typed, received>>

AuthFails ==
  /\ asking /\ asking' = FALSE
  /\ auth' = [for |-> session, status |-> "error", expired |-> FALSE]
  /\ Restart(FALSE)
  /\ UNCHANGED <<session, changes, wire, queue, store, typed, received>>

-----------------------------------------------------------------------------
(* The backend.                                                            *)

Receives(s) ==
  /\ wire[s] # <<>>
  /\ received' = [received EXCEPT ![as[s].room] = Append(@, Head(wire[s]))]
  /\ wire' = [wire EXCEPT ![s] = Tail(@)]
  /\ UNCHANGED <<authVars, sockVars, queue, store, typed>>

\* What was on its way on a connection that broke.
Loses(s) ==
  /\ phase[s] = "closed" /\ wire[s] # <<>>
  /\ wire' = [wire EXCEPT ![s] = <<>>]
  /\ UNCHANGED <<authVars, sockVars, queue, store, typed, received>>

\* access_token_ttl_minutes are over.
Expire ==
  /\ auth.status = "ok" /\ ~ auth.expired
  /\ auth' = [auth EXCEPT !.expired = TRUE]
  /\ UNCHANGED <<session, asking, changes, sockVars, wire, queue, store, typed,
                 received>>

-----------------------------------------------------------------------------
Init ==
  /\ session \in Sessions
  /\ auth = [for |-> session, status |-> "none", expired |-> FALSE]
  /\ asking = TRUE /\ changes = 0
  /\ ws = NoSocket /\ timer = FALSE /\ state = "connecting"
  /\ phase = [s \in Sockets |-> "closed"]
  /\ as = [s \in Sockets |-> session]
  /\ wire = [s \in Sockets |-> <<>>]
  /\ queue = <<>> /\ store = {} /\ typed = 0
  /\ received = [r \in Rooms |-> <<>>]

Next ==
  \/ AuthAnswers \/ AuthFails \/ Expire
  \/ TimerFires \/ Opens \/ Closes \/ Message \/ Type
  \/ \E next \in Sessions : ChangeSession(next)
  \/ \E s \in Sockets : Receives(s) \/ Loses(s)

Spec == Init /\ [][Next]_vars

\* The timer fires, a spent socket is let go of, and a handshake that is
\* possible again and again succeeds in the end.
Fairness ==
  /\ WF_vars(TimerFires)
  /\ SF_vars(Opens)
  /\ \A s \in Sockets : WF_vars(Receives(s) \/ Loses(s))
  /\ WF_vars(ws # NoSocket /\ phase[ws] = "connecting" /\ (Opens \/ Closes))

FairSpec == Spec /\ Fairness

-----------------------------------------------------------------------------
Commands == [n : 1..MaxTyped, room : Rooms]

TypeOK ==
  /\ session \in Sessions
  /\ auth \in [for : Sessions, status : {"none", "ok", "error"}, expired : BOOLEAN]
  /\ asking \in BOOLEAN /\ timer \in BOOLEAN
  /\ ws \in Sockets \cup {NoSocket}
  /\ phase \in [Sockets -> {"connecting", "open", "closed"}]
  /\ as \in [Sockets -> Sessions]
  /\ wire \in [Sockets -> Seq(Commands)] /\ queue \in Seq(Commands)
  /\ state \in {"connecting", "open", "closed"}
  /\ store \subseteq Rooms
  /\ typed \in 0..MaxTyped /\ changes \in 0..MaxChanges
  /\ received \in [Rooms -> Seq(Commands)]

(***************************************************************************)
(* The socket with handlers is the only one that is not closed, its url    *)
(* was made for the session now shown, and then no reconnection is         *)
(* pending: neither a late token nor a timer of an earlier session makes   *)
(* the tab listen to two rooms or to the wrong one.                        *)
(***************************************************************************)
OneConnection ==
  /\ \A s \in Sockets : phase[s] # "closed" => s = ws
  /\ ws # NoSocket => as[ws] = session /\ Enabled /\ ~ timer

(***************************************************************************)
(* Room.tsx:45: what a room has sent does not flow into the next one.  The *)
(* store holds messages of the room shown and of no other.                 *)
(***************************************************************************)
StoreIsOfRoom == store \subseteq {session.room}

(***************************************************************************)
(* No command is executed twice: however often the connection breaks, a    *)
(* command is queued, on a wire or read by an endpoint at most once.       *)
(***************************************************************************)
Numbers(seq) == {seq[i].n : i \in DOMAIN seq}

Distinct(seq) == \A i, j \in DOMAIN seq : seq[i].n = seq[j].n => i = j

AtMostOnce ==
  LET places == {queue} \cup {wire[s] : s \in Sockets} \cup {received[r] : r \in Rooms}
  IN  /\ \A p \in places : Distinct(p)
      /\ \A p, q \in places : p # q => Numbers(p) \cap Numbers(q) = {}

(***************************************************************************)
(* A tab that says it is online while it has a token is online.            *)
(***************************************************************************)
OnlineIsTrue == Enabled => (state = "open" <=> Connected)

(***************************************************************************)
(* Once the tab keeps a token that has not expired, what was typed while   *)
(* it was offline is sent at last, whatever connections fail meanwhile.    *)
(***************************************************************************)
QueueIsSent ==
  <>[](Enabled /\ ~ auth.expired) => []<>(queue = <<>>)

-----------------------------------------------------------------------------
(* What the comments say and the code does not do.                         *)

\* Room.tsx:45: nothing flows from one room into the next.  An endpoint reads
\* only commands typed in its own room.
CommandsStayInRoom ==
  \A r \in Rooms : \A i \in DOMAIN received[r] : received[r][i].room = r
=============================================================================
