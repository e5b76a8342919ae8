----------------------------- MODULE RateLimiter -----------------------------
(***************************************************************************)
(* backend/app/ratelimit.py: the sliding window of on_git_command.  A key  *)
(* is a (room, user) pair; time.monotonic() is a counter of ticks.         *)
(***************************************************************************)
EXTENDS Integers, Sequences

CONSTANTS Keys,         \* (room_id, user_id)
          MaxEvents,    \* settings.rate_limit_max
          Window,       \* settings.rate_limit_window_s
          MaxTime,      \* bound: ticks of the clock
          MaxRequests   \* bound: calls of allow

ASSUME LimiterAssumption ==
  /\ MaxEvents \in Nat /\ Window \in Nat
  /\ MaxTime \in Nat /\ MaxRequests \in Nat

VARIABLES
  now,       \* time.monotonic()
  hits,      \* self._hits: the deque of each key
  admitted,  \* what allow has let through since the key was last reset
  asked      \* calls of allow so far

vars == <<now, hits, admitted, asked>>

\* Mutant of Expired: "<=" in place of "<".
ExpiredAtCutoff(k, q) ==
  /\ \A i \in 1..k : q[i] + Window <= now
  /\ k < Len(q) => q[k + 1] + Window > now

\* "while bucket and bucket[0] < cutoff": the first k entries go, no more.
Expired(k, q) ==
  /\ \A i \in 1..k : q[i] + Window < now
  /\ k < Len(q) => q[k + 1] + Window >= now

\* Mutant of Pruned: nothing is ever dropped.
NotPruned(q) == {q}

\* What the loop leaves of a deque: there is one such k.
Pruned(q) ==
  {SubSeq(q, k + 1, Len(q)) : k \in {n \in 0..Len(q) : Expired(n, q)}}

Admit(key) ==
  \E left \in Pruned(hits[key]) :
    /\ Len(left) < MaxEvents
    /\ hits' = [hits EXCEPT ![key] = Append(left, now)]
    /\ admitted' = [admitted EXCEPT ![key] = Append(@, now)]

Refuse(key) ==
  \E left \in Pruned(hits[key]) :
    /\ Len(left) >= MaxEvents
    /\ hits' = [hits EXCEPT ![key] = left]
    /\ UNCHANGED admitted

Allow(key) ==
  /\ asked < MaxRequests
  /\ asked' = asked + 1
  /\ \/ Admit(key)
     \/ Refuse(key)
  /\ UNCHANGED now

\* reset(room_id, user_id), and reset() for every key.
Reset(keys) ==
  /\ hits' = [key \in Keys |-> IF key \in keys THEN <<>> ELSE hits[key]]
  /\ admitted' = [key \in Keys |-> IF key \in keys THEN <<>> ELSE admitted[key]]
  /\ UNCHANGED <<now, asked>>

Tick ==
  /\ now < MaxTime
  /\ now' = now + 1
  /\ UNCHANGED <<hits, admitted, asked>>

Init ==
  /\ now = 0
  /\ hits = [key \in Keys |-> <<>>]
  /\ admitted = [key \in Keys |-> <<>>]
  /\ asked = 0

Next ==
  \/ Tick
  \/ \E key \in Keys : Allow(key) \/ Reset({key})
  \/ Reset(Keys)

Spec == Init /\ [][Next]_vars

-----------------------------------------------------------------------------
TypeOK ==
  /\ now \in Nat /\ asked \in Nat
  /\ hits \in [Keys -> Seq(Nat)]
  /\ admitted \in [Keys -> Seq(Nat)]

\* Of any MaxEvents + 1 admissions the last is out of the first one's window.
Spaced(times) ==
  \A i, j \in DOMAIN times :
    j = i + MaxEvents => times[i] + Window < times[j]

(***************************************************************************)
(* ratelimit.py:14: at most max_events in window_s seconds.  Of any        *)
(* max_events + 1 admissions of a key the last comes more than a window    *)
(* after the first, wherever the window is laid.                           *)
(***************************************************************************)
WindowLimit == \A key \in Keys : Spaced(admitted[key])

(***************************************************************************)
(* Nobody is refused without cause: the max_events admissions before a     *)
(* refusal all lie within the window that ends with it.                    *)
(***************************************************************************)
RefusedWhenFull ==
  [][\A key \in Keys :
       Refuse(key) /\ asked' # asked =>
         /\ Len(admitted[key]) >= MaxEvents
         /\ \A i \in DOMAIN admitted[key] :
              i + MaxEvents > Len(admitted[key]) =>
                admitted[key][i] + Window >= now]_vars

-----------------------------------------------------------------------------
(* The inductive invariant: a deque holds the latest admissions, and what  *)
(* it has lost is out of every window to come.                             *)

Follows(q, times, t) ==
  LET lost == Len(times) - Len(q)
  IN  /\ Len(q) <= Len(times) /\ Len(q) <= MaxEvents
      /\ \A i \in 1..Len(q) : q[i] = times[lost + i]
      /\ \A i \in 1..Len(times) : /\ times[i] <= t
                                  /\ i <= lost => times[i] + Window < t

HitsInv == \A key \in Keys : Follows(hits[key], admitted[key], now)

IInv == TypeOK /\ HitsInv /\ WindowLimit
=============================================================================
