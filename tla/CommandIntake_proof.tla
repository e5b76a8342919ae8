------------------------- MODULE CommandIntake_proof -------------------------
(***************************************************************************)
(* Proofs about the rate limiter, the endpoints that use it, and the       *)
(* metrics of their commands, for all values of the constants.             *)
(***************************************************************************)
EXTENDS CommandIntake, SequenceTheorems, FiniteSetTheorems, TLAPS

-----------------------------------------------------------------------------
(* The limiter.                                                            *)

USE LimiterAssumption

(***************************************************************************)
(* The loop of allow leaves a suffix of the deque: its entries are those   *)
(* after the first k, every one before them is older than the window, and  *)
(* the first one left is not.                                              *)
(***************************************************************************)
LEMMA PrunedIsSuffix ==
  ASSUME NEW q \in Seq(Nat), NEW left \in Pruned(q)
  PROVE  \E k \in 0..Len(q) :
           /\ Expired(k, q)
           /\ left \in Seq(Nat) /\ Len(left) = Len(q) - k
           /\ \A i \in 1..(Len(q) - k) : left[i] = q[k + i]
<1>1. PICK k \in 0..Len(q) : Expired(k, q) /\ left = SubSeq(q, k + 1, Len(q))
  BY DEF Pruned
<1>2. Len(q) \in Nat
  OBVIOUS
<1>3. left \in Seq(Nat) /\ Len(left) = Len(q) - k
  BY <1>1, <1>2
<1>4. \A i \in 1..(Len(q) - k) : left[i] = q[k + i]
  BY <1>1, <1>2
<1> QED
  BY <1>1, <1>3, <1>4

(***************************************************************************)
(* Every step preserves the types of the clock, the deques and the history.*)
(***************************************************************************)
LEMMA TypeStep ==
  ASSUME TypeOK, [Next]_vars
  PROVE  TypeOK'
<1> USE DEF TypeOK
<1>1. ASSUME NEW key \in Keys, Allow(key) PROVE TypeOK'
  <2>1. CASE Admit(key)
    <3>1. PICK left \in Pruned(hits[key]) :
            /\ hits' = [hits EXCEPT ![key] = Append(left, now)]
            /\ admitted' = [admitted EXCEPT ![key] = Append(@, now)]
      BY <2>1 DEF Admit
    <3>2. left \in Seq(Nat)
      BY PrunedIsSuffix
    <3> QED BY <1>1, <3>1, <3>2 DEF Allow
  <2>2. CASE Refuse(key)
    <3>1. PICK left \in Pruned(hits[key]) :
            hits' = [hits EXCEPT ![key] = left] /\ admitted' = admitted
      BY <2>2 DEF Refuse
    <3>2. left \in Seq(Nat)
      BY PrunedIsSuffix
    <3> QED BY <1>1, <3>1, <3>2 DEF Allow
  <2> QED BY <1>1, <2>1, <2>2 DEF Allow
<1>2. ASSUME NEW keys, Reset(keys) PROVE TypeOK'
  BY <1>2 DEF Reset
<1>3. CASE Tick
  BY <1>3 DEF Tick
<1>4. CASE UNCHANGED vars
  BY <1>4 DEF vars
<1> QED BY <1>1, <1>2, <1>3, <1>4 DEF Next

(***************************************************************************)
(* Dropping what the loop drops leaves a deque that still holds the latest *)
(* admissions and has lost only what is out of the window.                 *)
(***************************************************************************)
LEMMA PrunedFollows ==
  ASSUME now \in Nat, NEW q \in Seq(Nat), NEW times \in Seq(Nat),
         Follows(q, times, now), NEW left \in Pruned(q)
  PROVE  Follows(left, times, now)
<1>1. PICK k \in 0..Len(q) :
        /\ Expired(k, q)
        /\ left \in Seq(Nat) /\ Len(left) = Len(q) - k
        /\ \A i \in 1..(Len(q) - k) : left[i] = q[k + i]
  BY PrunedIsSuffix
<1> DEFINE lost == Len(times) - Len(q)
<1>2. Len(q) \in Nat /\ Len(times) \in Nat /\ Len(left) \in Nat
  BY <1>1
<1>3. /\ Len(q) <= Len(times) /\ Len(q) <= MaxEvents
      /\ \A i \in 1..Len(q) : q[i] = times[lost + i]
      /\ \A i \in 1..Len(times) : /\ times[i] <= now
                                  /\ i <= lost => times[i] + Window < now
  BY DEF Follows
<1>4. ASSUME NEW i \in 1..Len(left)
      PROVE  left[i] = times[Len(times) - Len(left) + i]
  <2>1. left[i] = q[k + i] /\ k + i \in 1..Len(q)
    BY <1>1, <1>2
  <2>2. q[k + i] = times[lost + (k + i)]
    BY <2>1, <1>3
  <2>3. lost + (k + i) = Len(times) - Len(left) + i
    BY <1>1, <1>2
  <2> QED BY <2>1, <2>2, <2>3
<1>5. ASSUME NEW i \in 1..Len(times), i <= Len(times) - Len(left)
      PROVE  times[i] + Window < now
  <2>1. CASE i <= lost
    BY <2>1, <1>3
  <2>2. CASE ~ (i <= lost)
    <3> DEFINE j == i - lost
    <3>1. j \in 1..k /\ j \in 1..Len(q) /\ lost + j = i
      BY <2>2, <1>1, <1>2, <1>3, <1>5
    <3>2. q[j] + Window < now
      BY <3>1, <1>1 DEF Expired
    <3>3. q[j] = times[lost + j]
      BY <3>1, <1>3
    <3> QED BY <3>1, <3>2, <3>3
  <2> QED BY <2>1, <2>2
<1>6. Len(left) <= Len(times) /\ Len(left) <= MaxEvents
  BY <1>1, <1>2, <1>3
<1> QED BY <1>3, <1>4, <1>5, <1>6 DEF Follows

(***************************************************************************)
(* An admission at time t keeps deque and history in step, and the         *)
(* admission max_events before it, if there is one, is out of the window.  *)
(***************************************************************************)
LEMMA AdmitFollows ==
  ASSUME NEW t \in Nat, NEW left \in Seq(Nat), NEW times \in Seq(Nat),
         Follows(left, times, t), Spaced(times), Len(left) < MaxEvents
  PROVE  /\ Follows(Append(left, t), Append(times, t), t)
         /\ Spaced(Append(times, t))
<1> DEFINE m == Len(left)
           n == Len(times)
           q2 == Append(left, t)
           A2 == Append(times, t)
<1>1. m \in Nat /\ n \in Nat /\ DOMAIN times = 1..n
  OBVIOUS
<1>2. /\ Len(q2) = m + 1 /\ Len(A2) = n + 1 /\ DOMAIN A2 = 1..(n + 1)
      /\ q2[m + 1] = t /\ A2[n + 1] = t
      /\ \A i \in 1..m : q2[i] = left[i]
      /\ \A i \in 1..n : A2[i] = times[i]
  OBVIOUS
<1>3. /\ m <= n
      /\ \A i \in 1..m : left[i] = times[n - m + i]
      /\ \A i \in 1..n : /\ times[i] <= t
                         /\ i <= n - m => times[i] + Window < t
  BY DEF Follows
<1> HIDE DEF m, n, q2, A2
<1>4. Len(q2) <= Len(A2) /\ Len(q2) <= MaxEvents /\ Len(A2) - Len(q2) = n - m
  BY <1>1, <1>2, <1>3, LimiterAssumption DEF m
<1>5. ASSUME NEW i \in 1..Len(q2)
      PROVE  q2[i] = A2[Len(A2) - Len(q2) + i]
  <2>1. CASE i = m + 1
    BY <2>1, <1>1, <1>2, <1>4
  <2>2. CASE i \in 1..m
    <3>1. n - m + i \in 1..n
      BY <2>2, <1>1, <1>3
    <3> QED BY <3>1, <2>2, <1>1, <1>2, <1>3, <1>4
  <2> QED BY <2>1, <2>2, <1>1, <1>2
<1>6. ASSUME NEW i \in 1..Len(A2)
      PROVE  /\ A2[i] <= t
             /\ i <= Len(A2) - Len(q2) => A2[i] + Window < t
  <2>1. CASE i = n + 1
    BY <2>1, <1>1, <1>2, <1>3, <1>4
  <2>2. CASE i \in 1..n
    BY <2>2, <1>1, <1>2, <1>3, <1>4
  <2> QED BY <2>1, <2>2, <1>1, <1>2
<1>7. Follows(q2, A2, t)
  BY <1>4, <1>5, <1>6 DEF Follows
<1>8. ASSUME NEW i \in 1..(n + 1), NEW j \in 1..(n + 1), j = i + MaxEvents
      PROVE  A2[i] + Window < A2[j]
  <2>1. CASE j = n + 1
    <3>1. i \in 1..n /\ i <= n - m
      BY <2>1, <1>1, <1>8, LimiterAssumption DEF m
    <3> QED BY <3>1, <2>1, <1>2, <1>3
  <2>2. CASE j \in 1..n
    <3>1. i \in 1..n
      BY <2>2, <1>1, <1>8
    <3> QED BY <3>1, <2>2, <1>1, <1>2, <1>8 DEF Spaced
  <2> QED BY <2>1, <2>2, <1>1
<1>9. Spaced(A2)
  BY <1>2, <1>8 DEF Spaced
<1> QED BY <1>7, <1>9 DEF q2, A2

(***************************************************************************)
(* A deque stays in step with its history as time passes.                  *)
(***************************************************************************)
LEMMA TickFollows ==
  ASSUME NEW t \in Nat, NEW q \in Seq(Nat), NEW times \in Seq(Nat),
         Follows(q, times, t)
  PROVE  Follows(q, times, t + 1)
<1>1. \A i \in 1..Len(times) : times[i] \in Nat
  OBVIOUS
<1> QED BY <1>1 DEF Follows

(***************************************************************************)
(* A key that is forgotten starts anew.                                    *)
(***************************************************************************)
LEMMA EmptyFollows ==
  ASSUME NEW t \in Nat
  PROVE  Follows(<<>>, <<>>, t) /\ Spaced(<<>>)
BY DEF Follows, Spaced

(***************************************************************************)
(* Every step preserves the invariant.                                     *)
(***************************************************************************)
LEMMA NextIInv ==
  ASSUME IInv, [Next]_vars
  PROVE  IInv'
<1>1. TypeOK /\ TypeOK'
  BY TypeStep DEF IInv
<1>2. ASSUME NEW key \in Keys
      PROVE  /\ hits[key] \in Seq(Nat) /\ admitted[key] \in Seq(Nat)
             /\ Follows(hits[key], admitted[key], now)
             /\ Spaced(admitted[key])
  BY DEF IInv, TypeOK, HitsInv, WindowLimit
<1>3. now \in Nat
  BY <1>1 DEF TypeOK
<1> SUFFICES ASSUME NEW key \in Keys
             PROVE  /\ Follows(hits'[key], admitted'[key], now')
                    /\ Spaced(admitted'[key])
  BY <1>1 DEF IInv, HitsInv, WindowLimit
<1>4. ASSUME NEW k \in Keys, Allow(k)
      PROVE  /\ Follows(hits'[key], admitted'[key], now')
             /\ Spaced(admitted'[key])
  <2>1. now' = now
    BY <1>4 DEF Allow
  <2>2. CASE Admit(k)
    <3>1. PICK left \in Pruned(hits[k]) :
            /\ Len(left) < MaxEvents
            /\ hits' = [hits EXCEPT ![k] = Append(left, now)]
            /\ admitted' = [admitted EXCEPT ![k] = Append(@, now)]
      BY <2>2 DEF Admit
    <3>2. CASE key = k
      <4>1. left \in Seq(Nat) /\ Follows(left, admitted[k], now)
        BY <1>2, <1>3, PrunedIsSuffix, PrunedFollows
      <4>2. /\ hits'[key] = Append(left, now)
            /\ admitted'[key] = Append(admitted[k], now)
        BY <1>1, <3>1, <3>2 DEF TypeOK
      <4>3. /\ Follows(Append(left, now), Append(admitted[k], now), now)
            /\ Spaced(Append(admitted[k], now))
        BY <1>2, <1>3, <3>1, <4>1, AdmitFollows
      <4> QED BY <2>1, <4>2, <4>3
    <3>3. CASE key # k
      <4>1. hits'[key] = hits[key] /\ admitted'[key] = admitted[key]
        BY <1>1, <3>1, <3>3 DEF TypeOK
      <4> QED BY <1>2, <2>1, <4>1
    <3> QED BY <3>2, <3>3
  <2>3. CASE Refuse(k)
    <3>1. PICK left \in Pruned(hits[k]) :
            hits' = [hits EXCEPT ![k] = left] /\ admitted' = admitted
      BY <2>3 DEF Refuse
    <3>2. CASE key = k
      <4>1. Follows(left, admitted[k], now)
        BY <1>2, <1>3, PrunedFollows
      <4>2. hits'[key] = left
        BY <1>1, <3>1, <3>2 DEF TypeOK
      <4> QED BY <1>2, <2>1, <3>1, <3>2, <4>1, <4>2
    <3>3. CASE key # k
      <4>1. hits'[key] = hits[key] /\ admitted'[key] = admitted[key]
        BY <1>1, <3>1, <3>3 DEF TypeOK
      <4> QED BY <1>2, <2>1, <4>1
    <3> QED BY <3>2, <3>3
  <2> QED BY <1>4, <2>2, <2>3 DEF Allow
<1>5. ASSUME NEW keys, Reset(keys)
      PROVE  /\ Follows(hits'[key], admitted'[key], now')
             /\ Spaced(admitted'[key])
  <2>1. now' = now
    BY <1>5 DEF Reset
  <2>2. \/ hits'[key] = <<>> /\ admitted'[key] = <<>>
        \/ hits'[key] = hits[key] /\ admitted'[key] = admitted[key]
    BY <1>5 DEF Reset
  <2> QED BY <1>2, <1>3, <2>1, <2>2, EmptyFollows
<1>6. CASE Tick
  <2>1. now' = now + 1 /\ hits' = hits /\ admitted' = admitted
    BY <1>6 DEF Tick
  <2>2. Follows(hits[key], admitted[key], now + 1)
    BY <1>2, <1>3, TickFollows
  <2> QED BY <1>2, <2>1, <2>2
<1>7. CASE UNCHANGED vars
  BY <1>2, <1>7 DEF vars
<1> QED BY <1>4, <1>5, <1>6, <1>7 DEF Next

(***************************************************************************)
(* The inductive invariant holds in every behaviour of the limiter.        *)
(***************************************************************************)
THEOREM LimiterInvariant == Spec => []IInv
<1>1. Init => IInv
  BY EmptyFollows DEF Init, IInv, TypeOK, HitsInv, WindowLimit
<1> QED BY <1>1, NextIInv, PTL DEF Spec

(***************************************************************************)
(* The deques hold times, whatever is admitted, refused and reset.         *)
(***************************************************************************)
THEOREM TypeCorrect == Spec => []TypeOK
<1>1. IInv => TypeOK
  BY DEF IInv
<1> QED BY <1>1, LimiterInvariant, PTL

(***************************************************************************)
(* For every limit and window, no max_events + 1 commands of a student are *)
(* admitted within one window of ratelimit.py.                             *)
(***************************************************************************)
THEOREM LimitHolds == Spec => []WindowLimit
<1>1. IInv => WindowLimit
  BY DEF IInv
<1> QED BY <1>1, LimiterInvariant, PTL

-----------------------------------------------------------------------------
Sorted(times) ==
  \A i, j \in DOMAIN times : i <= j => times[i] <= times[j]

InOrder == \A key \in Keys : Sorted(admitted[key])

(***************************************************************************)
(* What is admitted at time t, not before any other, comes last.           *)
(***************************************************************************)
LEMMA AppendSorted ==
  ASSUME NEW t \in Nat, NEW times \in Seq(Nat), Sorted(times),
         \A i \in 1..Len(times) : times[i] <= t
  PROVE  Sorted(Append(times, t))
<1> DEFINE n == Len(times)
           A2 == Append(times, t)
<1>1. n \in Nat /\ DOMAIN times = 1..n
  OBVIOUS
<1>2. /\ DOMAIN A2 = 1..(n + 1) /\ A2[n + 1] = t
      /\ \A i \in 1..n : A2[i] = times[i] /\ times[i] \in Nat
  OBVIOUS
<1>3. \A i \in 1..n : times[i] <= t
  OBVIOUS
<1> HIDE DEF n, A2
<1>4. ASSUME NEW i \in 1..(n + 1), NEW j \in 1..(n + 1), i <= j
      PROVE  A2[i] <= A2[j]
  <2>1. CASE j \in 1..n
    <3>1. i \in 1..n
      BY <2>1, <1>1, <1>4
    <3> QED BY <3>1, <2>1, <1>1, <1>2, <1>4 DEF Sorted
  <2>2. CASE j = n + 1 /\ i \in 1..n
    BY <2>2, <1>2, <1>3
  <2>3. CASE i = n + 1 /\ j = n + 1
    BY <2>3, <1>2
  <2> QED BY <2>1, <2>2, <2>3, <1>1, <1>4
<1>5. Sorted(A2)
  BY <1>2, <1>4 DEF Sorted
<1> QED BY <1>5 DEF A2

(***************************************************************************)
(* Every step keeps the history in the order of time.                      *)
(***************************************************************************)
LEMMA OrderStep ==
  ASSUME IInv, InOrder, [Next]_vars
  PROVE  InOrder'
<1> SUFFICES ASSUME NEW key \in Keys PROVE Sorted(admitted'[key])
  BY DEF InOrder
<1>1. /\ now \in Nat /\ admitted \in [Keys -> Seq(Nat)]
      /\ \A i \in 1..Len(admitted[key]) : admitted[key][i] <= now
      /\ Sorted(admitted[key])
  BY DEF IInv, TypeOK, HitsInv, Follows, InOrder
<1>2. Sorted(<<>>)
  BY DEF Sorted
<1>3. ASSUME NEW k \in Keys, Allow(k) PROVE Sorted(admitted'[key])
  <2>1. CASE Admit(k)
    <3>1. admitted' = [admitted EXCEPT ![k] = Append(@, now)]
      BY <2>1 DEF Admit
    <3>2. CASE key = k
      <4>1. admitted'[key] = Append(admitted[key], now)
        BY <1>1, <3>1, <3>2
      <4>2. admitted[key] \in Seq(Nat)
        BY <1>1
      <4>3. Sorted(Append(admitted[key], now))
        BY <1>1, <4>2, AppendSorted
      <4> QED BY <4>1, <4>3
    <3>3. CASE key # k
      BY <1>1, <3>1, <3>3
    <3> QED BY <3>2, <3>3
  <2>2. CASE Refuse(k)
    BY <2>2, <1>1 DEF Refuse
  <2> QED BY <1>3, <2>1, <2>2 DEF Allow
<1>4. ASSUME NEW keys, Reset(keys) PROVE Sorted(admitted'[key])
  <2>1. admitted'[key] = <<>> \/ admitted'[key] = admitted[key]
    BY <1>4 DEF Reset
  <2> QED BY <2>1, <1>1, <1>2
<1>5. CASE Tick
  BY <1>5, <1>1 DEF Tick
<1>6. CASE UNCHANGED vars
  BY <1>6, <1>1 DEF vars
<1> QED BY <1>3, <1>4, <1>5, <1>6 DEF Next

(***************************************************************************)
(* A key that allow refuses has max_events admissions, and the latest      *)
(* max_events of them lie in the window: the deque that is left is full,   *)
(* so it lost nothing, and its first entry is the oldest of them.          *)
(***************************************************************************)
LEMMA RefusalHasCause ==
  ASSUME IInv, InOrder, NEW key \in Keys, Refuse(key)
  PROVE  /\ Len(admitted[key]) >= MaxEvents
         /\ \A i \in DOMAIN admitted[key] :
              i + MaxEvents > Len(admitted[key]) =>
                admitted[key][i] + Window >= now
<1> DEFINE q == hits[key]
           times == admitted[key]
<1>1. now \in Nat /\ q \in Seq(Nat) /\ times \in Seq(Nat)
  BY DEF IInv, TypeOK
<1>2. /\ Len(q) <= Len(times) /\ Len(q) <= MaxEvents
      /\ \A i \in 1..Len(q) : q[i] = times[Len(times) - Len(q) + i]
  BY DEF IInv, HitsInv, Follows
<1>3. Sorted(times)
  BY DEF InOrder
<1>4. PICK left \in Pruned(q) : Len(left) >= MaxEvents
  BY DEF Refuse
<1>5. PICK k \in 0..Len(q) : Expired(k, q) /\ Len(left) = Len(q) - k
  BY <1>1, <1>4, PrunedIsSuffix
<1>6. /\ Len(q) \in Nat /\ Len(times) \in Nat /\ DOMAIN times = 1..Len(times)
      /\ \A i \in 1..Len(times) : times[i] \in Nat
  BY <1>1
<1> HIDE DEF q, times
<1>7. k = 0 /\ Len(q) = MaxEvents
  BY <1>2, <1>4, <1>5, <1>6, LimiterAssumption
<1>8. ASSUME NEW i \in 1..Len(times), i + MaxEvents > Len(times)
      PROVE  times[i] + Window >= now
  <2> DEFINE first == Len(times) - MaxEvents + 1
  <2>1. MaxEvents > 0 /\ first \in 1..Len(times) /\ first <= i
    BY <1>2, <1>6, <1>7, <1>8, LimiterAssumption
  <2>2. q[1] = times[first]
    BY <1>2, <1>6, <1>7, <2>1, LimiterAssumption
  <2>3. q[1] + Window >= now
    BY <1>5, <1>7, <2>1 DEF Expired
  <2>4. times[first] <= times[i]
    BY <1>3, <1>6, <1>8, <2>1 DEF Sorted
  <2>5. times[first] \in Nat /\ times[i] \in Nat /\ Window \in Nat
    BY <1>6, <1>8, <2>1, LimiterAssumption
  <2> HIDE DEF first
  <2> QED BY <1>1, <2>2, <2>3, <2>4, <2>5
<1> QED BY <1>2, <1>6, <1>7, <1>8 DEF times

(***************************************************************************)
(* For every limit and window, whoever is refused has made max_events      *)
(* commands within the window that ends now.                               *)
(***************************************************************************)
THEOREM RefusalsAreDue == Spec => RefusedWhenFull
<1>1. Init => InOrder
  BY DEF Init, InOrder, Sorted
<1>2. IInv /\ InOrder /\ [Next]_vars => InOrder'
  BY OrderStep
<1>3. IInv /\ InOrder =>
        [\A key \in Keys :
           Refuse(key) /\ asked' # asked =>
             /\ Len(admitted[key]) >= MaxEvents
             /\ \A i \in DOMAIN admitted[key] :
                  i + MaxEvents > Len(admitted[key]) =>
                    admitted[key][i] + Window >= now]_vars
  BY RefusalHasCause
<1> QED BY <1>1, <1>2, <1>3, LimiterInvariant, PTL DEF Spec, RefusedWhenFull

-----------------------------------------------------------------------------
(* The endpoints.                                                          *)

(***************************************************************************)
(* Whatever the endpoints do between their awaits, the limiter takes only  *)
(* steps of its own specification.                                         *)
(***************************************************************************)
LEMMA UsesLimiter == IntakeSpec => Spec
<1>1. IntakeInit => Init
  BY DEF IntakeInit
<1>2. [IntakeNext]_<<vars, metrics, intake>> => [Next]_vars
  <2> SUFFICES ASSUME [IntakeNext]_<<vars, metrics, intake>>
               PROVE  [Next]_vars
    OBVIOUS
  <2>1. ASSUME NEW key \in Keys, Command(key) PROVE Next
    BY <2>1 DEF Command, Next
  <2>2. ASSUME NEW key \in Keys, Drops(key) PROVE UNCHANGED vars
    BY <2>2 DEF Drops
  <2>3. ASSUME NEW key \in Keys, Begins(key) PROVE UNCHANGED vars
    BY <2>3 DEF Begins
  <2>4. ASSUME NEW key \in Keys, Raises(key) PROVE UNCHANGED vars
    BY <2>4 DEF Raises
  <2>5. ASSUME NEW key \in Keys, NEW fails \in BOOLEAN, Returns(key, fails)
        PROVE  UNCHANGED vars
    BY <2>5 DEF Returns
  <2>6. ASSUME NEW key \in Keys, Forgiven({key}) PROVE Next
    BY <2>6 DEF Forgiven, Next
  <2>7. CASE Clock
    BY <2>7 DEF Clock, Next
  <2>8. CASE Forgiven(Keys)
    BY <2>8 DEF Forgiven, Next
  <2>9. CASE Forgotten
    BY <2>9 DEF Forgotten
  <2>10. CASE UNCHANGED <<vars, metrics, intake>>
    BY <2>10
  <2> QED
    BY <2>1, <2>2, <2>3, <2>4, <2>5, <2>6, <2>7, <2>8, <2>9, <2>10 DEF IntakeNext
<1> QED BY <1>1, <1>2, PTL DEF IntakeSpec, Spec

(***************************************************************************)
(* The limit on the commands of a student holds for the endpoints that use *)
(* the limiter: at most max_events admissions in a window.                 *)
(***************************************************************************)
THEOREM CommandsAreLimited == IntakeSpec => []WindowLimit
BY UsesLimiter, LimitHolds, PTL

(***************************************************************************)
(* No endpoint answers rate_limited to a student who has not used up the   *)
(* window that ends with the refusal.                                      *)
(***************************************************************************)
THEOREM CommandsAreRefusedWhenFull == IntakeSpec => RefusedWhenFull
BY UsesLimiter, RefusalsAreDue, PTL

-----------------------------------------------------------------------------
(***************************************************************************)
(* ceil(p / 100 * n) is a rank of a sorted list of n, and the nearest one: *)
(* p per cent of n are at most that many, and more than one less.          *)
(***************************************************************************)
THEOREM RankIsNearest ==
  ASSUME NEW n \in Nat \ {0}, NEW p \in {50, 95, 99}
  PROVE  /\ Rank(p, n) \in 1..n
         /\ 100 * Rank(p, n) >= p * n
         /\ 100 * (Rank(p, n) - 1) < p * n
<1>1. CASE p = 50
  BY <1>1 DEF Rank
<1>2. CASE p = 95
  BY <1>2 DEF Rank
<1>3. CASE p = 99
  BY <1>3 DEF Rank
<1> QED BY <1>1, <1>2, <1>3

USE MetricsAssumption

\* What is kept of the executions q: the latencies of the latest of them.
Keeps(s, q) ==
  /\ Len(s) = IF Len(q) < MaxSamples THEN Len(q) ELSE MaxSamples
  /\ \A i \in 1..Len(s) : s[i] = q[Len(q) - Len(s) + i].ms

Runs == [ms : Int, fails : BOOLEAN]

Failures(q) == {i \in DOMAIN q : q[i].fails}

\* The inductive invariant of the metrics.
MetricsInv ==
  /\ ran \in Seq(Runs) /\ samples \in Seq(Int)
  /\ now \in Int /\ since \in [Keys -> Int]
  /\ total = Len(ran) /\ failed = Cardinality(Failures(ran))
  /\ Keeps(samples, ran)

(***************************************************************************)
(* No executions.                                                          *)
(***************************************************************************)
LEMMA NoRuns ==
  /\ <<>> \in Seq(Runs) /\ <<>> \in Seq(Int) /\ Keeps(<<>>, <<>>)
  /\ Len(<<>>) = 0 /\ Cardinality(Failures(<<>>)) = 0
<1>1. Failures(<<>>) = {}
  BY DEF Failures
<1> QED BY <1>1, FS_EmptySet DEF Keeps

(***************************************************************************)
(* One more execution: the deque keeps its latency and loses the oldest    *)
(* one if it was full.                                                     *)
(***************************************************************************)
LEMMA KeptKeeps ==
  ASSUME NEW s \in Seq(Int), NEW q \in Seq(Runs), Keeps(s, q), NEW r \in Runs
  PROVE  Kept(s, r.ms) \in Seq(Int) /\ Keeps(Kept(s, r.ms), Append(q, r))
<1> DEFINE s2 == Kept(s, r.ms)
           q2 == Append(q, r)
<1>1. r.ms \in Int
  BY DEF Runs
<1>2. /\ Len(s) \in Nat /\ Len(q) \in Nat
      /\ Len(q2) = Len(q) + 1 /\ q2[Len(q) + 1] = r
      /\ \A i \in 1..Len(q) : q2[i] = q[i]
  OBVIOUS
<1>3. CASE Len(s) < MaxSamples
  <2>1. s2 = Append(s, r.ms) /\ Len(s) = Len(q)
    BY <1>3 DEF Keeps, Kept
  <2>2. /\ s2 \in Seq(Int) /\ Len(s2) = Len(s) + 1 /\ s2[Len(s) + 1] = r.ms
        /\ \A i \in 1..Len(s) : s2[i] = s[i]
    BY <2>1, <1>1
  <2>3. ASSUME NEW i \in 1..Len(s) PROVE s[i] = q[i].ms
    <3>1. s[i] = q[Len(q) - Len(s) + i].ms
      BY DEF Keeps
    <3>2. Len(q) - Len(s) + i = i
      BY <1>2, <2>1
    <3> QED BY <3>1, <3>2
  <2>4. ASSUME NEW i \in 1..Len(s2) PROVE s2[i] = q2[Len(q2) - Len(s2) + i].ms
    <3>1. Len(q2) - Len(s2) + i = i
      BY <1>2, <2>1, <2>2
    <3>2. CASE i = Len(s) + 1
      BY <3>1, <3>2, <1>2, <2>1, <2>2
    <3>3. CASE i \in 1..Len(s)
      BY <3>1, <3>3, <1>2, <2>1, <2>2, <2>3
    <3>4. i = Len(s) + 1 \/ i \in 1..Len(s)
      BY <1>2, <2>2
    <3> QED BY <3>2, <3>3, <3>4
  <2>5. Len(s2) = IF Len(q2) < MaxSamples THEN Len(q2) ELSE MaxSamples
    BY <1>2, <1>3, <2>1, <2>2
  <2> HIDE DEF s2, q2
  <2> QED BY <2>2, <2>4, <2>5 DEF Keeps, s2, q2
<1>4. CASE ~ (Len(s) < MaxSamples)
  <2>1. s2 = Append(Tail(s), r.ms) /\ Len(s) = MaxSamples /\ Len(q) >= MaxSamples
    BY <1>2, <1>4 DEF Keeps, Kept
  <2>2. s # <<>>
    BY <2>1
  <2>3. /\ Tail(s) \in Seq(Int) /\ Len(Tail(s)) = Len(s) - 1
        /\ \A i \in 1..(Len(s) - 1) : Tail(s)[i] = s[i + 1]
    BY <2>2
  <2>4. /\ s2 \in Seq(Int) /\ Len(s2) = Len(s) /\ s2[Len(s)] = r.ms
        /\ \A i \in 1..(Len(s) - 1) : s2[i] = s[i + 1]
    BY <2>1, <2>3, <1>1, <1>2
  <2>5. ASSUME NEW i \in 1..Len(s2) PROVE s2[i] = q2[Len(q2) - Len(s2) + i].ms
    <3>1. CASE i = Len(s)
      <4>1. Len(q2) - Len(s2) + i = Len(q) + 1
        BY <3>1, <1>2, <2>4
      <4>2. s2[i] = r.ms
        BY <3>1, <2>4
      <4> QED BY <4>1, <4>2, <1>2
    <3>2. CASE i \in 1..(Len(s) - 1)
      <4>1. s2[i] = s[i + 1] /\ i + 1 \in 1..Len(s)
        BY <3>2, <1>2, <2>4, SMTT(20)
      <4>2. s[i + 1] = q[Len(q) - Len(s) + (i + 1)].ms
        BY <4>1 DEF Keeps
      <4>3. Len(q) - Len(s) + (i + 1) \in 1..Len(q)
        BY <3>2, <1>2, <2>1
      <4>4. Len(q2) - Len(s2) + i = Len(q) - Len(s) + (i + 1)
        <5>1. Len(s2) = Len(s) /\ Len(q2) = Len(q) + 1
          BY <1>2, <2>4
        <5> HIDE DEF s2, q2
        <5> QED BY <5>1, <3>2, <1>2
      <4> QED BY <4>1, <4>2, <4>3, <4>4, <1>2
    <3>3. i = Len(s) \/ i \in 1..(Len(s) - 1)
      BY <1>2, <2>4
    <3> QED BY <3>1, <3>2, <3>3
  <2>6. Len(s2) = IF Len(q2) < MaxSamples THEN Len(q2) ELSE MaxSamples
    BY <1>2, <2>1, <2>4
  <2> HIDE DEF s2, q2
  <2> QED BY <2>4, <2>5, <2>6 DEF Keeps, s2, q2
<1> QED BY <1>3, <1>4

(***************************************************************************)
(* One more execution: one more failure, if it failed.                     *)
(***************************************************************************)
LEMMA FailuresCount ==
  ASSUME NEW q \in Seq(Runs), NEW r \in Runs
  PROVE  /\ IsFiniteSet(Failures(q)) /\ Cardinality(Failures(q)) \in Nat
         /\ Cardinality(Failures(Append(q, r))) =
              Cardinality(Failures(q)) + (IF r.fails THEN 1 ELSE 0)
<1> DEFINE n == Len(q)
           later == Append(q, r)
           F == Failures(q)
<1>1. n \in Nat /\ DOMAIN q = 1..n /\ IsFiniteSet(1..n)
  BY LenProperties, FS_Interval
<1>2. /\ DOMAIN later = 1..(n + 1)
      /\ \A i \in 1..n : later[i] = q[i]
      /\ later[n + 1] = r
  BY <1>1, AppendProperties, LenProperties
<1>3. F \in SUBSET (1..n)
  BY <1>1 DEF Failures
<1>4. \A i : i \in 1..(n + 1) <=> i \in 1..n \/ i = n + 1
  BY <1>1
<1> HIDE DEF later
<1>5. Failures(later) = IF r.fails THEN F \cup {n + 1} ELSE F
  <2>1. \A i : i \in Failures(later) <=> i \in DOMAIN later /\ later[i].fails
    BY DEF Failures
  <2>2. \A i : i \in F <=> i \in 1..n /\ q[i].fails
    BY <1>1 DEF Failures
  <2> HIDE DEF F, n
  <2>3. CASE r.fails
    BY <1>2, <1>4, <2>1, <2>2, <2>3, Zenon
  <2>4. CASE ~ r.fails
    BY <1>2, <1>4, <2>1, <2>2, <2>4, Zenon
  <2> QED BY <2>3, <2>4
<1>6. n + 1 \notin F
  BY <1>1, <1>3
<1> HIDE DEF F
<1>7. IsFiniteSet(F) /\ Cardinality(F) \in Nat
  <2>1. IsFiniteSet(F)
    BY <1>1, <1>3, FS_Subset
  <2> QED BY <2>1, FS_CardinalityType
<1>8. Cardinality(F \cup {n + 1}) = Cardinality(F) + 1
  BY <1>6, <1>7, FS_AddElement
<1>9. Cardinality(Failures(later)) = Cardinality(F) + (IF r.fails THEN 1 ELSE 0)
  BY <1>5, <1>7, <1>8
<1> QED BY <1>7, <1>9 DEF F, later

(***************************************************************************)
(* Every step preserves the invariant of the metrics.                      *)
(***************************************************************************)
LEMMA MetricsStep ==
  ASSUME MetricsInv, [IntakeNext]_<<vars, metrics, intake>>
  PROVE  MetricsInv'
<1>1. ASSUME NEW key \in Keys, Command(key) PROVE MetricsInv'
  BY <1>1 DEF MetricsInv, Command, Allow, metrics
<1>2. ASSUME NEW key \in Keys, Drops(key) \/ Raises(key) PROVE MetricsInv'
  BY <1>2 DEF MetricsInv, Drops, Raises, vars, metrics
<1>3. ASSUME NEW key \in Keys, Begins(key) PROVE MetricsInv'
  BY <1>3 DEF MetricsInv, Begins, vars, metrics
<1>4. ASSUME NEW key \in Keys, NEW fails \in BOOLEAN, Returns(key, fails)
      PROVE  MetricsInv'
  <2> DEFINE r == [ms |-> now - since[key], fails |-> fails]
  <2>1. r \in Runs /\ r.ms = now - since[key]
    BY DEF MetricsInv, Runs
  <2>2. /\ samples' = Kept(samples, r.ms) /\ ran' = Append(ran, r)
        /\ total' = total + 1 /\ now' = now /\ since' = since
        /\ failed' = failed + (IF r.fails THEN 1 ELSE 0)
    BY <1>4, <2>1 DEF Returns, record, vars
  <2> HIDE DEF r
  <2>3. samples' \in Seq(Int) /\ Keeps(samples', ran')
    BY <2>1, <2>2, KeptKeeps DEF MetricsInv
  <2>4. ran' \in Seq(Runs) /\ total' = Len(ran')
    BY <2>1, <2>2 DEF MetricsInv
  <2>5. failed' = Cardinality(Failures(ran'))
    <3>1. failed = Cardinality(Failures(ran)) /\ ran \in Seq(Runs)
      BY DEF MetricsInv
    <3>2. Cardinality(Failures(Append(ran, r))) =
            Cardinality(Failures(ran)) + (IF r.fails THEN 1 ELSE 0)
      BY <2>1, <3>1, FailuresCount
    <3> QED BY <2>2, <3>1, <3>2
  <2> QED BY <2>2, <2>3, <2>4, <2>5 DEF MetricsInv
<1>5. ASSUME NEW keys, Forgiven(keys) PROVE MetricsInv'
  BY <1>5 DEF MetricsInv, Forgiven, Reset, metrics, intake
<1>6. CASE Clock
  BY <1>6 DEF MetricsInv, Clock, Tick, metrics, intake
<1>7. CASE Forgotten
  <2>1. ran' = <<>> /\ samples' = <<>> /\ total' = 0 /\ failed' = 0
        /\ now' = now /\ since' = since
    BY <1>7 DEF Forgotten, forget, vars
  <2> QED BY <2>1, NoRuns DEF MetricsInv
<1>8. CASE UNCHANGED <<vars, metrics, intake>>
  BY <1>8 DEF MetricsInv, vars, metrics, intake
<1> QED
  BY <1>1, <1>2, <1>3, <1>4, <1>5, <1>6, <1>7, <1>8 DEF IntakeNext

(***************************************************************************)
(* For any number of samples kept: the counter has counted every execution *)
(* that returned, and the samples are the latencies of the latest of them, *)
(* in the order in which they returned.                                    *)
(***************************************************************************)
THEOREM SamplesAreLatest == IntakeSpec => [](total = Len(ran) /\ Keeps(samples, ran))
<1>1. IntakeInit => MetricsInv
  BY NoRuns DEF IntakeInit, Init, MetricsInit, MetricsInv
<1>2. MetricsInv => total = Len(ran) /\ Keeps(samples, ran)
  BY DEF MetricsInv
<1> QED BY <1>1, <1>2, MetricsStep, PTL DEF IntakeSpec

-----------------------------------------------------------------------------
(* The statistics.                                                         *)

(***************************************************************************)
(* Every place of the sorted list is that of one sample: samples up to     *)
(* different ones are properly included in each other, so that no two have *)
(* the same place, and there are as many places as samples.                *)
(***************************************************************************)
LEMMA UpToParts ==
  ASSUME NEW s \in Seq(Int), NEW i \in 1..Len(s)
  PROVE  /\ Len(s) \in Nat /\ DOMAIN s = 1..Len(s) /\ IsFiniteSet(1..Len(s))
         /\ UpTo(s, i) \in SUBSET (1..Len(s)) /\ i \in UpTo(s, i)
         /\ IsFiniteSet(UpTo(s, i)) /\ Cardinality(UpTo(s, i)) \in 1..Len(s)
<1> DEFINE n == Len(s)
           U == UpTo(s, i)
<1>1. n \in Nat /\ DOMAIN s = 1..n /\ IsFiniteSet(1..n) /\ Cardinality(1..n) = n
  <2>1. n \in Nat /\ DOMAIN s = 1..n
    BY LenProperties
  <2> HIDE DEF n
  <2>2. IsFiniteSet(1..n) /\ Cardinality(1..n) = IF 1 > n THEN 0 ELSE n - 1 + 1
    BY <2>1, FS_Interval
  <2> QED BY <2>1, <2>2
<1>2. U \in SUBSET (1..n) /\ i \in U
  BY <1>1, LenProperties DEF UpTo
<1> HIDE DEF U, n
<1>3. IsFiniteSet(U) /\ Cardinality(U) \in Nat /\ Cardinality(U) <= n
  <2> DEFINE D == 1..n
  <2>1. IsFiniteSet(D) /\ U \in SUBSET D /\ Cardinality(D) = n
    BY <1>1, <1>2
  <2> HIDE DEF D
  <2>2. IsFiniteSet(U) /\ Cardinality(U) <= Cardinality(D)
    BY <2>1, FS_Subset
  <2>3. Cardinality(U) \in Nat
    BY <2>2, FS_CardinalityType
  <2> QED BY <2>1, <2>2, <2>3
<1>4. Cardinality(U) # 0
  BY <1>2, <1>3, FS_EmptySet
<1>5. Cardinality(U) \in 1..n
  BY <1>1, <1>3, <1>4
<1> QED BY <1>1, <1>2, <1>3, <1>5 DEF U, n

(***************************************************************************)
(* A sample that comes later in the sorted list has a greater place.       *)
(***************************************************************************)
LEMMA PlacesDiffer ==
  ASSUME NEW s \in Seq(Int), NEW i \in 1..Len(s), NEW j \in 1..Len(s),
         s[i] < s[j] \/ (s[i] = s[j] /\ i < j)
  PROVE  Cardinality(UpTo(s, i)) < Cardinality(UpTo(s, j))
<1> DEFINE U == UpTo(s, i)
           V == UpTo(s, j)
<1>1. /\ U \in SUBSET (1..Len(s)) /\ V \in SUBSET (1..Len(s))
      /\ IsFiniteSet(V) /\ Cardinality(V) \in Nat /\ Cardinality(U) \in Nat /\ j \in V
  <2>1. /\ U \in SUBSET (1..Len(s)) /\ Cardinality(U) \in 1..Len(s)
        /\ V \in SUBSET (1..Len(s)) /\ Cardinality(V) \in 1..Len(s)
        /\ IsFiniteSet(V) /\ j \in V /\ Len(s) \in Nat
    BY UpToParts
  <2> HIDE DEF U, V
  <2> QED BY <2>1
<1>2. \A k \in 1..Len(s) : k \in Int /\ s[k] \in Int
  BY LenProperties
<1>3. U \subseteq V /\ j \notin U
  BY <1>1, <1>2 DEF UpTo
<1> HIDE DEF U, V
<1>4. Cardinality(U) <= Cardinality(V) /\ Cardinality(U) # Cardinality(V)
  BY <1>1, <1>3, FS_Subset
<1> QED BY <1>1, <1>4 DEF U, V

(***************************************************************************)
(* As many samples as places, and no place twice: every place is taken.    *)
(***************************************************************************)
LEMMA EveryPlace ==
  ASSUME NEW s \in Seq(Int), NEW k \in 1..Len(s)
  PROVE  \E i \in 1..Len(s) : Cardinality(UpTo(s, i)) = k
<1> DEFINE D == 1..Len(s)
           f == [i \in D |-> Cardinality(UpTo(s, i))]
<1>1. Len(s) \in Nat /\ IsFiniteSet(D) /\ \A i \in D : i \in Int /\ s[i] \in Int
  BY LenProperties, FS_Interval, SMTT(20)
<1>2. f \in [D -> D]
  <2>1. \A i \in D : Cardinality(UpTo(s, i)) \in D
    BY UpToParts
  <2> HIDE DEF D
  <2> QED BY <2>1
<1>3. \A i, j \in D : f[i] = f[j] => i = j
  <2> SUFFICES ASSUME NEW i \in D, NEW j \in D, i # j PROVE f[i] # f[j]
    OBVIOUS
  <2>1. \/ s[i] < s[j] \/ (s[i] = s[j] /\ i < j)
        \/ s[j] < s[i] \/ (s[j] = s[i] /\ j < i)
    BY <1>1
  <2>2. Cardinality(UpTo(s, i)) \in Int /\ Cardinality(UpTo(s, j)) \in Int
    BY <1>1, UpToParts
  <2>3. Cardinality(UpTo(s, i)) # Cardinality(UpTo(s, j))
    BY <2>1, <2>2, PlacesDiffer
  <2> QED BY <2>3
<1> HIDE DEF f, D
<1>4. f \in Injection(D, D)
  BY <1>2, <1>3, Zenon DEF Injection, IsInjective
<1>5. f \in Surjection(D, D)
  BY <1>1, <1>4, FS_Injection
<1>6. \E i \in D : f[i] = k
  BY <1>5 DEF Surjection, D
<1> QED BY <1>6 DEF f, D

(***************************************************************************)
(* A sorted list has the samples by their places.                          *)
(***************************************************************************)
LEMMA AtPlace ==
  ASSUME NEW s \in Seq(Int), NEW k \in 1..Len(s)
  PROVE  /\ Len(Ascending(s)) = Len(s)
         /\ \E i \in 1..Len(s) : Cardinality(UpTo(s, i)) = k /\ Ascending(s)[k] = s[i]
<1> DEFINE at(m) == CHOOSE i \in DOMAIN s : Cardinality(UpTo(s, i)) = m
           t == Ascending(s)
           n == Len(s)
<1>1. n \in Nat /\ DOMAIN s = 1..n
  BY LenProperties
<1>2. at(k) \in 1..n /\ Cardinality(UpTo(s, at(k))) = k
  BY <1>1, EveryPlace
<1>3. \A m \in 1..n : s[at(m)] \in Int
  <2> TAKE m \in 1..n
  <2>1. at(m) \in 1..n
    BY <1>1, EveryPlace
  <2> QED BY <2>1, LenProperties
<1>4. t = [m \in 1..n |-> s[at(m)]]
  BY <1>1 DEF Ascending
<1> HIDE DEF at, t, n
<1>5. t \in [1..n -> Int] /\ t[k] = s[at(k)]
  BY <1>3, <1>4 DEF n
<1>6. t \in Seq(Int)
  BY <1>1, <1>5, SeqDef
<1>7. Len(t) = n
  <2>1. DOMAIN t = 1..n /\ DOMAIN t = 1..Len(t) /\ Len(t) \in Nat
    BY <1>5, <1>6, LenProperties
  <2> QED BY <1>1, <2>1
<1> QED BY <1>2, <1>5, <1>7 DEF t, n

(***************************************************************************)
(* A percentile by its definition is the sample at the nearest rank: the   *)
(* samples up to it are enough, and those less than it are too few.        *)
(***************************************************************************)
LEMMA PercentileAtRank ==
  ASSUME NEW s \in Seq(Int), NEW q, DOMAIN q = 1..Len(s), Len(q) = Len(s), s # <<>>,
         \A i \in 1..Len(s) : q[i].ms = s[i],
         NEW p \in {50, 95, 99}
  PROVE  Percentile(q, p) = Ascending(s)[Rank(p, Len(s))]
<1> DEFINE n == Len(s)
           D == 1..n
           R == Rank(p, n)
           v == Ascending(s)[R]
           below(ms) == {i \in D : s[i] <= ms}
           upTo(ms) == Cardinality(below(ms))
           enough == {s[j] : j \in {i \in D : 100 * upTo(s[i]) >= p * n}}
<1>1. n \in Nat \ {0} /\ IsFiniteSet(D) /\ \A i \in D : s[i] \in Int
  BY EmptySeq, LenProperties, FS_Interval
<1>2. R \in D /\ 100 * R >= p * n /\ 100 * (R - 1) < p * n
  <2>1. n \in Nat \ {0}
    BY <1>1
  <2> HIDE DEF n, D, R, v, below, upTo, enough
  <2>2. /\ Rank(p, n) \in 1..n
        /\ 100 * Rank(p, n) >= p * n
        /\ 100 * (Rank(p, n) - 1) < p * n
    BY ONLY <2>1, RankIsNearest, ZenonT(30)
  <2> QED BY ONLY <2>2 DEF R, D
<1>3. PICK i \in D : Cardinality(UpTo(s, i)) = R /\ v = s[i]
  <2> HIDE DEF R
  <2> QED BY <1>2, AtPlace
<1>4. Percentile(q, p) = CHOOSE ms \in enough : \A other \in enough : ms <= other
  <2>1. \A ms : {k \in DOMAIN q : q[k].ms <= ms} = below(ms)
    OBVIOUS
  <2> DEFINE count(ms) == Cardinality({k \in DOMAIN q : q[k].ms <= ms})
             few == {j \in DOMAIN q : 100 * count(q[j].ms) >= p * Len(q)}
             theirs == {q[k].ms : k \in few}
  <2>2. \A ms : count(ms) = upTo(ms)
    BY <2>1
  <2> HIDE DEF count, upTo, D, n
  <2>3. few = {j \in D : 100 * upTo(s[j]) >= p * n}
    BY <2>2 DEF D, n
  <2> HIDE DEF few
  <2>4. theirs = enough
    BY <2>3 DEF D, n
  <2>5. Percentile(q, p) = CHOOSE ms \in theirs : \A other \in theirs : ms <= other
    BY DEF Percentile, few, count
  <2> HIDE DEF theirs, enough
  <2> QED BY <2>4, <2>5
<1>5. \A ms : IsFiniteSet(below(ms)) /\ Cardinality(below(ms)) \in Nat
  <2> TAKE ms
  <2>1. below(ms) \in SUBSET D
    OBVIOUS
  <2> HIDE DEF D, below
  <2>2. IsFiniteSet(below(ms))
    BY <1>1, <2>1, FS_Subset
  <2> QED BY <2>2, FS_CardinalityType
<1>6. UpTo(s, i) \subseteq D /\ i \in UpTo(s, i) /\ IsFiniteSet(UpTo(s, i)) /\ DOMAIN s = D
  BY UpToParts
<1>7. UpTo(s, i) \subseteq below(v)
  BY <1>1, <1>3, <1>6 DEF UpTo
<1>8. \A j \in D : s[j] < v => below(s[j]) \subseteq UpTo(s, i) \ {i}
  BY <1>1, <1>3, <1>6 DEF UpTo
<1> HIDE DEF D, R, v, n, below
<1>9. R \in Int /\ R >= 1
  BY <1>1, <1>2 DEF D
<1>10. v \in enough
  <2>1. Cardinality(UpTo(s, i)) <= upTo(v)
    BY <1>5, <1>7, FS_Subset
  <2>2. upTo(v) \in Int /\ p * n \in Int
    BY <1>1, <1>5
  <2>3. 100 * upTo(v) >= p * n
    <3> HIDE DEF upTo
    <3>1. R <= upTo(v)
      BY <1>3, <2>1
    <3>2. 100 * R <= 100 * upTo(v)
      BY <1>9, <2>2, <3>1
    <3> QED BY <1>2, <1>9, <2>2, <3>2
  <2> QED BY <1>3, <2>3
<1>11. \A other \in enough : v <= other
  <2> SUFFICES ASSUME NEW j \in D, 100 * upTo(s[j]) >= p * n, s[j] < v PROVE FALSE
    BY <1>1, <1>3
  <2>1. below(s[j]) \subseteq UpTo(s, i) \ {i}
    BY <1>8
  <2>2. IsFiniteSet(UpTo(s, i) \ {i}) /\ Cardinality(UpTo(s, i) \ {i}) = R - 1
    BY <1>3, <1>6, FS_RemoveElement
  <2>3. upTo(s[j]) <= R - 1
    BY <2>1, <2>2, FS_Subset
  <2>4. upTo(s[j]) \in Int /\ p * n \in Int
    BY <1>1, <1>5
  <2>5. 100 * upTo(s[j]) <= 100 * (R - 1)
    <3> HIDE DEF upTo
    <3> QED BY <1>9, <2>3, <2>4
  <2> HIDE DEF upTo
  <2> QED BY <1>2, <1>9, <2>4, <2>5
<1>12. \A ms \in enough : ms \in Int
  BY <1>1
<1> HIDE DEF enough
<1>13. \A ms \in enough : (\A other \in enough : ms <= other) => ms = v
  BY <1>10, <1>11, <1>12
<1>14. Percentile(q, p) = v
  BY <1>4, <1>10, <1>11, <1>13
<1> QED BY <1>14 DEF v, R, n

(***************************************************************************)
(* The last of the sorted list is the greatest sample.                     *)
(***************************************************************************)
LEMMA LastIsGreatest ==
  ASSUME NEW s \in Seq(Int), s # <<>>
  PROVE  LET top == Ascending(s)[Len(s)]
         IN  (\E i \in 1..Len(s) : top = s[i]) /\ \A i \in 1..Len(s) : s[i] <= top
<1> DEFINE n == Len(s)
           D == 1..n
<1>1. n \in Nat \ {0} /\ IsFiniteSet(D) /\ \A i \in D : s[i] \in Int
  BY EmptySeq, LenProperties, FS_Interval
<1>2. Cardinality(D) = n /\ n \in D
  <2> HIDE DEF n
  <2>1. Cardinality(D) = IF 1 > n THEN 0 ELSE n - 1 + 1
    BY <1>1, FS_Interval
  <2> QED BY <1>1, <2>1
<1>3. PICK i \in D : Cardinality(UpTo(s, i)) = n /\ Ascending(s)[n] = s[i]
  BY <1>2, AtPlace
<1>4. UpTo(s, i) \in SUBSET D /\ DOMAIN s = D
  BY UpToParts
<1> HIDE DEF D, n
<1>5. UpTo(s, i) = D
  BY <1>1, <1>2, <1>3, <1>4, FS_Subset
<1>6. \A j \in D : s[j] <= s[i]
  BY <1>1, <1>4, <1>5 DEF UpTo
<1> QED BY <1>3, <1>6 DEF D, n

(***************************************************************************)
(* /metrics tells the truth: the counters count the executions that        *)
(* returned, and the statistics are those of the latest of them.           *)
(***************************************************************************)
THEOREM MetricsAreTrue == IntakeSpec => []SnapshotIsOfRuns
<1>1. MetricsInv => SnapshotIsOfRuns
  <2> SUFFICES ASSUME MetricsInv PROVE SnapshotIsOfRuns
    OBVIOUS
  <2> DEFINE n == IF Len(ran) < MaxSamples THEN Len(ran) ELSE MaxSamples
             last == Latest(n)
             lasted == {last[i].ms : i \in DOMAIN last}
             t == Ascending(samples)
  <2>1. /\ ran \in Seq(Runs) /\ samples \in Seq(Int) /\ total = Len(ran)
        /\ failed = Cardinality({i \in DOMAIN ran : ran[i].fails})
        /\ Len(samples) = n
        /\ \A i \in 1..n : samples[i] = ran[Len(ran) - n + i].ms
    BY DEF MetricsInv, Keeps, Failures
  <2>2. n \in Nat /\ n <= Len(ran) /\ Len(ran) \in Nat
    BY <2>1, LenProperties
  <2> HIDE DEF n
  <2>3. DOMAIN last = 1..n /\ Len(last) = n /\ \A i \in 1..n : last[i].ms = samples[i]
    <3> DEFINE from == Len(ran) - n + 1
               to == Len(ran)
    <3>1. from \in Int /\ to \in Int /\ to - from + 1 = n /\ last = SubSeq(ran, from, to)
      BY <2>2 DEF Latest
    <3>2. last = [i \in 1..n |-> ran[from + i - 1]]
      BY <2>2, <3>1
    <3> HIDE DEF last
    <3>3. DOMAIN last = 1..n /\ Len(last) = n
      BY <2>2, <3>2
    <3>4. ASSUME NEW i \in 1..n PROVE last[i].ms = samples[i]
      <4>1. from + i - 1 = Len(ran) - n + i
        BY <2>2
      <4> HIDE DEF from
      <4>2. last[i] = ran[Len(ran) - n + i]
        BY <3>2, <4>1
      <4> QED BY <2>1, <4>2
    <3> QED BY <3>3, <3>4
  <2> HIDE DEF last
  <2>4. Len(t) = n
    <3>1. CASE n # 0
      <4>1. 1 \in 1..Len(samples)
        BY <2>1, <2>2, <3>1
      <4> QED BY <2>1, <4>1, AtPlace
    <3>2. CASE n = 0
      <4>1. DOMAIN samples = {}
        BY <2>1, <3>2, LenProperties
      <4>2. t = <<>>
        BY <4>1 DEF Ascending
      <4> QED BY <3>2, <4>2
    <3> QED BY <3>1, <3>2
  <2> HIDE DEF t
  <2>5. snapshot = IF n = 0 THEN [count |-> 0, sum |-> 0, p50 |-> 0, p95 |-> 0, p99 |-> 0, max |-> 0]
                   ELSE [count |-> n, sum |-> Total(t), p50 |-> t[Rank(50, n)],
                         p95 |-> t[Rank(95, n)], p99 |-> t[Rank(99, n)], max |-> t[n]]
    BY <2>4 DEF snapshot, t
  <2>6. snapshot.count = n
    BY <2>5
  <2>7. ASSUME n > 0
        PROVE  /\ snapshot.p50 = Percentile(last, 50)
               /\ snapshot.p95 = Percentile(last, 95)
               /\ snapshot.p99 = Percentile(last, 99)
               /\ snapshot.max \in lasted /\ \A ms \in lasted : ms <= snapshot.max
    <3>1. samples # <<>> /\ n # 0
      BY <2>1, <2>7
    <3>2. /\ snapshot.p50 = t[Rank(50, n)] /\ snapshot.p95 = t[Rank(95, n)]
          /\ snapshot.p99 = t[Rank(99, n)] /\ snapshot.max = t[n]
      BY <2>5, <3>1
    <3>3. \A p \in {50, 95, 99} : Percentile(last, p) = t[Rank(p, n)]
      BY <2>1, <2>3, <3>1, PercentileAtRank DEF t
    <3>4. (\E i \in 1..n : t[n] = samples[i]) /\ \A i \in 1..n : samples[i] <= t[n]
      BY <2>1, <3>1, LastIsGreatest DEF t
    <3>5. snapshot.max \in lasted /\ \A ms \in lasted : ms <= snapshot.max
      BY <2>3, <3>2, <3>4
    <3> QED BY <3>2, <3>3, <3>5
  <2> QED BY <2>1, <2>6, <2>7 DEF SnapshotIsOfRuns, n, last
<1>2. IntakeInit => MetricsInv
  BY NoRuns DEF IntakeInit, Init, MetricsInit, MetricsInv
<1> QED BY <1>1, <1>2, MetricsStep, PTL DEF IntakeSpec
=============================================================================
