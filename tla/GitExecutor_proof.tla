-------------------------- MODULE GitExecutor_proof --------------------------
(***************************************************************************)
(* Proofs about the parser of the log, the layout of the graph, and the    *)
(* executor that decides when the graph is read, for logs of any length    *)
(* and repositories of any size.                                           *)
(***************************************************************************)
EXTENDS GitExecutor, SequenceTheorems, FiniteSetTheorems, TLAPS

-----------------------------------------------------------------------------
(* Numbers.                                                                *)

(***************************************************************************)
(* A set of numbers that is not empty has a least one: the sets 0..t are   *)
(* finite, so that one of them has no other inside it.                     *)
(***************************************************************************)
LEMMA LeastNumber ==
  ASSUME NEW T \in SUBSET Nat, T # {}
  PROVE  \E m \in T : \A t \in T : m <= t
<1> DEFINE U == {0..t : t \in T}
           R == StrictSubsetOrdering(Nat)
           F == FiniteSubsetsOf(Nat)
<1>1. U \subseteq F /\ U # {}
  <2>1. ASSUME NEW t \in T PROVE 0..t \in F
    <3>1. IsFiniteSet(0..t)
      BY FS_Interval
    <3>2. 0..t \subseteq Nat
      OBVIOUS
    <3> QED BY <3>1, <3>2 DEF FiniteSubsetsOf
  <2> HIDE DEF F
  <2> QED BY <2>1
<1>2. IsWellFoundedOn(R, F)
  BY FS_StrictSubsetOrderingWellFounded
<1>3. PICK u \in U : \A v \in U : <<v, u>> \notin R
  <2> HIDE DEF U, R, F
  <2> QED BY <1>1, <1>2, WFMin
<1>4. PICK m \in T : u = 0..m
  BY <1>3
<1>5. ASSUME NEW t \in T, t < m PROVE FALSE
  <2>1. /\ 0..t \in U /\ m \notin 0..t /\ m \in 0..m
        /\ 0..t \subseteq 0..m
    BY <1>5
  <2>2. <<0..t, 0..m>> \in R
    BY <2>1 DEF StrictSubsetOrdering
  <2> QED BY <1>3, <1>4, <2>1, <2>2
<1> QED BY <1>5

(***************************************************************************)
(* So a set of numbers that is not empty and has a bound has a greatest.   *)
(***************************************************************************)
LEMMA GreatestNumber ==
  ASSUME NEW n \in Nat, NEW T \in SUBSET (0..n), T # {}
  PROVE  \E m \in T : \A t \in T : t <= m
<1> DEFINE U == {n - t : t \in T}
<1>1. U \in SUBSET Nat /\ U # {}
  <2>1. \A t \in T : n - t \in Nat
    OBVIOUS
  <2> QED BY <2>1
<1>2. PICK u \in U : \A v \in U : u <= v
  <2> HIDE DEF U
  <2> QED BY <1>1, LeastNumber
<1>3. PICK m \in T : u = n - m
  BY <1>2
<1>4. \A t \in T : n - m <= n - t
  BY <1>2, <1>3
<1> QED BY <1>4

(***************************************************************************)
(* What holds of 0, and of a number whenever it holds of the one before,   *)
(* holds of all numbers up to N: T is the set of those it holds of.        *)
(***************************************************************************)
LEMMA UpTo ==
  ASSUME NEW N \in Nat, NEW T, 0 \in T,
         \A n \in 1..N : n - 1 \in T => n \in T
  PROVE  \A n \in 0..N : n \in T
<1> DEFINE U == {n \in 0..N : n \notin T}
<1> SUFFICES ASSUME U # {} PROVE FALSE
  OBVIOUS
<1>1. PICK m \in U : \A t \in U : m <= t
  <2>1. U \in SUBSET Nat
    OBVIOUS
  <2> HIDE DEF U
  <2> QED BY <2>1, LeastNumber
<1>2. m \in 1..N /\ m - 1 \notin U
  BY <1>1
<1> QED BY <1>1, <1>2

-----------------------------------------------------------------------------
(* The layout: computeLayout.                                              *)

(***************************************************************************)
(* The rows of a graph: numbered from 1, no commit in two of them.         *)
(***************************************************************************)
Rows(nodes) ==
  /\ Len(nodes) \in Nat /\ DOMAIN nodes = 1..Len(nodes)
  /\ \A i, j \in DOMAIN nodes : nodes[i].id = nodes[j].id => i = j

(***************************************************************************)
(* The lanes are those of the recursion over the rows.                     *)
(***************************************************************************)
LEMMA LanesByRow ==
  ASSUME NEW nodes, Len(nodes) \in Nat, NEW owner
  PROVE  \E lanes :
           /\ Lanes(nodes, owner) = lanes[Len(nodes)]
           /\ lanes[0] = [of |-> [b \in Trunk |-> 0], next |-> 1]
           /\ \A row \in 1..Len(nodes) :
                lanes[row] = LaneOf(lanes[row - 1], owner[nodes[row].id])
<1> DEFINE N == Len(nodes)
           Start == [of |-> [b \in Trunk |-> 0], next |-> 1]
           Def(l, n) == l = [row \in 0..n |-> IF row = 0 THEN Start
                               ELSE LaneOf(l[row - 1], owner[nodes[row].id])]
           T == {n \in 0..N : \E l : Def(l, n)}
<1>1. 0 \in T
  <2>1. Def([row \in 0..0 |-> Start], 0)
    OBVIOUS
  <2> HIDE DEF Def
  <2> QED BY <2>1
<1>2. ASSUME NEW n \in 1..N, n - 1 \in T PROVE n \in T
  <2>1. PICK l : Def(l, n - 1)
    BY <1>2
  <2> DEFINE m == [row \in 0..n |-> IF row = 0 THEN Start
                                    ELSE LaneOf(l[row - 1], owner[nodes[row].id])]
  <2>2. \A row \in 0..(n - 1) : m[row] = l[row]
    BY <2>1
  <2>3. Def(m, n)
    BY <2>2
  <2> HIDE DEF Def, m
  <2> QED BY <2>3
<1>3. N \in T
  <2> HIDE DEF T
  <2>1. \A n \in 0..N : n \in T
    BY <1>1, <1>2, UpTo
  <2> QED BY <2>1
<1>4. PICK l : Def(l, N)
  BY <1>3
<1> DEFINE lanes == CHOOSE m : Def(m, N)
<1>5. Def(lanes, N)
  BY <1>4
<1>6. Lanes(nodes, owner) = lanes[N]
  BY DEF Lanes
<1> HIDE DEF lanes
<1> QED BY <1>5, <1>6, SMTT(20)

(***************************************************************************)
(* Lanes handed out to branches: a number below next each, 0 for those of  *)
(* the trunk only, and two others never share one.                         *)
(***************************************************************************)
Handed(lanes, branches) ==
  /\ lanes.next \in Nat \ {0}
  /\ DOMAIN lanes.of = Trunk \cup branches
  /\ \A b \in DOMAIN lanes.of :
       /\ lanes.of[b] \in 0..(lanes.next - 1)
       /\ lanes.of[b] = 0 <=> b \in Trunk
  /\ \A b, c \in DOMAIN lanes.of \ Trunk : lanes.of[b] = lanes.of[c] => b = c

(***************************************************************************)
(* A row that asks for the lane of its branch keeps the lanes handed out:  *)
(* none shared, all below the next.                                        *)
(***************************************************************************)
LEMMA HandedOneMore ==
  ASSUME NEW lanes, NEW branches, NEW branch, Handed(lanes, branches)
  PROVE  Handed(LaneOf(lanes, branch), branches \cup ({branch} \ {None}))
<1>1. CASE branch = None \/ branch \in DOMAIN lanes.of
  BY <1>1 DEF Handed, LaneOf
<1>2. CASE ~ (branch = None \/ branch \in DOMAIN lanes.of)
  <2> DEFINE later == LaneOf(lanes, branch)
  <2>1. /\ later.next = lanes.next + 1
        /\ DOMAIN later.of = DOMAIN lanes.of \cup {branch}
        /\ later.of[branch] = lanes.next
        /\ \A b \in DOMAIN lanes.of : later.of[b] = lanes.of[b]
    BY <1>2 DEF LaneOf, Put
  <2> HIDE DEF later
  <2>2. lanes.next \in Nat \ {0} /\ DOMAIN lanes.of = Trunk \cup branches
    BY DEF Handed
  <2>3. later.next \in Nat \ {0}
    BY <2>1, <2>2
  <2>4. DOMAIN later.of = Trunk \cup (branches \cup ({branch} \ {None}))
    BY <1>2, <2>1, <2>2
  <2>5. branch \notin Trunk
    BY <1>2, <2>2
  <2>6. ASSUME NEW b \in DOMAIN later.of
        PROVE  /\ later.of[b] \in 0..(later.next - 1)
               /\ later.of[b] = 0 <=> b \in Trunk
               /\ b # branch => later.of[b] < later.of[branch]
    <3>1. CASE b = branch
      BY <2>1, <2>2, <2>5, <3>1
    <3>2. CASE b # branch
      <4>1. b \in DOMAIN lanes.of /\ later.of[b] = lanes.of[b]
        BY <2>1, <3>2
      <4>2. lanes.of[b] \in 0..(lanes.next - 1) /\ (lanes.of[b] = 0 <=> b \in Trunk)
        BY <4>1 DEF Handed
      <4> QED BY <2>1, <2>2, <3>2, <4>1, <4>2
    <3> QED BY <3>1, <3>2
  <2>7. ASSUME NEW b \in DOMAIN later.of \ Trunk, NEW c \in DOMAIN later.of \ Trunk,
               later.of[b] = later.of[c]
        PROVE  b = c
    <3>1. CASE b = branch \/ c = branch
      BY <2>1, <2>2, <2>5, <2>6, <2>7, <3>1
    <3>2. CASE b # branch /\ c # branch
      BY <2>1, <2>7, <3>2 DEF Handed
    <3> QED BY <3>1, <3>2
  <2>8. Handed(later, branches \cup ({branch} \ {None}))
    BY <2>3, <2>4, <2>6, <2>7 DEF Handed
  <2> QED BY <2>8 DEF later
<1> QED BY <1>1, <1>2

(***************************************************************************)
(* So every branch of the rows has got a lane in the end.                  *)
(***************************************************************************)
LEMMA AllHanded ==
  ASSUME NEW nodes, Rows(nodes), NEW owner
  PROVE  Handed(Lanes(nodes, owner),
                {owner[nodes[i].id] : i \in DOMAIN nodes} \ {None})
<1> DEFINE N == Len(nodes)
           Met(n) == {owner[nodes[i].id] : i \in 1..n} \ {None}
<1>1. PICK lanes :
        /\ Lanes(nodes, owner) = lanes[N]
        /\ lanes[0] = [of |-> [b \in Trunk |-> 0], next |-> 1]
        /\ \A row \in 1..N : lanes[row] = LaneOf(lanes[row - 1], owner[nodes[row].id])
  BY LanesByRow DEF Rows
<1> DEFINE T == {n \in 0..N : Handed(lanes[n], Met(n))}
<1>2. 0 \in T
  BY <1>1 DEF Handed, Rows
<1>3. ASSUME NEW n \in 1..N, n - 1 \in T PROVE n \in T
  <2>1. Handed(lanes[n], Met(n - 1) \cup ({owner[nodes[n].id]} \ {None}))
    <3> HIDE DEF Met
    <3> QED BY <1>1, <1>3, HandedOneMore
  <2>2. Met(n) = Met(n - 1) \cup ({owner[nodes[n].id]} \ {None})
    <3>1. 1..n = 1..(n - 1) \cup {n}
      BY DEF Rows
    <3> QED BY <3>1
  <2>3. n \in 0..N
    BY DEF Rows
  <2> HIDE DEF Met
  <2> QED BY <2>1, <2>2, <2>3
<1>4. Handed(lanes[N], Met(N))
  <2> HIDE DEF T
  <2>1. N \in Nat
    BY DEF Rows
  <2>2. \A n \in 0..N : n \in T
    BY <1>2, <1>3, <2>1, UpTo
  <2>3. N \in T
    BY <2>1, <2>2
  <2> QED BY <2>3 DEF T
<1> QED BY <1>1, <1>4 DEF Rows

(***************************************************************************)
(* One branch, one lane, whatever branch each row has.                     *)
(***************************************************************************)
LEMMA OneLaneEach ==
  ASSUME NEW nodes, Rows(nodes)
  PROVE  LET layout == computeLayout(nodes)
             owner == CommitBranch(nodes)
             lane(i) == layout.commits[i].lane
             group(i) == IF owner[nodes[i].id] \in Trunk \cup {None} THEN None
                         ELSE owner[nodes[i].id]
         IN  \A i, j \in DOMAIN nodes :
               /\ lane(i) = lane(j) <=> group(i) = group(j)
               /\ lane(i) = 0 <=> group(i) = None
               /\ lane(i) < layout.numLanes
<1> DEFINE owner == CommitBranch(nodes)
           lanes == Lanes(nodes, owner)
           branch(i) == owner[nodes[i].id]
           lane(i) == IF branch(i) = None THEN 0 ELSE lanes.of[branch(i)]
<1>1. /\ \A i \in DOMAIN nodes : computeLayout(nodes).commits[i].lane = lane(i)
      /\ computeLayout(nodes).numLanes = lanes.next
  BY DEF computeLayout
<1>2. Handed(lanes, {branch(i) : i \in DOMAIN nodes} \ {None})
  BY AllHanded
<1> HIDE DEF owner, lanes
<1>3. \A i, j \in DOMAIN nodes :
        /\ lane(i) = 0 <=> branch(i) \in Trunk \cup {None}
        /\ lane(i) < lanes.next
        /\ lane(i) = lane(j) => \/ branch(i) = branch(j)
                                \/ branch(i) \in Trunk \cup {None}
        /\ branch(i) = branch(j) => lane(i) = lane(j)
  BY <1>2 DEF Handed
<1> QED BY <1>1, <1>3 DEF owner

-----------------------------------------------------------------------------
(* The layout: CommitBranch.                                               *)

(***************************************************************************)
(* The first of some rows.                                                 *)
(***************************************************************************)
LEMMA FirstRow ==
  ASSUME NEW S \in SUBSET Nat, S # {}
  PROVE  Min(S) \in S /\ \A x \in S : Min(S) <= x
<1>1. \E m \in S : \A x \in S : m <= x
  BY LeastNumber
<1> QED BY <1>1 DEF Min

(***************************************************************************)
(* The owners are those of the recursion over the rows, which begins with  *)
(* the labels.                                                             *)
(***************************************************************************)
Labelled(nodes) ==
  [id \in IdsOf(nodes) |-> (CHOOSE n \in Range(nodes) : n.id = id).branch]

(***************************************************************************)
(* CommitBranch is reached row by row from the labels.                     *)
(***************************************************************************)
LEMMA OwnersByRow ==
  ASSUME NEW nodes, Len(nodes) \in Nat
  PROVE  \E owner :
           /\ CommitBranch(nodes) = owner[Len(nodes)]
           /\ owner[0] = Labelled(nodes)
           /\ \A row \in 1..Len(nodes) :
                owner[row] = Inherit(nodes, owner[row - 1], nodes[row])
<1> DEFINE N == Len(nodes)
           Def(f, n) == f = [row \in 0..n |-> IF row = 0 THEN Labelled(nodes)
                               ELSE Inherit(nodes, f[row - 1], nodes[row])]
           T == {n \in 0..N : \E f : Def(f, n)}
<1>1. 0 \in T
  <2>1. Def([row \in 0..0 |-> Labelled(nodes)], 0)
    OBVIOUS
  <2> HIDE DEF Def
  <2> QED BY <2>1
<1>2. ASSUME NEW n \in 1..N, n - 1 \in T PROVE n \in T
  <2>1. PICK f : Def(f, n - 1)
    BY <1>2
  <2> DEFINE g == [row \in 0..n |-> IF row = 0 THEN Labelled(nodes)
                                    ELSE Inherit(nodes, f[row - 1], nodes[row])]
  <2>2. \A row \in 0..(n - 1) : g[row] = f[row]
    BY <2>1
  <2>3. Def(g, n)
    BY <2>2
  <2> HIDE DEF Def, g
  <2> QED BY <2>3
<1>3. N \in T
  <2> HIDE DEF T
  <2>1. \A n \in 0..N : n \in T
    BY <1>1, <1>2, UpTo
  <2> QED BY <2>1
<1>4. PICK f : Def(f, N)
  BY <1>3
<1> DEFINE owner == CHOOSE g : Def(g, N)
<1>5. Def(owner, N)
  BY <1>4
<1>6. CommitBranch(nodes) = owner[N]
  BY DEF CommitBranch, Labelled
<1> HIDE DEF owner
<1> QED BY <1>5, <1>6

(***************************************************************************)
(* The commits above one are those of the recursion.                       *)
(***************************************************************************)
Alone(id) == {id}

(***************************************************************************)
(* Above is reached in steps to the children, beginning with the node      *)
(* alone.                                                                  *)
(***************************************************************************)
LEMMA AboveBySteps ==
  ASSUME NEW nodes, Len(nodes) \in Nat, NEW id
  PROVE  \E up :
           /\ Above(nodes, id) = up[Len(nodes)]
           /\ up[0] = Alone(id)
           /\ \A n \in 1..Len(nodes) : up[n] = WithChildren(nodes, up[n - 1])
<1> DEFINE N == Len(nodes)
           Def(f, n) == f = [k \in 0..n |-> IF k = 0 THEN Alone(id)
                               ELSE WithChildren(nodes, f[k - 1])]
           T == {n \in 0..N : \E f : Def(f, n)}
<1>1. 0 \in T
  <2>1. Def([k \in 0..0 |-> Alone(id)], 0)
    OBVIOUS
  <2> HIDE DEF Def
  <2> QED BY <2>1
<1>2. ASSUME NEW n \in 1..N, n - 1 \in T PROVE n \in T
  <2>1. PICK f : Def(f, n - 1)
    BY <1>2
  <2> DEFINE g == [k \in 0..n |-> IF k = 0 THEN Alone(id)
                                  ELSE WithChildren(nodes, f[k - 1])]
  <2>2. \A k \in 0..(n - 1) : g[k] = f[k]
    BY <2>1
  <2>3. \A k \in 0..n : k # 0 => WithChildren(nodes, f[k - 1]) = WithChildren(nodes, g[k - 1])
    <3> HIDE DEF g
    <3> QED BY <2>2
  <2>4. Def(g, n)
    BY <2>3
  <2> HIDE DEF Def, g
  <2> QED BY <2>4
<1>3. N \in T
  <2> HIDE DEF T
  <2>1. \A n \in 0..N : n \in T
    BY <1>1, <1>2, UpTo
  <2> QED BY <2>1
<1>4. PICK f : Def(f, N)
  BY <1>3
<1> DEFINE up == CHOOSE g : Def(g, N)
<1>5. Def(up, N)
  BY <1>4
<1>6. Above(nodes, id) = up[N]
  BY DEF Above, Alone
<1> HIDE DEF up
<1> QED BY <1>5, <1>6

(***************************************************************************)
(* Children are only added, and more nodes have more children.             *)
(***************************************************************************)
LEMMA ChildrenOfMore ==
  ASSUME NEW nodes, NEW S, NEW U, S \subseteq U
  PROVE  /\ S \subseteq WithChildren(nodes, S)
         /\ WithChildren(nodes, S) \subseteq WithChildren(nodes, U)
BY DEF WithChildren

(***************************************************************************)
(* What is added are the children, all of them.                            *)
(***************************************************************************)
LEMMA ChildAdded ==
  ASSUME NEW nodes, NEW S, NEW x
  PROVE  /\ x \in WithChildren(nodes, S) \ S =>
              \E i \in DOMAIN nodes : \E p \in S :
                x = nodes[i].id /\ p \in Range(nodes[i].parents)
         /\ \A i \in DOMAIN nodes, p \in S :
              p \in Range(nodes[i].parents) => nodes[i].id \in WithChildren(nodes, S)
<1>1. \A n : n \in Range(nodes) <=> \E i \in DOMAIN nodes : n = nodes[i]
  BY DEF Range
<1> QED BY <1>1 DEF WithChildren

(***************************************************************************)
(* The commits above one are the fewest with it and the children of each.  *)
(***************************************************************************)
LEMMA AboveLeast ==
  ASSUME NEW nodes, Len(nodes) \in Nat, NEW id,
         NEW S, id \in S, WithChildren(nodes, S) \subseteq S
  PROVE  Above(nodes, id) \subseteq S
<1> DEFINE N == Len(nodes)
<1>1. PICK up : /\ Above(nodes, id) = up[N]
                /\ up[0] = Alone(id)
                /\ \A n \in 1..N : up[n] = WithChildren(nodes, up[n - 1])
  BY AboveBySteps
<1> DEFINE T == {n \in 0..N : up[n] \subseteq S}
<1>2. 0 \in T
  BY <1>1 DEF Alone
<1>3. ASSUME NEW n \in 1..N, n - 1 \in T PROVE n \in T
  <2>1. up[n] \subseteq S
    BY <1>1, <1>3, ChildrenOfMore
  <2> QED BY <2>1
<1>4. \A n \in 0..N : n \in T
  <2> HIDE DEF T
  <2> QED BY <1>2, <1>3, UpTo
<1> QED BY <1>1, <1>4

(***************************************************************************)
(* If children come first there are as many steps as it takes: those that  *)
(* step n adds are n rows before the last.                                 *)
(***************************************************************************)
LEMMA AboveClosed ==
  ASSUME NEW nodes, Rows(nodes), NewerFirst(nodes), NEW r \in DOMAIN nodes,
         NEW id, id = nodes[r].id
  PROVE  /\ id \in Above(nodes, id)
         /\ WithChildren(nodes, Above(nodes, id)) \subseteq Above(nodes, id)
<1> DEFINE N == Len(nodes)
<1>1. PICK up : /\ Above(nodes, id) = up[N]
                /\ up[0] = Alone(id)
                /\ \A n \in 1..N : up[n] = WithChildren(nodes, up[n - 1])
  BY AboveBySteps DEF Rows
<1> DEFINE Early(x, n) == \E i \in DOMAIN nodes : x = nodes[i].id /\ i <= N - n
           T == {n \in 0..N : /\ id \in up[n]
                              /\ \A x \in up[n] :
                                   (n # 0 /\ x \in up[n - 1]) \/ Early(x, n)}
<1>2. N \in Nat /\ DOMAIN nodes = 1..N
  BY DEF Rows
<1>3. 0 \in T
  BY <1>1, <1>2 DEF Alone
<1>4. ASSUME NEW n \in 1..N, n - 1 \in T PROVE n \in T
  <2>1. up[n] = WithChildren(nodes, up[n - 1])
    BY <1>1
  <2>2. id \in up[n]
    BY <1>4, <2>1, ChildrenOfMore
  <2>3. ASSUME NEW x \in up[n], x \notin up[n - 1] PROVE Early(x, n)
    <3>1. PICK i \in DOMAIN nodes, p \in up[n - 1] :
            x = nodes[i].id /\ p \in Range(nodes[i].parents)
      BY <2>1, <2>3, ChildAdded
    <3>2. CASE n - 1 # 0 /\ p \in up[n - 2]
      <4>1. up[n - 1] = WithChildren(nodes, up[n - 2])
        <5>1. n - 1 \in 1..N /\ (n - 1) - 1 = n - 2
          BY <1>2, <3>2
        <5> QED BY <1>1, <5>1
      <4> QED BY <2>3, <3>1, <3>2, <4>1, ChildAdded
    <3>3. CASE Early(p, n - 1)
      <4>1. PICK j \in DOMAIN nodes : p = nodes[j].id /\ j <= N - (n - 1)
        BY <3>3
      <4>2. i < j
        BY <3>1, <4>1 DEF NewerFirst
      <4> QED BY <1>2, <3>1, <4>1, <4>2
    <3>4. (n - 1 # 0 /\ p \in up[(n - 1) - 1]) \/ Early(p, n - 1)
      BY <1>4
    <3>5. (n - 1) - 1 = n - 2
      BY <1>2
    <3> QED BY <3>2, <3>3, <3>4, <3>5
  <2> HIDE DEF Early
  <2> QED BY <1>2, <2>2, <2>3
<1>5. N \in T
  <2> HIDE DEF T
  <2>1. \A n \in 0..N : n \in T
    BY <1>2, <1>3, <1>4, UpTo
  <2> QED BY <1>2, <2>1
<1>6. N # 0 /\ up[N] \subseteq up[N - 1]
  <2>1. ASSUME NEW x \in up[N] PROVE ~ Early(x, N)
    BY <1>2
  <2> HIDE DEF Early
  <2> QED BY <1>2, <1>5, <2>1
<1>7. WithChildren(nodes, up[N]) \subseteq up[N]
  BY <1>1, <1>2, <1>6, ChildrenOfMore
<1> QED BY <1>1, <1>5, <1>7

(***************************************************************************)
(* Above a commit: itself, and what is above its children.                 *)
(***************************************************************************)
LEMMA AboveChildren ==
  ASSUME NEW nodes, Rows(nodes), NewerFirst(nodes), NEW r \in DOMAIN nodes
  PROVE  LET id == nodes[r].id
             up(i) == Above(nodes, nodes[i].id)
             kids == {i \in DOMAIN nodes : id \in Range(nodes[i].parents)}
         IN  /\ id \in up(r)
             /\ \A i \in kids : up(i) \subseteq up(r)
             /\ \A m \in up(r) : m = id \/ \E i \in kids : m \in up(i)
<1> DEFINE id == nodes[r].id
           up(i) == Above(nodes, nodes[i].id)
           kids == {i \in DOMAIN nodes : id \in Range(nodes[i].parents)}
           S == {id} \cup UNION {up(i) : i \in kids}
<1>1. \A i \in DOMAIN nodes :
        nodes[i].id \in up(i) /\ WithChildren(nodes, up(i)) \subseteq up(i)
  BY AboveClosed
<1>2. Len(nodes) \in Nat
  BY DEF Rows
<1>3. \A i \in kids : up(i) \subseteq up(r)
  <2> SUFFICES ASSUME NEW i \in kids PROVE up(i) \subseteq up(r)
    OBVIOUS
  <2>1. nodes[i].id \in up(r)
    <3>1. id \in up(r) /\ id \in Range(nodes[i].parents)
      BY <1>1
    <3>2. nodes[i].id \in WithChildren(nodes, up(r))
      <4> HIDE DEF up, id
      <4> QED BY <3>1, ChildAdded
    <3> QED BY <1>1, <3>2
  <2>2. WithChildren(nodes, up(r)) \subseteq up(r)
    BY <1>1
  <2> QED BY <1>2, <2>1, <2>2, AboveLeast
<1>4. WithChildren(nodes, S) \subseteq S
  <2>1. ASSUME NEW x \in WithChildren(nodes, S), x \notin S PROVE FALSE
    <3>1. PICK i \in DOMAIN nodes, p \in S :
            x = nodes[i].id /\ p \in Range(nodes[i].parents)
      <4> HIDE DEF S
      <4> QED BY <2>1, ChildAdded
    <3>2. CASE p = id
      <4>1. i \in kids /\ x \in up(i)
        BY <1>1, <3>1, <3>2
      <4> QED BY <2>1, <4>1
    <3>3. CASE \E k \in kids : p \in up(k)
      <4>1. PICK k \in kids : p \in up(k)
        BY <3>3
      <4>2. x \in up(k)
        <5> HIDE DEF up
        <5>1. x \in WithChildren(nodes, up(k))
          BY <3>1, <4>1, ChildAdded
        <5> QED BY <1>1, <5>1
      <4> QED BY <2>1, <4>1, <4>2
    <3> QED BY <3>1, <3>2, <3>3
  <2> QED BY <2>1
<1>5. up(r) \subseteq S
  <2>1. id \in S
    OBVIOUS
  <2> HIDE DEF S
  <2> QED BY <1>2, <1>4, <2>1, AboveLeast
<1> QED BY <1>1, <1>3, <1>5

(***************************************************************************)
(* The labels at and above a row, and a branch the row may be given.       *)
(***************************************************************************)
LabelsAbove(nodes, id) ==
  {n.branch : n \in {m \in Range(nodes) : m.id \in Above(nodes, id)}} \ {None}

Settled(nodes, i, branch) ==
  /\ IF LabelsAbove(nodes, nodes[i].id) = {} THEN branch = None
     ELSE branch \in LabelsAbove(nodes, nodes[i].id)
  /\ nodes[i].branch # None => branch = nodes[i].branch

(***************************************************************************)
(* Every row begins with its own label, since no commit has two rows.      *)
(***************************************************************************)
LEMMA LabelOfRow ==
  ASSUME NEW nodes, Rows(nodes)
  PROVE  /\ DOMAIN Labelled(nodes) = IdsOf(nodes)
         /\ \A i \in DOMAIN nodes : Labelled(nodes)[nodes[i].id] = nodes[i].branch
<1>1. ASSUME NEW i \in DOMAIN nodes
      PROVE  (CHOOSE n \in Range(nodes) : n.id = nodes[i].id) = nodes[i]
  <2>1. nodes[i] \in Range(nodes)
    BY DEF Range
  <2>2. \A n \in Range(nodes) : n.id = nodes[i].id => n = nodes[i]
    BY DEF Range, Rows
  <2> QED BY <2>1, <2>2
<1>2. \A i \in DOMAIN nodes : nodes[i].id \in IdsOf(nodes)
  BY DEF IdsOf
<1> QED BY <1>1, <1>2 DEF Labelled

(***************************************************************************)
(* In a newer-first log the children of a row are in rows above it, and    *)
(* the labels above a row are its own and those above its children.        *)
(***************************************************************************)
LEMMA LabelsOfChildren ==
  ASSUME NEW nodes, Rows(nodes), NewerFirst(nodes), NEW r \in DOMAIN nodes
  PROVE  LET kids == ChildrenOf(nodes, nodes[r].id)
             labels(i) == LabelsAbove(nodes, nodes[i].id)
         IN  /\ \A i \in kids : i < r /\ i \in DOMAIN nodes /\ labels(i) \subseteq labels(r)
             /\ nodes[r].branch # None => nodes[r].branch \in labels(r)
             /\ nodes[r].branch = None => \A b \in labels(r) : \E i \in kids : b \in labels(i)
<1> DEFINE kids == {i \in DOMAIN nodes : nodes[r].id \in Range(nodes[i].parents)}
           up(i) == Above(nodes, nodes[i].id)
           labels(i) == LabelsAbove(nodes, nodes[i].id)
<1>1. /\ nodes[r].id \in up(r)
      /\ \A i \in kids : up(i) \subseteq up(r)
      /\ \A m \in up(r) : m = nodes[r].id \/ \E i \in kids : m \in up(i)
  BY AboveChildren
<1>2. \A i \in DOMAIN nodes : \A b : b \in labels(i) <=>
        b # None /\ \E j \in DOMAIN nodes : b = nodes[j].branch /\ nodes[j].id \in up(i)
  BY DEF LabelsAbove, Range
<1>3. \A i \in kids : i \in DOMAIN nodes /\ i < r
  BY DEF NewerFirst
<1>4. \A j \in DOMAIN nodes : nodes[j].id = nodes[r].id => j = r
  BY DEF Rows
<1>5. kids = ChildrenOf(nodes, nodes[r].id)
  BY DEF ChildrenOf
<1> HIDE DEF kids, up, labels
<1>6. \A i \in kids : labels(i) \subseteq labels(r)
  BY <1>1, <1>2, <1>3
<1>7. nodes[r].branch # None => nodes[r].branch \in labels(r)
  BY <1>1, <1>2
<1>8. ASSUME nodes[r].branch = None, NEW b \in labels(r)
      PROVE  \E i \in kids : b \in labels(i)
  <2>1. PICK j \in DOMAIN nodes : b # None /\ b = nodes[j].branch /\ nodes[j].id \in up(r)
    BY <1>2, <1>8
  <2>2. nodes[j].id # nodes[r].id
    BY <1>4, <1>8, <2>1
  <2> QED BY <1>1, <1>2, <1>3, <2>1, <2>2
<1> QED BY <1>3, <1>5, <1>6, <1>7, <1>8 DEF labels

(***************************************************************************)
(* When the rows above are settled, going through one row settles it.      *)
(***************************************************************************)
LEMMA InheritOne ==
  ASSUME NEW nodes, Rows(nodes), NewerFirst(nodes), NEW r \in DOMAIN nodes,
         NEW owner, DOMAIN owner = IdsOf(nodes),
         \A i \in DOMAIN nodes : i < r => Settled(nodes, i, owner[nodes[i].id]),
         owner[nodes[r].id] = nodes[r].branch
  PROVE  LET later == Inherit(nodes, owner, nodes[r])
         IN  /\ DOMAIN later = IdsOf(nodes)
             /\ \A i \in DOMAIN nodes \ {r} : later[nodes[i].id] = owner[nodes[i].id]
             /\ Settled(nodes, r, later[nodes[r].id])
<1> DEFINE all == ChildrenOf(nodes, nodes[r].id)
           kids == {i \in all : owner[nodes[i].id] # None}
           labels(i) == LabelsAbove(nodes, nodes[i].id)
           later == Inherit(nodes, owner, nodes[r])
<1>1. /\ \A i \in all : i < r /\ i \in DOMAIN nodes /\ labels(i) \subseteq labels(r)
      /\ nodes[r].branch # None => nodes[r].branch \in labels(r)
      /\ nodes[r].branch = None => \A b \in labels(r) : \E i \in all : b \in labels(i)
  BY LabelsOfChildren
<1>2. later = IF nodes[r].branch # None \/ kids = {} THEN owner
              ELSE [owner EXCEPT ![nodes[r].id] = owner[nodes[Min(kids)].id]]
  BY DEF Inherit
<1>3. nodes[r].id \in IdsOf(nodes) /\ \A i \in DOMAIN nodes \ {r} : nodes[i].id # nodes[r].id
  BY DEF IdsOf, Rows
<1>4. \A i \in all : IF labels(i) = {} THEN owner[nodes[i].id] = None
                     ELSE owner[nodes[i].id] \in labels(i)
  BY <1>1 DEF Settled
<1>5. \A i \in DOMAIN nodes : None \notin labels(i)
  BY DEF LabelsAbove
<1>6. DOMAIN later = IdsOf(nodes)
  <2> HIDE DEF kids, later
  <2> QED BY <1>2
<1>7. \A i \in DOMAIN nodes \ {r} : later[nodes[i].id] = owner[nodes[i].id]
  <2> HIDE DEF kids, later
  <2> QED BY <1>2, <1>3
<1>8. Settled(nodes, r, later[nodes[r].id])
  <2>1. CASE nodes[r].branch # None
    BY <1>1, <1>2, <2>1 DEF Settled
  <2>2. CASE nodes[r].branch = None /\ kids = {}
    <3>1. later[nodes[r].id] = None
      <4> HIDE DEF kids, later
      <4> QED BY <1>2, <2>2
    <3>2. \A i \in all : labels(i) = {}
      <4> HIDE DEF labels, all
      <4> QED BY <1>1, <1>4, <1>5, <2>2
    <3>3. labels(r) = {}
      <4> HIDE DEF labels, all
      <4> QED BY <1>1, <2>2, <3>2
    <3> QED BY <2>2, <3>1, <3>3 DEF Settled
  <2>3. CASE nodes[r].branch = None /\ kids # {}
    <3>1. kids \in SUBSET Nat
      <4> HIDE DEF all
      <4> QED BY <1>1 DEF Rows
    <3>2. Min(kids) \in kids
      <4> HIDE DEF kids
      <4> QED BY <2>3, <3>1, FirstRow
    <3>3. later[nodes[r].id] = owner[nodes[Min(kids)].id]
      <4> HIDE DEF kids, later
      <4> QED BY <1>2, <1>3, <2>3
    <3>4. \A i \in kids : owner[nodes[i].id] \in labels(r)
      <4> HIDE DEF labels, all
      <4> QED BY <1>1, <1>4
    <3>5. later[nodes[r].id] \in labels(r)
      <4> HIDE DEF labels, kids, later
      <4> QED BY <3>2, <3>3, <3>4
    <3> QED BY <2>3, <3>5 DEF Settled
  <2> QED BY <2>1, <2>2, <2>3
<1> QED BY <1>6, <1>7, <1>8

(***************************************************************************)
(* A commit has its own label, or that of a commit above it if one has.    *)
(***************************************************************************)
LEMMA OwnBranch ==
  ASSUME NEW nodes, Rows(nodes), NewerFirst(nodes)
  PROVE  \A i \in DOMAIN nodes : Settled(nodes, i, CommitBranch(nodes)[nodes[i].id])
<1> DEFINE N == Len(nodes)
<1>1. N \in Nat /\ DOMAIN nodes = 1..N
  BY DEF Rows
<1>2. PICK owner : /\ CommitBranch(nodes) = owner[N]
                   /\ owner[0] = Labelled(nodes)
                   /\ \A row \in 1..N : owner[row] = Inherit(nodes, owner[row - 1], nodes[row])
  BY <1>1, OwnersByRow
<1> DEFINE Good(k) ==
             /\ DOMAIN owner[k] = IdsOf(nodes)
             /\ \A i \in DOMAIN nodes :
                  /\ i <= k => Settled(nodes, i, owner[k][nodes[i].id])
                  /\ k < i => owner[k][nodes[i].id] = nodes[i].branch
           T == {k \in 0..N : Good(k)}
<1>3. 0 \in T
  BY <1>1, <1>2, LabelOfRow
<1>4. ASSUME NEW k \in 1..N, k - 1 \in T PROVE k \in T
  <2>1. Good(k - 1)
    BY <1>4
  <2>2. k \in DOMAIN nodes /\ owner[k] = Inherit(nodes, owner[k - 1], nodes[k])
    BY <1>1, <1>2
  <2>3. /\ DOMAIN owner[k - 1] = IdsOf(nodes)
        /\ \A i \in DOMAIN nodes : i < k => Settled(nodes, i, owner[k - 1][nodes[i].id])
        /\ owner[k - 1][nodes[k].id] = nodes[k].branch
    BY <1>1, <2>1, <2>2
  <2>4. /\ DOMAIN owner[k] = IdsOf(nodes)
        /\ \A i \in DOMAIN nodes \ {k} : owner[k][nodes[i].id] = owner[k - 1][nodes[i].id]
        /\ Settled(nodes, k, owner[k][nodes[k].id])
    BY <2>2, <2>3, InheritOne
  <2>5. Good(k)
    BY <1>1, <2>1, <2>2, <2>4
  <2> QED BY <1>1, <2>5
<1>5. \A k \in 0..N : k \in T
  <2> HIDE DEF T
  <2> QED BY <1>1, <1>3, <1>4, UpTo
<1>6. Good(N)
  BY <1>1, <1>5
<1> QED BY <1>1, <1>2, <1>6

-----------------------------------------------------------------------------
(* The parser.                                                             *)

(***************************************************************************)
(* A sequence of sequences flattened: off[i] elements before part i + 1.   *)
(***************************************************************************)
Join(a, b) == a \o b

(***************************************************************************)
(* FlattenSeq puts one part after the other.                               *)
(***************************************************************************)
LEMMA FlattenByPart ==
  ASSUME NEW seqs, Len(seqs) \in Nat \ {0}
  PROVE  \E flat : /\ FlattenSeq(seqs) = flat[Len(seqs)]
                   /\ flat[1] = seqs[1]
                   /\ \A i \in 2..Len(seqs) : flat[i] = flat[i - 1] \o seqs[i]
<1> DEFINE N == Len(seqs)
           Def(f, n) == f = [i \in 1..n |-> IF i = 1 THEN seqs[i] ELSE Join(f[i - 1], seqs[i])]
           T == {n \in 0..N : \E f : Def(f, n)}
<1>1. 0 \in T
  <2>1. Def([i \in 1..0 |-> IF i = 1 THEN seqs[i] ELSE <<>>], 0)
    OBVIOUS
  <2> HIDE DEF Def
  <2> QED BY <2>1
<1>2. ASSUME NEW n \in 1..N, n - 1 \in T PROVE n \in T
  <2>1. PICK f : Def(f, n - 1)
    BY <1>2
  <2> DEFINE g == [i \in 1..n |-> IF i = 1 THEN seqs[i] ELSE Join(f[i - 1], seqs[i])]
  <2>2. \A i \in 1..(n - 1) : g[i] = f[i]
    BY <2>1
  <2>3. \A i \in 1..n : i # 1 => Join(f[i - 1], seqs[i]) = Join(g[i - 1], seqs[i])
    <3> HIDE DEF g
    <3> QED BY <2>2
  <2>4. Def(g, n)
    BY <2>3
  <2> HIDE DEF Def, g
  <2> QED BY <2>4
<1>3. N \in T
  <2> HIDE DEF T
  <2>1. \A n \in 0..N : n \in T
    BY <1>1, <1>2, UpTo
  <2> QED BY <2>1
<1>4. PICK f : Def(f, N)
  BY <1>3
<1> DEFINE flat == CHOOSE g : Def(g, N)
<1>5. Def(flat, N)
  BY <1>4
<1>6. FlattenSeq(seqs) = flat[N]
  BY DEF FlattenSeq, Join
<1> HIDE DEF flat
<1>7. flat[1] = seqs[1] /\ \A i \in 2..N : flat[i] = Join(flat[i - 1], seqs[i])
  BY <1>5
<1> QED BY <1>6, <1>7 DEF Join

(***************************************************************************)
(* What a concatenation has at its places.                                 *)
(***************************************************************************)
LEMMA Joined ==
  ASSUME NEW S, NEW a \in Seq(S), NEW b \in Seq(S)
  PROVE  /\ a \o b \in Seq(S)
         /\ Len(a) \in Nat /\ Len(b) \in Nat
         /\ Len(a \o b) = Len(a) + Len(b)
         /\ \A k \in 1..Len(a) : (a \o b)[k] = a[k]
         /\ \A k \in 1..Len(b) : (a \o b)[Len(a) + k] = b[k]
<1>1. Len(a) \in Nat /\ Len(b) \in Nat
  BY LenProperties
<1>2. /\ a \o b \in Seq(S)
      /\ Len(a \o b) = Len(a) + Len(b)
      /\ \A i \in 1..(Len(a) + Len(b)) :
           (a \o b)[i] = IF i <= Len(a) THEN a[i] ELSE b[i - Len(a)]
  BY ConcatProperties
<1> HIDE <1>1
<1> QED BY <1>1, <1>2

Offsets(seqs, N, flat, off) ==
  /\ off \in [0..N -> Nat]
  /\ off[0] = 0
  /\ Len(flat) = off[N]
  /\ \A i \in 1..N :
       /\ off[i] = off[i - 1] + Len(seqs[i])
       /\ \A k \in 1..Len(seqs[i]) :
            /\ off[i - 1] + k <= off[N]
            /\ flat[off[i - 1] + k] = seqs[i][k]

(***************************************************************************)
(* Every part of a flattened sequence is there as a whole, at its offset.  *)
(***************************************************************************)
LEMMA Flattened ==
  ASSUME NEW S, NEW N \in Nat, NEW seqs \in [1..N -> Seq(S)]
  PROVE  /\ FlattenSeq(seqs) \in Seq(S)
         /\ \E off : Offsets(seqs, N, FlattenSeq(seqs), off)
<1>1. Len(seqs) = N
  BY LenProperties, SeqDef
<1>2. CASE N = 0
  <2>1. FlattenSeq(seqs) = <<>>
    BY <1>1, <1>2 DEF FlattenSeq
  <2> DEFINE none == [i \in 0..N |-> 0]
  <2>2. none \in [0..N -> Nat] /\ none[0] = 0 /\ none[N] = 0
    OBVIOUS
  <2>3. Len(FlattenSeq(seqs)) = 0 /\ FlattenSeq(seqs) \in Seq(S)
    BY <2>1
  <2> HIDE DEF none
  <2> QED BY <1>2, <2>2, <2>3 DEF Offsets
<1>3. CASE N # 0
  <2>1. PICK flat : /\ FlattenSeq(seqs) = flat[N]
                    /\ flat[1] = seqs[1]
                    /\ \A i \in 2..N : flat[i] = flat[i - 1] \o seqs[i]
    BY <1>1, <1>3, FlattenByPart
  <2> DEFINE off == [i \in 0..N |-> IF i = 0 THEN 0 ELSE Len(flat[i])]
             Placed(n) ==
               /\ flat[n] \in Seq(S)
               /\ \A i \in 1..n :
                    /\ Len(flat[i]) \in Nat
                    /\ off[i] = off[i - 1] + Len(seqs[i])
                    /\ \A k \in 1..Len(seqs[i]) :
                         /\ off[i - 1] + k <= Len(flat[n])
                         /\ flat[n][off[i - 1] + k] = seqs[i][k]
             T == {n \in 0..N : n = 0 \/ Placed(n)}
  <2>2. 0 \in T
    OBVIOUS
  <2>3. ASSUME NEW n \in 1..N, n - 1 \in T PROVE n \in T
    <3>1. CASE n = 1
      <4>1. flat[1] = seqs[1] /\ flat[1] \in Seq(S) /\ Len(flat[1]) \in Nat
        BY <1>3, <2>1, LenProperties
      <4>2. off[0] = 0 /\ off[1] = Len(flat[1])
        BY <1>3
      <4> HIDE DEF off
      <4>3. Placed(1)
        BY <4>1, <4>2
      <4> QED BY <3>1, <4>3
    <3>2. CASE n # 1
      <4>1. Placed(n - 1) /\ n - 1 \in 1..N
        <5> HIDE DEF Placed
        <5> QED BY <2>3, <3>2
      <4>2. flat[n] = flat[n - 1] \o seqs[n]
        <5> n \in 2..N
          BY <3>2
        <5> HIDE DEF Placed
        <5> QED BY <2>1
      <4>3. /\ flat[n] \in Seq(S)
            /\ Len(flat[n - 1]) \in Nat /\ Len(seqs[n]) \in Nat
            /\ Len(flat[n]) = Len(flat[n - 1]) + Len(seqs[n])
            /\ \A k \in 1..Len(flat[n - 1]) : flat[n][k] = flat[n - 1][k]
            /\ \A k \in 1..Len(seqs[n]) : flat[n][Len(flat[n - 1]) + k] = seqs[n][k]
        BY <4>1, <4>2, Joined
      <4>4. off[n - 1] = Len(flat[n - 1]) /\ off[n] = Len(flat[n])
        BY <4>1
      <4>5. \A i \in 1..n : off[i - 1] \in Nat /\ Len(seqs[i]) \in Nat
        BY <4>1, LenProperties
      <4>6. \A i \in 1..n : i = n \/ i \in 1..(n - 1)
        OBVIOUS
      <4> HIDE DEF off
      <4>7. ASSUME NEW i \in 1..n
            PROVE  /\ Len(flat[i]) \in Nat
                   /\ off[i] = off[i - 1] + Len(seqs[i])
                   /\ \A k \in 1..Len(seqs[i]) :
                        /\ off[i - 1] + k <= Len(flat[n])
                        /\ flat[n][off[i - 1] + k] = seqs[i][k]
        <5>1. CASE i = n
          BY <4>3, <4>4, <5>1, SMTT(20)
        <5>2. CASE i \in 1..(n - 1)
          <6>1. ASSUME NEW k \in 1..Len(seqs[i])
                PROVE  /\ off[i - 1] + k <= Len(flat[n])
                       /\ flat[n][off[i - 1] + k] = seqs[i][k]
            <7>1. /\ off[i - 1] + k <= Len(flat[n - 1])
                  /\ flat[n - 1][off[i - 1] + k] = seqs[i][k]
              BY <4>1, <5>2
            <7>2. off[i - 1] + k \in 1..Len(flat[n - 1])
              <8> DEFINE o == off[i - 1]
                         L == Len(flat[n - 1])
              <8>1. o \in Nat /\ Len(seqs[i]) \in Nat
                BY <4>5
              <8>2. L \in Nat /\ o + k <= L
                BY <4>3, <7>1
              <8> HIDE DEF o, L
              <8>3. o + k \in 1..L
                BY <6>1, <8>1, <8>2
              <8> QED BY <8>3 DEF o, L
            <7>3. flat[n][off[i - 1] + k] = flat[n - 1][off[i - 1] + k]
              BY <4>3, <7>2
            <7>4. off[i - 1] + k <= Len(flat[n])
              <8> DEFINE p == off[i - 1] + k
              <8>1. p \in 1..Len(flat[n - 1])
                BY <7>2
              <8> HIDE DEF p
              <8>2. p <= Len(flat[n])
                BY <4>3, <8>1
              <8> QED BY <8>2 DEF p
            <7> QED BY <7>1, <7>3, <7>4
          <6> QED BY <4>1, <5>2, <6>1
        <5> QED BY <4>6, <5>1, <5>2
      <4> QED BY <4>3, <4>7
    <3> QED BY <3>1, <3>2
  <2>4. Placed(N)
    <3>1. \A n \in 0..N : n \in T
      <4> HIDE DEF T
      <4> QED BY <2>2, <2>3, UpTo
    <3> HIDE DEF Placed
    <3> QED BY <1>3, <3>1
  <2>5. off \in [0..N -> Nat] /\ off[0] = 0 /\ off[N] = Len(flat[N])
    BY <1>3, <2>4
  <2>6. /\ flat[N] \in Seq(S)
        /\ \A i \in 1..N :
             /\ off[i] = off[i - 1] + Len(seqs[i])
             /\ \A k \in 1..Len(seqs[i]) :
                  /\ off[i - 1] + k <= Len(flat[N])
                  /\ flat[N][off[i - 1] + k] = seqs[i][k]
    BY <2>4
  <2> HIDE DEF off
  <2>7. Offsets(seqs, N, flat[N], off)
    BY <2>5, <2>6 DEF Offsets
  <2> QED BY <2>1, <2>6, <2>7
<1> QED BY <1>2, <1>3

(***************************************************************************)
(* parse_graph adds one line after the other.                              *)
(***************************************************************************)
LEMMA GraphByLine ==
  ASSUME NEW lines, Len(lines) \in Nat
  PROVE  \E graph :
           /\ parse_graph(lines) = graph[Len(lines)]
           /\ graph[0] = EmptyGraph
           /\ \A n \in 1..Len(lines) : graph[n] = AddLine(graph[n - 1], lines[n])
<1> DEFINE N == Len(lines)
           Def(f, n) == f = [k \in 0..n |-> IF k = 0 THEN EmptyGraph
                               ELSE AddLine(f[k - 1], lines[k])]
           T == {n \in 0..N : \E f : Def(f, n)}
<1>1. 0 \in T
  <2>1. Def([k \in 0..0 |-> EmptyGraph], 0)
    OBVIOUS
  <2> HIDE DEF Def
  <2> QED BY <2>1
<1>2. ASSUME NEW n \in 1..N, n - 1 \in T PROVE n \in T
  <2>1. PICK f : Def(f, n - 1)
    BY <1>2
  <2> DEFINE g == [k \in 0..n |-> IF k = 0 THEN EmptyGraph
                                  ELSE AddLine(f[k - 1], lines[k])]
  <2>2. \A k \in 0..(n - 1) : g[k] = f[k]
    BY <2>1
  <2>3. \A k \in 0..n : k # 0 => AddLine(f[k - 1], lines[k]) = AddLine(g[k - 1], lines[k])
    <3> HIDE DEF g
    <3> QED BY <2>2
  <2>4. Def(g, n)
    BY <2>3
  <2> HIDE DEF Def, g
  <2> QED BY <2>4
<1>3. N \in T
  <2> HIDE DEF T
  <2>1. \A n \in 0..N : n \in T
    BY <1>1, <1>2, UpTo
  <2> QED BY <2>1
<1>4. PICK f : Def(f, N)
  BY <1>3
<1> DEFINE graph == CHOOSE g : Def(g, N)
<1>5. Def(graph, N)
  BY <1>4
<1>6. parse_graph(lines) = graph[N]
  BY DEF parse_graph
<1> HIDE DEF graph
<1> QED BY <1>5, <1>6

(***************************************************************************)
(* A line of its own row: the commit it is of has none yet.                *)
(***************************************************************************)
LEMMA RowAdded ==
  ASSUME NEW S, NEW graph, graph.nodes \in Seq(S), Rows(graph.nodes),
         NEW line, Node(line) \in S
  PROVE  /\ AddLine(graph, line).nodes \in Seq(S)
         /\ Rows(AddLine(graph, line).nodes)
<1> DEFINE nodes == graph.nodes
           later == Append(nodes, Node(line))
<1>1. CASE Len(line) < 4 \/ \E i \in DOMAIN nodes : nodes[i].id = line[1]
  BY <1>1 DEF AddLine
<1>2. CASE ~ (Len(line) < 4 \/ \E i \in DOMAIN nodes : nodes[i].id = line[1])
  <2>1. AddLine(graph, line).nodes = later
    BY <1>2 DEF AddLine
  <2>2. /\ later \in Seq(S)
        /\ Len(nodes) \in Nat /\ Len(later) = Len(nodes) + 1
        /\ DOMAIN nodes = 1..Len(nodes) /\ DOMAIN later = 1..(Len(nodes) + 1)
        /\ \A i \in 1..Len(nodes) : later[i] = nodes[i]
        /\ later[Len(nodes) + 1] = Node(line)
    BY AppendProperties, LenProperties
  <2>3. Node(line).id = line[1]
    BY DEF Node
  <2> HIDE DEF later
  <2>4. \A i \in 1..Len(nodes) : later[i].id # later[Len(nodes) + 1].id
    BY <1>2, <2>2, <2>3
  <2>5. ASSUME NEW i \in DOMAIN later, NEW j \in DOMAIN later, later[i].id = later[j].id
        PROVE  i = j
    <3>1. \A k \in DOMAIN later : k = Len(nodes) + 1 \/ k \in DOMAIN nodes
      BY <2>2
    <3>2. CASE i \in DOMAIN nodes /\ j \in DOMAIN nodes
      BY <2>2, <2>5, <3>2 DEF Rows
    <3>3. CASE ~ (i \in DOMAIN nodes /\ j \in DOMAIN nodes)
      BY <2>2, <2>4, <2>5, <3>1, <3>3
    <3> QED BY <3>2, <3>3
  <2>6. Rows(later)
    BY <2>2, <2>5 DEF Rows
  <2> QED BY <2>1, <2>2, <2>6
<1> QED BY <1>1, <1>2

(***************************************************************************)
(* Whatever the lines are, no two rows of a parsed graph have the same     *)
(* commit.                                                                 *)
(***************************************************************************)
LEMMA ParsedRows ==
  ASSUME NEW lines, Len(lines) \in Nat
  PROVE  Rows(parse_graph(lines).nodes)
<1> DEFINE N == Len(lines)
           S == {Node(lines[i]) : i \in 1..N}
<1>1. PICK graph : /\ parse_graph(lines) = graph[N]
                   /\ graph[0] = EmptyGraph
                   /\ \A n \in 1..N : graph[n] = AddLine(graph[n - 1], lines[n])
  BY GraphByLine
<1> DEFINE T == {n \in 0..N : graph[n].nodes \in Seq(S) /\ Rows(graph[n].nodes)}
<1>2. 0 \in T
  <2> HIDE DEF S
  <2>1. <<>> \in Seq(S) /\ Len(<<>>) = 0 /\ DOMAIN <<>> = 1..0
    BY EmptySeq
  <2>2. Rows(<<>>)
    BY <2>1 DEF Rows
  <2>3. graph[0].nodes = <<>>
    BY <1>1 DEF EmptyGraph
  <2>4. 0 \in 0..N
    OBVIOUS
  <2> QED BY <2>1, <2>2, <2>3, <2>4
<1>3. ASSUME NEW n \in 1..N, n - 1 \in T PROVE n \in T
  <2>1. Node(lines[n]) \in S
    OBVIOUS
  <2> HIDE DEF S
  <2>2. graph[n].nodes \in Seq(S) /\ Rows(graph[n].nodes)
    BY <1>1, <1>3, <2>1, RowAdded
  <2> QED BY <2>2
<1>4. N \in T
  <2> HIDE DEF T
  <2>1. \A n \in 0..N : n \in T
    BY <1>2, <1>3, UpTo
  <2> QED BY <2>1
<1> QED BY <1>1, <1>4

-----------------------------------------------------------------------------
(* Numbers counted: how many of a finite set come before one of them.      *)

Below(S, k) == Cardinality({x \in S : x < k})

(***************************************************************************)
(* A smaller number has fewer members below it.                            *)
(***************************************************************************)
LEMMA FewerBelow ==
  ASSUME NEW S \in SUBSET Nat, IsFiniteSet(S)
  PROVE  /\ Cardinality(S) \in Nat
         /\ \A k : Below(S, k) \in Nat
         /\ \A s \in S : Below(S, s) < Cardinality(S)
         /\ \A s, t \in S : s < t => Below(S, s) < Below(S, t)
<1> DEFINE B(k) == {x \in S : x < k}
<1>1. Cardinality(S) \in Nat
  BY FS_CardinalityType
<1>2. \A k : IsFiniteSet(B(k)) /\ Cardinality(B(k)) \in Nat
  <2> TAKE k
  <2>1. B(k) \in SUBSET S
    OBVIOUS
  <2> HIDE DEF B
  <2> QED BY <2>1, FS_Subset, FS_CardinalityType
<1>3. ASSUME NEW T \in SUBSET S, IsFiniteSet(T), NEW s \in S, s \in T, B(s) \subseteq T
      PROVE  Cardinality(B(s)) < Cardinality(T)
  <2>1. s \notin B(s) /\ B(s) \cup {s} \in SUBSET T
    BY <1>3
  <2> HIDE DEF B
  <2>2. Cardinality(B(s) \cup {s}) = Cardinality(B(s)) + 1
    BY <1>2, <2>1, FS_AddElement
  <2>3. Cardinality(B(s) \cup {s}) <= Cardinality(T)
    BY <1>3, <2>1, FS_Subset
  <2>4. Cardinality(B(s)) \in Nat /\ Cardinality(T) \in Nat
    BY <1>2, <1>3, FS_CardinalityType
  <2> QED BY <2>2, <2>3, <2>4
<1>4. \A s \in S : Cardinality(B(s)) < Cardinality(S)
  <2> TAKE s \in S
  <2>1. B(s) \subseteq S
    OBVIOUS
  <2> HIDE DEF B
  <2> QED BY <1>3, <2>1
<1>5. ASSUME NEW s \in S, NEW t \in S, s < t
      PROVE  Cardinality(B(s)) < Cardinality(B(t))
  <2>1. B(t) \in SUBSET S /\ s \in B(t)
    BY <1>5
  <2>2. \A x \in S : x < s => x < t
    BY <1>5
  <2>3. B(s) \subseteq B(t)
    BY <2>2
  <2> HIDE DEF B
  <2> QED BY <1>2, <1>3, <2>1, <2>3
<1> QED BY <1>1, <1>2, <1>4, <1>5 DEF Below

(***************************************************************************)
(* Members of a finite set of numbers have all numbers of members below    *)
(* them, from 0 on.                                                        *)
(***************************************************************************)
LEMMA EveryPlace ==
  ASSUME NEW S \in SUBSET Nat, IsFiniteSet(S)
  PROVE  {Below(S, s) : s \in S} = 0..(Cardinality(S) - 1)
<1> DEFINE n == Cardinality(S)
           T == 0..(n - 1)
           f == [s \in S |-> Below(S, s)]
<1>1. n \in Nat /\ IsFiniteSet(T) /\ Cardinality(T) = n
  <2>1. n \in Nat
    BY FewerBelow
  <2> HIDE DEF n
  <2> QED BY <2>1, FS_Interval
<1>2. \A s \in S : Below(S, s) \in T
  BY FewerBelow
<1>3. f \in [S -> T]
  BY <1>2
<1>4. \A s, t \in S : f[s] = f[t] => s = t
  <2> SUFFICES ASSUME NEW s \in S, NEW t \in S, s # t PROVE f[s] # f[t]
    OBVIOUS
  <2>1. s < t \/ t < s
    OBVIOUS
  <2> QED BY <2>1, FewerBelow
<1> HIDE DEF n, T, f
<1>5. f \in Injection(S, T)
  BY <1>3, <1>4, Zenon DEF Injection, IsInjective
<1>6. f \in Surjection(S, T)
  BY <1>1, <1>5, FS_Injection DEF n
<1>7. T \subseteq {f[s] : s \in S}
  BY <1>6 DEF Surjection
<1>8. {f[s] : s \in S} = {Below(S, s) : s \in S}
  BY DEF f
<1> QED BY <1>2, <1>7, <1>8 DEF T, n

(***************************************************************************)
(* The place of one of a set of positive numbers among them.               *)
(***************************************************************************)
Place(S, c) == Cardinality({d \in S : d <= c})

(***************************************************************************)
(* The new numbers of Tidy: 1 to the number of commits, in the old order.  *)
(***************************************************************************)
LEMMA Places ==
  ASSUME NEW S \in SUBSET (Nat \ {0}), IsFiniteSet(S)
  PROVE  /\ Cardinality(S) \in Nat
         /\ Place(S, 0) = 0
         /\ \A c \in S : Place(S, c) \in 1..Cardinality(S)
         /\ \A c, d \in S : c < d => Place(S, c) < Place(S, d)
         /\ \A n \in 1..Cardinality(S) : \E c \in S : Place(S, c) = n
<1>1. Place(S, 0) = 0
  <2>1. \A d \in S : ~ (d <= 0)
    OBVIOUS
  <2>2. {d \in S : d <= 0} = {}
    BY <2>1
  <2> QED BY <2>2, FS_EmptySet DEF Place
<1>2. S \in SUBSET Nat
  OBVIOUS
<1>3. ASSUME NEW c \in S PROVE Place(S, c) = Below(S, c) + 1
  <2> DEFINE B == {d \in S : d < c}
  <2> \A d \in S : d <= c <=> d < c \/ d = c
    OBVIOUS
  <2>1. c \notin B /\ B \in SUBSET S
    OBVIOUS
  <2>2. {d \in S : d <= c} = B \cup {c}
    OBVIOUS
  <2>3. {d \in S : d <= c} = B \cup {c} /\ c \notin B /\ B \in SUBSET S
    BY <2>1, <2>2
  <2> HIDE DEF B
  <2>4. IsFiniteSet(B)
    BY <2>3, FS_Subset
  <2>5. Cardinality(B \cup {c}) = Cardinality(B) + 1
    BY <2>3, <2>4, FS_AddElement
  <2> QED BY <2>3, <2>5 DEF B, Below, Place
<1>4. /\ Cardinality(S) \in Nat
      /\ \A c \in S : Below(S, c) \in Nat /\ Below(S, c) < Cardinality(S)
      /\ \A c, d \in S : c < d => Below(S, c) < Below(S, d)
  BY <1>2, FewerBelow
<1>5. ASSUME NEW n \in 1..Cardinality(S) PROVE \E c \in S : Place(S, c) = n
  <2>1. n - 1 \in 0..(Cardinality(S) - 1)
    BY <1>4
  <2>2. n - 1 \in {Below(S, s) : s \in S}
    BY <1>2, <2>1, EveryPlace
  <2>3. PICK c \in S : n - 1 = Below(S, c)
    BY <2>2
  <2> QED BY <1>3, <2>3
<1> QED BY <1>1, <1>3, <1>4, <1>5

-----------------------------------------------------------------------------
(* Repositories.                                                           *)

(***************************************************************************)
(* What a repository can be: commits after their parents, refs to commits  *)
(* that are there, branches with a name.                                   *)
(***************************************************************************)
Names == Branches \cup {Main}

Repositories ==
  [commits : Seq([parents : Seq(Nat), at : Nat]),
   heads : UNION {[D -> Nat] : D \in FiniteSubsetsOf(Names)},
   tags : UNION {[D -> Nat] : D \in FiniteSubsetsOf(Tags)},
   stash : Nat, on : Names \cup {None}, at : Nat]

Sound(r) ==
  /\ r \in Repositories
  /\ \A c \in Ids(r) : \A p \in Range(r.commits[c].parents) : p \in 1..(c - 1)
  /\ \A b \in DOMAIN r.heads : r.heads[b] \in Ids(r)
  /\ \A t \in DOMAIN r.tags : r.tags[t] \in Ids(r)
  /\ r.stash \in Ids(r) \cup {0}
  /\ r.at \in Ids(r) \cup {0} /\ (r.on # None => r.at = 0)

(***************************************************************************)
(* A finite number of refs stays one, by the one ref.                      *)
(***************************************************************************)
LEMMA FewRefs ==
  ASSUME NEW S
  PROVE  /\ {} \in FiniteSubsetsOf(S)
         /\ \A D \in FiniteSubsetsOf(S) :
              /\ D \subseteq S /\ IsFiniteSet(D)
              /\ \A x \in S : D \cup {x} \in FiniteSubsetsOf(S)
              /\ \A x : D \ {x} \in FiniteSubsetsOf(S)
BY FS_EmptySet, FS_AddElement, FS_RemoveElement DEF FiniteSubsetsOf

(***************************************************************************)
(* Ids and commits of a sound repository, and parents that are older than  *)
(* their children.                                                         *)
(***************************************************************************)
LEMMA SoundCommits ==
  ASSUME NEW r, Sound(r)
  PROVE  /\ Len(r.commits) \in Nat /\ Ids(r) = 1..Len(r.commits)
         /\ r.commits \in [Ids(r) -> [parents : Seq(Nat), at : Nat]]
         /\ \A c \in Ids(r) : \A p \in Range(r.commits[c].parents) : p \in Ids(r) /\ p < c
<1>1. r.commits \in Seq([parents : Seq(Nat), at : Nat])
  BY DEF Sound, Repositories
<1>2. /\ Len(r.commits) \in Nat /\ Ids(r) = 1..Len(r.commits)
      /\ r.commits \in [Ids(r) -> [parents : Seq(Nat), at : Nat]]
  BY <1>1, LenProperties DEF Ids
<1>3. \A c \in Ids(r) : \A p \in Range(r.commits[c].parents) : p \in 1..(c - 1)
  BY DEF Sound
<1>4. ASSUME NEW c \in Ids(r), NEW p \in Range(r.commits[c].parents)
      PROVE  p \in Ids(r) /\ p < c
  <2>1. p \in 1..(c - 1) /\ c \in 1..Len(r.commits)
    BY <1>2, <1>3
  <2> QED BY <1>2, <2>1
<1> QED BY <1>2, <1>4

Climbs(r, ids, up) ==
  /\ up[0] = ids \ {0}
  /\ \A n \in 1..Len(r.commits) : up[n] = up[n - 1] \cup Parents(r, up[n - 1])

(***************************************************************************)
(* Ancestors is reached in steps to the parents.                           *)
(***************************************************************************)
LEMMA AncestorsBySteps ==
  ASSUME NEW r, Len(r.commits) \in Nat, NEW ids
  PROVE  \E up : Ancestors(r, ids) = up[Len(r.commits)] /\ Climbs(r, ids, up)
<1> DEFINE N == Len(r.commits)
           Start == ids \ {0}
           With(s) == s \cup Parents(r, s)
           Def(f, n) == f = [k \in 0..n |-> IF k = 0 THEN Start ELSE With(f[k - 1])]
           T == {n \in 0..N : \E f : Def(f, n)}
<1>1. 0 \in T
  <2>1. Def([k \in 0..0 |-> Start], 0)
    OBVIOUS
  <2> HIDE DEF Def
  <2> QED BY <2>1
<1>2. ASSUME NEW n \in 1..N, n - 1 \in T PROVE n \in T
  <2>1. PICK f : Def(f, n - 1)
    BY <1>2
  <2> HIDE DEF With, Start
  <2> DEFINE g == [k \in 0..n |-> IF k = 0 THEN Start ELSE With(f[k - 1])]
  <2>2. \A k \in 0..(n - 1) : g[k] = f[k]
    BY <2>1
  <2>3. \A k \in 0..n : k # 0 => With(f[k - 1]) = With(g[k - 1])
    <3> HIDE DEF g
    <3> QED BY <2>2
  <2>4. Def(g, n)
    BY <2>3
  <2> HIDE DEF Def, g
  <2> QED BY <2>4
<1>3. N \in T
  <2> HIDE DEF T
  <2>1. \A n \in 0..N : n \in T
    BY <1>1, <1>2, UpTo
  <2> QED BY <2>1
<1>4. PICK f : Def(f, N)
  BY <1>3
<1> DEFINE up == CHOOSE g : Def(g, N)
<1>5. Def(up, N)
  BY <1>4
<1>6. Ancestors(r, ids) = up[N]
  BY DEF Ancestors
<1> HIDE DEF up
<1>7. up[0] = Start /\ \A n \in 1..N : up[n] = With(up[n - 1])
  <2> HIDE DEF Start, With
  <2> QED BY <1>5
<1>8. Climbs(r, ids, up)
  BY <1>7 DEF Climbs
<1> QED BY <1>6, <1>8

(***************************************************************************)
(* Parents of some commits are the parents of each of them.                *)
(***************************************************************************)
LEMMA ParentIn ==
  ASSUME NEW r, NEW s
  PROVE  \A p : p \in Parents(r, s) <=> \E c \in s : p \in Range(r.commits[c].parents)
BY DEF Parents

(***************************************************************************)
(* The ancestors are the fewest commits with the parents of each.          *)
(***************************************************************************)
LEMMA AncestorsLeast ==
  ASSUME NEW r, Len(r.commits) \in Nat, NEW ids,
         NEW S, ids \ {0} \subseteq S, Parents(r, S) \subseteq S
  PROVE  Ancestors(r, ids) \subseteq S
<1> DEFINE N == Len(r.commits)
<1>1. PICK up : Ancestors(r, ids) = up[N] /\ Climbs(r, ids, up)
  BY AncestorsBySteps
<1>2. /\ Ancestors(r, ids) = up[N]
      /\ up[0] = ids \ {0}
      /\ \A n \in 1..N : up[n] = up[n - 1] \cup Parents(r, up[n - 1])
  BY <1>1 DEF Climbs
<1> DEFINE T == {n \in 0..N : up[n] \subseteq S}
<1>3. 0 \in T
  BY <1>2
<1>4. ASSUME NEW n \in 1..N, n - 1 \in T PROVE n \in T
  <2>1. up[n - 1] \subseteq S
    BY <1>4
  <2>2. Parents(r, up[n - 1]) \subseteq S
    BY <2>1, ParentIn
  <2>3. up[n] \subseteq S
    BY <1>2, <2>1, <2>2
  <2> QED BY <2>3
<1>5. \A n \in 0..N : n \in T
  <2> HIDE DEF T
  <2> QED BY <1>3, <1>4, UpTo
<1> QED BY <1>2, <1>5

(***************************************************************************)
(* As parents are older, there are as many steps as it takes: those that   *)
(* step n adds have n commits after them.                                  *)
(***************************************************************************)
LEMMA AncestorsClosed ==
  ASSUME NEW r, Sound(r), NEW ids, ids \ {0} \subseteq Ids(r)
  PROVE  /\ ids \ {0} \subseteq Ancestors(r, ids)
         /\ Parents(r, Ancestors(r, ids)) \subseteq Ancestors(r, ids)
         /\ Ancestors(r, ids) \subseteq Ids(r)
<1> DEFINE N == Len(r.commits)
<1>1. /\ N \in Nat /\ Ids(r) = 1..N
      /\ \A c \in Ids(r) : \A p \in Range(r.commits[c].parents) : p \in Ids(r) /\ p < c
  BY SoundCommits
<1>2. PICK up : Ancestors(r, ids) = up[N] /\ Climbs(r, ids, up)
  BY <1>1, AncestorsBySteps
<1>3. /\ Ancestors(r, ids) = up[N]
      /\ up[0] = ids \ {0}
      /\ \A n \in 1..N : up[n] = up[n - 1] \cup Parents(r, up[n - 1])
  BY <1>2 DEF Climbs
<1> DEFINE New1(c, n) == n # 0 => c \in up[n - 1] \/ c <= N - n
           Good(n) == /\ ids \ {0} \subseteq up[n]
                      /\ up[n] \subseteq Ids(r)
                      /\ \A c \in up[n] : New1(c, n)
           T == {n \in 0..N : Good(n)}
<1>4. 0 \in T
  <2>1. Good(0)
    BY <1>3
  <2> QED BY <1>1, <2>1
<1>5. ASSUME NEW n \in 1..N, n - 1 \in T PROVE n \in T
  <2>1. Good(n - 1)
    BY <1>5
  <2>2. up[n] = up[n - 1] \cup Parents(r, up[n - 1])
    BY <1>3
  <2>3. ids \ {0} \subseteq up[n]
    BY <2>1, <2>2
  <2>4. up[n] \subseteq Ids(r)
    BY <1>1, <2>1, <2>2, ParentIn
  <2>5. ASSUME NEW p \in up[n], p \notin up[n - 1] PROVE p <= N - n
    <3>1. PICK c \in up[n - 1] : p \in Range(r.commits[c].parents)
      BY <2>2, <2>5, ParentIn
    <3>2. p \in Nat /\ c \in Nat /\ p < c /\ c <= N
      <4>1. c \in Ids(r)
        BY <2>1
      <4>2. p \in Ids(r) /\ p < c
        BY <1>1, <3>1, <4>1
      <4> QED BY <1>1, <4>1, <4>2
    <3>3. CASE n = 1
      BY <1>1, <3>2, <3>3
    <3>4. CASE n # 1 /\ c \in up[n - 2]
      <4>1. up[n - 1] = up[n - 2] \cup Parents(r, up[n - 2])
        <5>1. n - 1 \in 1..N /\ (n - 1) - 1 = n - 2
          BY <1>1, <3>4
        <5> QED BY <1>3, <5>1
      <4> QED BY <2>5, <3>1, <3>4, <4>1, ParentIn
    <3>5. CASE n # 1 /\ c <= N - (n - 1)
      BY <1>1, <3>2, <3>5
    <3>6. n # 1 => c \in up[n - 2] \/ c <= N - (n - 1)
      <4>1. New1(c, n - 1)
        BY <2>1, <3>1
      <4>2. (n - 1) - 1 = n - 2 /\ (n # 1 => n - 1 # 0)
        OBVIOUS
      <4> QED BY <4>1, <4>2
    <3> QED BY <3>3, <3>4, <3>5, <3>6
  <2>6. Good(n)
    BY <2>3, <2>4, <2>5
  <2> HIDE DEF Good
  <2> QED BY <1>1, <2>6
<1>6. Good(N)
  <2> HIDE DEF Good
  <2>1. \A n \in 0..N : n \in T
    <3> HIDE DEF T
    <3> QED BY <1>1, <1>4, <1>5, UpTo
  <2> QED BY <1>1, <2>1
<1>7. Parents(r, up[N]) \subseteq up[N]
  <2>1. CASE N = 0
    BY <1>1, <1>6, <2>1, ParentIn
  <2>2. CASE N # 0
    <3>1. \A c \in up[N] : c \in up[N - 1]
      BY <1>1, <1>6, <2>2
    <3>2. up[N] = up[N - 1] \cup Parents(r, up[N - 1])
      BY <1>1, <1>3, <2>2
    <3> QED BY <3>1, <3>2, ParentIn
  <2> QED BY <2>1, <2>2
<1> QED BY <1>3, <1>6, <1>7

(***************************************************************************)
(* What the refs show has the tips, and the parents of all it has.         *)
(***************************************************************************)
LEMMA SoundFields ==
  ASSUME NEW r, Sound(r)
  PROVE  /\ DOMAIN r.heads \in FiniteSubsetsOf(Names) /\ r.heads \in [DOMAIN r.heads -> Ids(r)]
         /\ DOMAIN r.tags \in FiniteSubsetsOf(Tags) /\ r.tags \in [DOMAIN r.tags -> Ids(r)]
         /\ r.on \in Names \cup {None}
         /\ r.stash \in Ids(r) \cup {0}
         /\ r.at \in Ids(r) \cup {0} /\ (r.on # None => r.at = 0)
<1>1. /\ r.heads \in UNION {[D -> Nat] : D \in FiniteSubsetsOf(Names)}
      /\ r.tags \in UNION {[D -> Nat] : D \in FiniteSubsetsOf(Tags)}
      /\ r.on \in Names \cup {None}
  BY DEF Sound, Repositories
<1>2. PICK D \in FiniteSubsetsOf(Names) : r.heads \in [D -> Nat]
  BY <1>1
<1>3. PICK E \in FiniteSubsetsOf(Tags) : r.tags \in [E -> Nat]
  BY <1>1
<1>4. r.heads \in [DOMAIN r.heads -> Ids(r)]
  BY <1>2 DEF Sound
<1>5. r.tags \in [DOMAIN r.tags -> Ids(r)]
  BY <1>3 DEF Sound
<1> QED BY <1>1, <1>2, <1>3, <1>4, <1>5 DEF Sound

(***************************************************************************)
(* HEAD is at a commit, or there is none.                                  *)
(***************************************************************************)
LEMMA TipIn ==
  ASSUME NEW r, Sound(r)
  PROVE  Tip(r) \in Ids(r) \cup {0}
BY SoundFields DEF Tip

(***************************************************************************)
(* What refs show are commits of the repository, with all their parents.   *)
(***************************************************************************)
LEMMA Shown ==
  ASSUME NEW r, Sound(r)
  PROVE  /\ Tips(r) \subseteq Visible(r)
         /\ Parents(r, Visible(r)) \subseteq Visible(r)
         /\ Visible(r) \subseteq Ids(r)
         /\ IsFiniteSet(Visible(r))
         /\ Visible(r) \in SUBSET (Nat \ {0})
<1>1. Tips(r) \subseteq Ids(r) /\ 0 \notin Tips(r)
  BY SoundFields, TipIn DEF Tips
<1>2. Len(r.commits) \in Nat /\ Ids(r) = 1..Len(r.commits)
  BY SoundCommits
<1>3. Tips(r) \ {0} = Tips(r)
  BY <1>1
<1>4. /\ Tips(r) \subseteq Visible(r)
      /\ Parents(r, Visible(r)) \subseteq Visible(r)
      /\ Visible(r) \subseteq Ids(r)
  BY <1>1, <1>3, AncestorsClosed DEF Visible
<1>5. IsFiniteSet(Ids(r))
  BY <1>2, FS_Interval
<1>6. IsFiniteSet(Visible(r))
  BY <1>4, <1>5, FS_Subset
<1>7. Visible(r) \in SUBSET (Nat \ {0})
  BY <1>2, <1>4
<1> QED BY <1>4, <1>6, <1>7

(***************************************************************************)
(* The parts of a repository that is tidied.                               *)
(***************************************************************************)
Seconds(r) == {r.commits[c].at : c \in Visible(r)}

(***************************************************************************)
(* The seconds in which the commits that are shown were made are finitely  *)
(* many.                                                                   *)
(***************************************************************************)
LEMMA SecondsShown ==
  ASSUME NEW r, Sound(r)
  PROVE  Seconds(r) \in SUBSET Nat /\ IsFiniteSet(Seconds(r))
<1> DEFINE shown == Visible(r)
           f == [c \in shown |-> r.commits[c].at]
<1>1. \A c \in shown : r.commits[c].at \in Nat
  BY Shown, SoundCommits
<1>2. Seconds(r) \in SUBSET Nat
  BY <1>1 DEF Seconds
<1>3. f \in [shown -> Seconds(r)] /\ \A s \in Seconds(r) : \E c \in shown : f[c] = s
  BY DEF Seconds
<1>4. f \in Surjection(shown, Seconds(r))
  <2> HIDE DEF f, shown
  <2> QED BY <1>3 DEF Surjection
<1>5. IsFiniteSet(Seconds(r))
  BY <1>4, Shown, FS_Surjection
<1> QED BY <1>2, <1>5

(***************************************************************************)
(* A commit with other parents and another second is the record of these.  *)
(***************************************************************************)
LEMMA SameRecord ==
  ASSUME NEW x \in [parents : Seq(Nat), at : Nat], NEW p, NEW a
  PROVE  [x EXCEPT !.parents = p, !.at = a] = [parents |-> p, at |-> a]
<1> DEFINE y == [x EXCEPT !.parents = p, !.at = a]
<1>1. y \in [parents : {p}, at : {a}]
  OBVIOUS
<1>2. \A z \in [parents : {p}, at : {a}] : z = [parents |-> p, at |-> a]
  OBVIOUS
<1> QED BY <1>1, <1>2

Whole(r) ==
  r \in [commits : {r.commits}, heads : {r.heads}, tags : {r.tags},
         stash : {r.stash}, on : {r.on}, at : {r.at}]

(***************************************************************************)
(* A repository is the record of its fields.                               *)
(***************************************************************************)
LEMMA WholeRecord ==
  ASSUME NEW r, r \in Repositories
  PROVE  Whole(r)
BY DEF Whole, Repositories

(***************************************************************************)
(* A record with fields of the right types is a repository.                *)
(***************************************************************************)
LEMMA WholeTyped ==
  ASSUME NEW r, Whole(r),
         r.commits \in Seq([parents : Seq(Nat), at : Nat]),
         r.heads \in UNION {[D -> Nat] : D \in FiniteSubsetsOf(Names)},
         r.tags \in UNION {[D -> Nat] : D \in FiniteSubsetsOf(Tags)},
         r.stash \in Nat, r.on \in Names \cup {None}, r.at \in Nat
  PROVE  r \in Repositories
<1> DEFINE A == Seq([parents : Seq(Nat), at : Nat])
           B == UNION {[D -> Nat] : D \in FiniteSubsetsOf(Names)}
           C == UNION {[D -> Nat] : D \in FiniteSubsetsOf(Tags)}
           O == Names \cup {None}
<1>1. /\ r.commits \in A /\ r.heads \in B /\ r.tags \in C
      /\ r.stash \in Nat /\ r.on \in O /\ r.at \in Nat
  OBVIOUS
<1>2. Repositories = [commits : A, heads : B, tags : C, stash : Nat, on : O, at : Nat]
  BY DEF Repositories
<1> HIDE DEF A, B, C, O
<1> QED BY <1>1, <1>2 DEF Whole

(***************************************************************************)
(* Repositories are equal when their fields are.                           *)
(***************************************************************************)
LEMMA SameWhole ==
  ASSUME NEW r, NEW s, Whole(r), Whole(s),
         r.commits = s.commits, r.heads = s.heads, r.tags = s.tags,
         r.stash = s.stash, r.on = s.on, r.at = s.at
  PROVE  r = s
BY DEF Whole

(***************************************************************************)
(* The fields of a tidied repository.                                      *)
(***************************************************************************)
LEMMA TidyParts ==
  ASSUME NEW r, Sound(r)
  PROVE  LET shown == Visible(r)
             t == Tidy(r)
         IN  /\ t.commits \in [1..Cardinality(shown) -> [parents : Seq(Nat), at : Nat]]
             /\ \A c \in shown :
                  /\ t.commits[Place(shown, c)].parents =
                       [i \in DOMAIN r.commits[c].parents |->
                          Place(shown, r.commits[c].parents[i])]
                  /\ t.commits[Place(shown, c)].at = Below(Seconds(r), r.commits[c].at)
             /\ t.heads = [b \in DOMAIN r.heads |-> Place(shown, r.heads[b])]
             /\ t.tags = [g \in DOMAIN r.tags |-> Place(shown, r.tags[g])]
             /\ t.stash = Place(shown, r.stash)
             /\ t.at = Place(shown, r.at)
             /\ t.on = r.on
             /\ Whole(t)
<1> DEFINE shown == Visible(r)
           t == Tidy(r)
           old(n) == CHOOSE c \in shown : Place(shown, c) = n
           renamed(c) == [parents |-> [i \in DOMAIN r.commits[c].parents |->
                                         Place(shown, r.commits[c].parents[i])],
                          at |-> Below(Seconds(r), r.commits[c].at)]
<1>1. \A c \in shown : r.commits[c] \in [parents : Seq(Nat), at : Nat]
  BY Shown, SoundCommits
<1>2. r \in Repositories
  BY DEF Sound
<1>3. t = [r EXCEPT
             !.commits = [n \in 1..Cardinality(shown) |->
                            [r.commits[old(n)] EXCEPT
                               !.parents = [i \in DOMAIN @ |-> Place(shown, @[i])],
                               !.at = Below(Seconds(r), @)]],
             !.heads = [b \in DOMAIN @ |-> Place(shown, @[b])],
             !.tags = [g \in DOMAIN @ |-> Place(shown, @[g])],
             !.stash = Place(shown, @), !.at = Place(shown, @)]
  BY DEF Tidy, Place, Below, Seconds
<1>4. /\ t.commits = [n \in 1..Cardinality(shown) |->
                            [r.commits[old(n)] EXCEPT
                               !.parents = [i \in DOMAIN @ |-> Place(shown, @[i])],
                               !.at = Below(Seconds(r), @)]]
      /\ t.heads = [b \in DOMAIN r.heads |-> Place(shown, r.heads[b])]
      /\ t.tags = [g \in DOMAIN r.tags |-> Place(shown, r.tags[g])]
      /\ t.stash = Place(shown, r.stash)
      /\ t.at = Place(shown, r.at)
      /\ t.on = r.on
      /\ Whole(t)
  <2> HIDE DEF shown, t, old
  <2> QED BY <1>2, <1>3 DEF Repositories, Whole
<1>5. \A c \in shown :
        [r.commits[c] EXCEPT
            !.parents = [i \in DOMAIN @ |-> Place(shown, @[i])],
            !.at = Below(Seconds(r), @)] = renamed(c)
  <2> HIDE DEF shown
  <2> QED BY <1>1, SameRecord
<1>6. /\ Cardinality(shown) \in Nat
      /\ \A c \in shown : Place(shown, c) \in 1..Cardinality(shown)
      /\ \A c, d \in shown : c < d => Place(shown, c) < Place(shown, d)
      /\ \A n \in 1..Cardinality(shown) : \E c \in shown : Place(shown, c) = n
  BY Shown, Places
<1>7. \A n \in 1..Cardinality(shown) : old(n) \in shown
  <2> HIDE DEF shown
  <2> QED BY <1>6
<1>8. \A c \in shown : old(Place(shown, c)) = c
  <2>1. shown \in SUBSET Nat
    BY Shown
  <2> SUFFICES ASSUME NEW c \in shown, NEW d \in shown, Place(shown, d) = Place(shown, c)
               PROVE  d = c
    OBVIOUS
  <2>2. d < c \/ c < d \/ d = c
    BY <2>1
  <2> HIDE DEF shown
  <2> QED BY <1>6, <2>2
<1>9. t.commits = [n \in 1..Cardinality(shown) |-> renamed(old(n))]
  <2> HIDE DEF t, shown, old, renamed
  <2> QED BY <1>4, <1>5, <1>7
<1>10. \A c \in shown : t.commits[Place(shown, c)] = renamed(c)
  <2> HIDE DEF t, shown, old, renamed
  <2> QED BY <1>6, <1>8, <1>9
<1>11. \A c \in shown : renamed(c) \in [parents : Seq(Nat), at : Nat]
  <2> TAKE c \in shown
  <2> DEFINE p == r.commits[c].parents
             q == [i \in DOMAIN p |-> Place(shown, p[i])]
  <2>1. p \in Seq(Nat)
    BY <1>1
  <2>2. Len(p) \in Nat /\ DOMAIN p = 1..Len(p)
    BY <2>1, LenProperties
  <2>3. \A i \in DOMAIN p : p[i] \in shown
    BY Shown, ParentIn DEF Range
  <2>4. \A i \in DOMAIN p : Place(shown, p[i]) \in Nat
    <3> HIDE DEF shown, p
    <3> QED BY <1>6, <2>3
  <2>5. q \in Seq(Nat)
    <3> HIDE DEF shown, p
    <3>1. q \in [1..Len(p) -> Nat]
      BY <2>2, <2>4
    <3> HIDE DEF q
    <3> QED BY <2>2, <3>1, SeqDef
  <2>6. Below(Seconds(r), r.commits[c].at) \in Nat
    BY SecondsShown, FewerBelow
  <2> QED BY <2>5, <2>6
<1>12. t.commits \in [1..Cardinality(shown) -> [parents : Seq(Nat), at : Nat]]
  <2> HIDE DEF t, shown, old, renamed
  <2> QED BY <1>7, <1>9, <1>11
<1>13. ASSUME NEW c \in shown PROVE
         /\ t.commits[Place(shown, c)].parents =
              [i \in DOMAIN r.commits[c].parents |-> Place(shown, r.commits[c].parents[i])]
         /\ t.commits[Place(shown, c)].at = Below(Seconds(r), r.commits[c].at)
  <2>1. t.commits[Place(shown, c)] = renamed(c)
    BY <1>10
  <2> HIDE DEF t, shown
  <2> QED BY <2>1
<1> HIDE DEF shown, t
<1> QED BY <1>4, <1>12, <1>13 DEF shown, t

(***************************************************************************)
(* A repository that is tidied is one, and its refs show all it has.       *)
(***************************************************************************)
LEMMA RefsShown ==
  ASSUME NEW r, Sound(r)
  PROVE  /\ \A b \in DOMAIN r.heads : r.heads[b] \in Visible(r)
         /\ \A t \in DOMAIN r.tags : r.tags[t] \in Visible(r)
         /\ r.stash \in Visible(r) \cup {0}
         /\ r.at \in Visible(r) \cup {0}
         /\ Tip(r) \in Visible(r) \cup {0}
<1>1. 0 \notin Ids(r)
  BY SoundCommits
<1>2. \A b \in DOMAIN r.heads : r.heads[b] \in Tips(r)
  BY <1>1, SoundFields DEF Tips
<1>3. \A t \in DOMAIN r.tags : r.tags[t] \in Tips(r)
  BY <1>1, SoundFields DEF Tips
<1>4. r.stash \in Tips(r) \cup {0} /\ Tip(r) \in Tips(r) \cup {0}
  BY DEF Tips
<1>5. r.at \in Tips(r) \cup {0}
  <2>1. CASE r.on = None
    BY <1>4, <2>1 DEF Tip
  <2>2. CASE r.on # None
    BY <2>2, SoundFields
  <2> QED BY <2>1, <2>2
<1> QED BY <1>2, <1>3, <1>4, <1>5, Shown

(***************************************************************************)
(* A tidied repository is sound, with the commits that were shown.         *)
(***************************************************************************)
LEMMA TidySound ==
  ASSUME NEW r, Sound(r)
  PROVE  /\ Sound(Tidy(r))
         /\ Ids(Tidy(r)) = 1..Cardinality(Visible(r))
<1> DEFINE shown == Visible(r)
           n == Cardinality(shown)
           num(c) == Place(shown, c)
           t == Tidy(r)
<1>1. /\ t.commits \in [1..n -> [parents : Seq(Nat), at : Nat]]
      /\ \A c \in shown :
           t.commits[num(c)].parents =
             [i \in DOMAIN r.commits[c].parents |-> num(r.commits[c].parents[i])]
      /\ t.heads = [b \in DOMAIN r.heads |-> num(r.heads[b])]
      /\ t.tags = [g \in DOMAIN r.tags |-> num(r.tags[g])]
      /\ t.stash = num(r.stash) /\ t.at = num(r.at) /\ t.on = r.on
      /\ Whole(t)
  BY TidyParts
<1>2. /\ n \in Nat
      /\ num(0) = 0
      /\ \A c \in shown : num(c) \in 1..n
      /\ \A c, d \in shown : c < d => num(c) < num(d)
      /\ \A m \in 1..n : \E c \in shown : num(c) = m
  BY Shown, Places
<1>3. /\ \A b \in DOMAIN r.heads : r.heads[b] \in shown
      /\ \A g \in DOMAIN r.tags : r.tags[g] \in shown
      /\ r.stash \in shown \cup {0} /\ r.at \in shown \cup {0}
  BY RefsShown
<1>4. /\ DOMAIN r.heads \in FiniteSubsetsOf(Names) /\ DOMAIN r.tags \in FiniteSubsetsOf(Tags)
      /\ r.on \in Names \cup {None} /\ (r.on # None => r.at = 0)
  BY SoundFields
<1>5. \A c \in shown : \A p \in Range(r.commits[c].parents) : p \in shown /\ p < c
  BY Shown, SoundCommits, ParentIn
<1>6. Ids(t) = 1..n
  BY <1>1 DEF Ids
<1>7. t.commits \in Seq([parents : Seq(Nat), at : Nat])
  <2> DEFINE S == [parents : Seq(Nat), at : Nat]
             s == t.commits
  <2>1. s \in [1..n -> S] /\ n \in Nat
    BY <1>1, <1>2
  <2>2. s \in Seq(S)
    <3> HIDE DEF s, n, S
    <3> QED BY <2>1, SeqDef
  <2> QED BY <2>2
<1>8. /\ t.heads \in [DOMAIN r.heads -> 1..n]
      /\ t.tags \in [DOMAIN r.tags -> 1..n]
      /\ t.stash \in 0..n /\ t.at \in 0..n
      /\ r.on # None => t.at = 0
  <2> HIDE DEF t, n, num, shown
  <2> QED BY <1>1, <1>2, <1>3, <1>4, SMTT(20)
<1>9. ASSUME NEW m \in 1..n, NEW p \in Range(t.commits[m].parents) PROVE p \in 1..(m - 1)
  <2>1. PICK c \in shown : num(c) = m
    BY <1>2
  <2>2. PICK q \in Range(r.commits[c].parents) : p = num(q)
    <3>1. t.commits[m].parents =
            [i \in DOMAIN r.commits[c].parents |-> num(r.commits[c].parents[i])]
      BY <1>1, <2>1
    <3> HIDE DEF t, num, shown
    <3> QED BY <1>9, <3>1 DEF Range
  <2>3. q \in shown /\ q < c
    BY <1>5, <2>2
  <2> HIDE DEF t, num, shown, n
  <2>4. num(q) \in 1..n /\ num(q) < m
    BY <1>2, <2>1, <2>3
  <2> QED BY <1>2, <2>2, <2>4
<1> HIDE DEF t, n, num
<1>10. t \in Repositories
  <2>1. t.heads \in [DOMAIN r.heads -> Nat] /\ t.tags \in [DOMAIN r.tags -> Nat]
    BY <1>8
  <2>2. /\ t.heads \in UNION {[D -> Nat] : D \in FiniteSubsetsOf(Names)}
        /\ t.tags \in UNION {[D -> Nat] : D \in FiniteSubsetsOf(Tags)}
    BY <1>4, <2>1
  <2>3. t.stash \in Nat /\ t.at \in Nat
    BY <1>8
  <2> QED BY <1>1, <1>4, <1>7, <2>2, <2>3, WholeTyped
<1>11. Sound(t)
  <2>1. \A c \in Ids(t) : \A p \in Range(t.commits[c].parents) : p \in 1..(c - 1)
    BY <1>6, <1>9
  <2>2. /\ \A b \in DOMAIN t.heads : t.heads[b] \in Ids(t)
        /\ \A g \in DOMAIN t.tags : t.tags[g] \in Ids(t)
    BY <1>6, <1>8
  <2>3. /\ t.stash \in Ids(t) \cup {0}
        /\ t.at \in Ids(t) \cup {0} /\ (t.on # None => t.at = 0)
    BY <1>1, <1>2, <1>6, <1>8
  <2> QED BY <1>10, <2>1, <2>2, <2>3 DEF Sound
<1> QED BY <1>6, <1>11 DEF t, n

(***************************************************************************)
(* It shows all its commits.                                               *)
(***************************************************************************)
LEMMA TidyShows ==
  ASSUME NEW r, Sound(r)
  PROVE  Visible(Tidy(r)) = Ids(Tidy(r))
<1> DEFINE shown == Visible(r)
           n == Cardinality(shown)
           num(c) == Place(shown, c)
           t == Tidy(r)
           S == {c \in shown : num(c) \in Visible(t)}
<1>1. /\ \A c \in shown :
           t.commits[num(c)].parents =
             [i \in DOMAIN r.commits[c].parents |-> num(r.commits[c].parents[i])]
      /\ t.heads = [b \in DOMAIN r.heads |-> num(r.heads[b])]
      /\ t.tags = [g \in DOMAIN r.tags |-> num(r.tags[g])]
      /\ t.stash = num(r.stash) /\ t.at = num(r.at) /\ t.on = r.on
  BY TidyParts
<1>2. /\ num(0) = 0
      /\ \A c \in shown : num(c) \in 1..n
      /\ \A m \in 1..n : \E c \in shown : num(c) = m
  BY Shown, Places
<1>3. Sound(t) /\ Ids(t) = 1..n
  BY TidySound
<1>4. /\ Tips(t) \subseteq Visible(t)
      /\ Parents(t, Visible(t)) \subseteq Visible(t)
      /\ Visible(t) \subseteq Ids(t)
  BY <1>3, Shown
<1>5. /\ Tips(r) \subseteq shown
      /\ Parents(r, shown) \subseteq shown
  BY Shown
<1>6. Tip(t) = num(Tip(r))
  <2> HIDE DEF t, num, shown
  <2> QED BY <1>1, <1>2 DEF Tip
<1>7. ASSUME NEW x \in Tips(r) PROVE x \in S
  <2>1. x \in shown /\ num(x) # 0
    <3> HIDE DEF num, shown
    <3>1. x \in shown
      BY <1>5
    <3>2. num(x) \in 1..n
      BY <1>2, <3>1
    <3> QED BY <3>1, <3>2
  <2>2. \/ x = Tip(r) \/ x = r.stash
        \/ \E b \in DOMAIN r.heads : x = r.heads[b]
        \/ \E g \in DOMAIN r.tags : x = r.tags[g]
    BY DEF Tips
  <2>3. \/ num(x) = Tip(t) \/ num(x) = t.stash
        \/ \E b \in DOMAIN t.heads : num(x) = t.heads[b]
        \/ \E g \in DOMAIN t.tags : num(x) = t.tags[g]
    <3> HIDE DEF t, num, shown
    <3> QED BY <1>1, <1>6, <2>2
  <2>4. num(x) \in Tips(t)
    <3> HIDE DEF t, num, shown
    <3> QED BY <2>1, <2>3 DEF Tips
  <2> QED BY <1>4, <2>1, <2>4
<1>8. ASSUME NEW p \in Parents(r, S) PROVE p \in S
  <2>1. PICK c \in S : p \in Range(r.commits[c].parents)
    <3> HIDE DEF S
    <3> QED BY ParentIn
  <2>2. p \in shown
    BY <1>5, <2>1, ParentIn
  <2>3. num(p) \in Range(t.commits[num(c)].parents)
    <3>1. t.commits[num(c)].parents =
            [i \in DOMAIN r.commits[c].parents |-> num(r.commits[c].parents[i])]
      BY <1>1
    <3> HIDE DEF t, num, shown
    <3> QED BY <2>1, <3>1 DEF Range
  <2>4. num(p) \in Visible(t)
    BY <1>4, <2>1, <2>3, ParentIn
  <2> QED BY <2>2, <2>4
<1>9. shown \subseteq S
  <2>1. Tips(r) \ {0} \subseteq S
    BY <1>7
  <2>2. Parents(r, S) \subseteq S
    BY <1>8
  <2>3. Len(r.commits) \in Nat
    BY SoundCommits
  <2> HIDE DEF S
  <2> QED BY <2>1, <2>2, <2>3, AncestorsLeast DEF Visible
<1>10. \A m \in 1..n : m \in Visible(t)
  <2> HIDE DEF t, n, num, shown
  <2> QED BY <1>2, <1>9
<1> QED BY <1>3, <1>4, <1>10

(***************************************************************************)
(* Numbers that are there already are numbered as they are.                *)
(***************************************************************************)
LEMMA PlacesOfAll ==
  ASSUME NEW n \in Nat
  PROVE  /\ \A k \in 0..n : Place(1..n, k) = k
         /\ \A k \in 0..(n - 1) : Below(0..(n - 1), k) = k
<1>1. ASSUME NEW k \in 0..n PROVE Place(1..n, k) = k
  <2>1. {d \in 1..n : d <= k} = 1..k
    OBVIOUS
  <2>2. Cardinality(1..k) = k
    BY FS_Interval
  <2> QED BY <2>1, <2>2 DEF Place
<1>2. ASSUME NEW k \in 0..(n - 1) PROVE Below(0..(n - 1), k) = k
  <2>1. {x \in 0..(n - 1) : x < k} = 0..(k - 1)
    OBVIOUS
  <2>2. k - 1 \in Int /\ Cardinality(0..(k - 1)) = k
    BY FS_Interval
  <2> QED BY <2>1, <2>2 DEF Below
<1> QED BY <1>1, <1>2

(***************************************************************************)
(* Its seconds are numbered from 0 without gaps.                           *)
(***************************************************************************)
LEMMA SecondsTidy ==
  ASSUME NEW r, Sound(r)
  PROVE  \A c \in Ids(Tidy(r)) :
           Below(Seconds(Tidy(r)), Tidy(r).commits[c].at) = Tidy(r).commits[c].at
<1> DEFINE shown == Visible(r)
           n == Cardinality(shown)
           num(c) == Place(shown, c)
           t == Tidy(r)
           was == Seconds(r)
           k == Cardinality(was)
<1>1. \A c \in shown : t.commits[num(c)].at = Below(was, r.commits[c].at)
  BY TidyParts
<1>2. /\ \A c \in shown : num(c) \in 1..n
      /\ \A m \in 1..n : \E c \in shown : num(c) = m
  BY Shown, Places
<1>3. Visible(t) = 1..n /\ Ids(t) = 1..n
  BY TidyShows, TidySound
<1>4. was \in SUBSET Nat /\ IsFiniteSet(was)
  BY SecondsShown
<1>5. k \in Nat /\ {Below(was, s) : s \in was} = 0..(k - 1)
  BY <1>4, FewerBelow, EveryPlace
<1>6. \A a : a \in was <=> \E c \in shown : a = r.commits[c].at
  BY DEF Seconds
<1>7. \A a : a \in Seconds(t) <=> \E m \in 1..n : a = t.commits[m].at
  BY <1>3 DEF Seconds
<1> HIDE DEF shown, n, num, t, was, k
<1>8. \A m \in 1..n : \E s \in was : t.commits[m].at = Below(was, s)
  BY <1>1, <1>2, <1>6
<1>9. \A s \in was : \E m \in 1..n : t.commits[m].at = Below(was, s)
  BY <1>1, <1>2, <1>6
<1>10. Seconds(t) = {Below(was, s) : s \in was}
  BY <1>7, <1>8, <1>9
<1>11. Seconds(t) = 0..(k - 1)
  BY <1>5, <1>10
<1>12. \A m \in 1..n : t.commits[m].at \in 0..(k - 1)
  BY <1>7, <1>11
<1>13. \A m \in 1..n : Below(Seconds(t), t.commits[m].at) = t.commits[m].at
  BY <1>5, <1>11, <1>12, PlacesOfAll
<1> QED BY <1>3, <1>13 DEF t

(***************************************************************************)
(* A repository that is tidied is not changed by tidying it again.         *)
(***************************************************************************)
LEMMA SameFunction ==
  ASSUME NEW D, NEW S, NEW x \in [D -> S], NEW y \in [D -> S], \A d \in D : x[d] = y[d]
  PROVE  x = y
OBVIOUS

(***************************************************************************)
(* So there is nothing left to tidy.                                       *)
(***************************************************************************)
LEMMA TidyTwice ==
  ASSUME NEW r, Sound(r)
  PROVE  Tidy(Tidy(r)) = Tidy(r)
<1> DEFINE n == Cardinality(Visible(r))
           t == Tidy(r)
           u == Tidy(t)
           V == Visible(t)
<1>1. /\ Sound(t) /\ Ids(t) = 1..n /\ V = 1..n
      /\ n \in Nat /\ Cardinality(V) = n
  <2>1. n \in Nat
    BY Shown, Places
  <2> HIDE DEF n
  <2>2. Cardinality(1..n) = n
    BY <2>1, FS_Interval
  <2> QED BY <2>1, <2>2, TidyShows, TidySound DEF n
<1>2. /\ u.commits \in [1..Cardinality(V) -> [parents : Seq(Nat), at : Nat]]
      /\ \A c \in V :
           /\ u.commits[Place(V, c)].parents =
                [i \in DOMAIN t.commits[c].parents |-> Place(V, t.commits[c].parents[i])]
           /\ u.commits[Place(V, c)].at = Below(Seconds(t), t.commits[c].at)
      /\ u.heads = [b \in DOMAIN t.heads |-> Place(V, t.heads[b])]
      /\ u.tags = [g \in DOMAIN t.tags |-> Place(V, t.tags[g])]
      /\ u.stash = Place(V, t.stash)
      /\ u.at = Place(V, t.at)
      /\ u.on = t.on
      /\ Whole(u)
  <2> HIDE DEF n, t
  <2> QED BY <1>1, TidyParts
<1>3. \A c \in 1..n : Below(Seconds(t), t.commits[c].at) = t.commits[c].at
  BY <1>1, SecondsTidy
<1>4. \A k \in 0..n : Place(V, k) = k
  BY <1>1, PlacesOfAll
<1>5. /\ t.commits \in [1..n -> [parents : Seq(Nat), at : Nat]]
      /\ \A c \in 1..n : \A p \in Range(t.commits[c].parents) : p \in 1..n
  BY <1>1, SoundCommits
<1>6. /\ t.heads \in [DOMAIN t.heads -> 1..n]
      /\ t.tags \in [DOMAIN t.tags -> 1..n]
      /\ t.stash \in 0..n /\ t.at \in 0..n
  BY <1>1, SoundFields
<1>7. Whole(t)
  BY <1>1, WholeRecord DEF Sound
<1> HIDE DEF n, t, u, V
<1>8. u.heads = t.heads /\ u.tags = t.tags /\ u.stash = t.stash /\ u.at = t.at
  BY <1>2, <1>4, <1>6
<1>9. ASSUME NEW c \in 1..n PROVE u.commits[c] = t.commits[c]
  <2> DEFINE p == t.commits[c].parents
  <2>1. c \in 0..n
    BY <1>1
  <2>2. /\ u.commits[c].parents = [i \in DOMAIN p |-> Place(V, p[i])]
        /\ u.commits[c].at = t.commits[c].at
    <3>1. c \in V /\ Place(V, c) = c
      BY <1>1, <1>4, <2>1
    <3>2. u.commits[Place(V, c)].parents = [i \in DOMAIN p |-> Place(V, p[i])]
      BY <1>2, <3>1
    <3>3. u.commits[Place(V, c)].at = t.commits[c].at
      BY <1>2, <1>3, <3>1
    <3> HIDE DEF p
    <3> QED BY <3>1, <3>2, <3>3
  <2>3. p \in Seq(Nat) /\ \A i \in DOMAIN p : p[i] \in 0..n
    <3>1. p \in Seq(Nat)
      BY <1>5
    <3>2. \A q \in Range(p) : q \in 1..n
      BY <1>5
    <3> HIDE DEF p
    <3>3. \A i \in DOMAIN p : p[i] \in Range(p)
      BY DEF Range
    <3>4. \A q \in 1..n : q \in 0..n
      BY <1>1
    <3> QED BY <3>1, <3>2, <3>3, <3>4
  <2>4. DOMAIN p = 1..Len(p) /\ p \in [DOMAIN p -> Nat]
    <3> HIDE DEF p
    <3> QED BY <2>3, LenProperties
  <2>5. [i \in DOMAIN p |-> Place(V, p[i])] = p
    <3> HIDE DEF p
    <3> QED BY <1>4, <2>3, <2>4
  <2>6. u.commits[c].parents = p
    BY <2>2, <2>5
  <2>7. /\ u.commits[c] \in [parents : Seq(Nat), at : Nat]
        /\ t.commits[c] \in [parents : Seq(Nat), at : Nat]
    <3> DEFINE S == [parents : Seq(Nat), at : Nat]
    <3>1. u.commits \in [1..n -> S] /\ t.commits \in [1..n -> S]
      BY <1>1, <1>2, <1>5
    <3> HIDE DEF S
    <3>2. u.commits[c] \in S /\ t.commits[c] \in S
      BY <3>1
    <3> QED BY <3>2 DEF S
  <2> QED BY <2>2, <2>6, <2>7
<1>10. u.commits = t.commits
  <2> DEFINE S == [parents : Seq(Nat), at : Nat]
             D == 1..n
             x == u.commits
             y == t.commits
  <2>1. x \in [D -> S] /\ y \in [D -> S]
    BY <1>1, <1>2, <1>5
  <2>2. \A c \in D : x[c] = y[c]
    BY <1>9
  <2> HIDE DEF S, D, x, y
  <2>3. x = y
    BY <2>1, <2>2, SameFunction
  <2> QED BY <2>3 DEF x, y
<1>11. u = t
  BY <1>2, <1>7, <1>8, <1>10, SameWhole
<1> QED BY <1>11 DEF u, t

-----------------------------------------------------------------------------
(* What subcommands leave is a repository.                                 *)

(***************************************************************************)
(* A repository with one more commit.                                      *)
(***************************************************************************)
OneMore(r, n) ==
  /\ Sound(n)
  /\ Ids(r) \subseteq Ids(n) /\ Newest(n) \in Ids(n)
  /\ n.heads = r.heads /\ n.tags = r.tags /\ n.stash = r.stash
  /\ n.on = r.on /\ n.at = r.at

(***************************************************************************)
(* A commit has the second of the latest one or a later one.               *)
(***************************************************************************)
LEMMA NewSecond ==
  ASSUME NEW r, Sound(r), NEW parents, NEW n \in New(r, parents)
  PROVE  \E t \in Nat :
           n = [r EXCEPT !.commits = Append(@, [parents |-> parents, at |-> t])]
<1>1. CASE r.commits = <<>>
  BY <1>1 DEF New
<1>2. CASE r.commits # <<>>
  <2>1. Len(r.commits) \in Nat /\ Len(r.commits) # 0
    <3>1. r.commits \in Seq([parents : Seq(Nat), at : Nat])
      BY DEF Sound, Repositories
    <3> QED BY <1>2, <3>1, EmptySeq
  <2>2. r.commits[Len(r.commits)] \in [parents : Seq(Nat), at : Nat]
    BY <2>1, SoundCommits
  <2>3. Last(r.commits).at \in Nat
    BY <2>2 DEF Last
  <2> DEFINE at == Last(r.commits).at
             With(t) == [r EXCEPT !.commits = Append(@, [parents |-> parents, at |-> t])]
  <2>4. n \in {With(t) : t \in {at, at + 1}}
    BY <1>2 DEF New
  <2> HIDE DEF With, at
  <2>5. n = With(at) \/ n = With(at + 1)
    BY <2>4
  <2>6. at \in Nat /\ at + 1 \in Nat
    BY <2>3 DEF at
  <2>7. \E t \in Nat : n = With(t)
    BY <2>5, <2>6
  <2> QED BY <2>7 DEF With
<1> QED BY <1>1, <1>2

(***************************************************************************)
(* A new commit leaves the refs alone, and is the newest.                  *)
(***************************************************************************)
LEMMA NewSound ==
  ASSUME NEW r, Sound(r), NEW parents \in Seq(Ids(r)), NEW n \in New(r, parents)
  PROVE  OneMore(r, n)
<1> DEFINE S == [parents : Seq(Nat), at : Nat]
           N == Len(r.commits)
           Rec(t) == [parents |-> parents, at |-> t]
<1>1. PICK t \in Nat : n = [r EXCEPT !.commits = Append(@, Rec(t))]
  BY NewSecond
<1>2. /\ n.commits = Append(r.commits, Rec(t))
      /\ n.heads = r.heads /\ n.tags = r.tags /\ n.stash = r.stash
      /\ n.on = r.on /\ n.at = r.at
      /\ Whole(n)
  <2> HIDE DEF Rec
  <2> QED BY <1>1 DEF Sound, Repositories, Whole
<1>3. /\ N \in Nat /\ Ids(r) = 1..N
      /\ \A c \in Ids(r) : \A p \in Range(r.commits[c].parents) : p \in 1..(c - 1)
  BY SoundCommits DEF Sound
<1>4. Rec(t) \in S
  <2>1. parents \in Seq(Nat)
    <3>1. Ids(r) \subseteq Nat
      BY <1>3
    <3> QED BY <3>1, SeqMonotonic
  <2> QED BY <2>1
<1>5. /\ n.commits \in Seq(S)
      /\ Len(n.commits) = N + 1
      /\ \A c \in 1..N : n.commits[c] = r.commits[c]
      /\ n.commits[N + 1] = Rec(t)
  <2>1. r.commits \in Seq(S)
    BY DEF Sound, Repositories
  <2> HIDE DEF S, Rec
  <2> QED BY <1>2, <1>4, <2>1, AppendProperties
<1>6. Ids(n) = 1..(N + 1)
  <2> HIDE DEF S
  <2> QED BY <1>3, <1>5, LenProperties DEF Ids
<1>7. \A c \in Ids(n) : \A p \in Range(n.commits[c].parents) : p \in 1..(c - 1)
  <2>1. \A p \in Range(parents) : p \in 1..N
    BY <1>3, RangeOfSeq
  <2>2. n.commits[N + 1].parents = parents
    BY <1>5
  <2>3. \A c \in Ids(n) : c \in 1..N \/ c = N + 1
    BY <1>3, <1>6
  <2>4. (N + 1) - 1 = N
    BY <1>3
  <2> HIDE DEF S, Rec
  <2> QED BY <1>3, <1>5, <2>1, <2>2, <2>3, <2>4
<1>8. Ids(r) \subseteq Ids(n) /\ Newest(n) \in Ids(n)
  BY <1>3, <1>5, <1>6 DEF Newest
<1>9. n \in Repositories
  BY <1>2, <1>5, WholeTyped DEF Sound, Repositories
<1>10. Sound(n)
  BY <1>2, <1>7, <1>8, <1>9 DEF Sound
<1> QED BY <1>2, <1>8, <1>10 DEF OneMore

(***************************************************************************)
(* Moving HEAD, or its branch, to a commit.                                *)
(***************************************************************************)
LEMMA MovedSound ==
  ASSUME NEW r, Sound(r), NEW id \in Ids(r)
  PROVE  Sound(Moved(r, id)) /\ Moved(r, id).commits = r.commits
<1>1. id \in Nat
  BY SoundCommits
<1>2. CASE r.on = None
  <2> DEFINE m == [r EXCEPT !.at = id]
  <2>1. /\ m.commits = r.commits /\ m.heads = r.heads /\ m.tags = r.tags
        /\ m.stash = r.stash /\ m.on = r.on /\ m.at = id
        /\ m \in Repositories
    BY <1>1 DEF Sound, Repositories
  <2>2. Sound(m)
    BY <1>2, <2>1 DEF Sound, Ids
  <2> QED BY <1>2, <2>1, <2>2 DEF Moved
<1>3. CASE r.on # None
  <2> DEFINE heads == Put(r.heads, r.on, id)
             m == [r EXCEPT !.heads = heads]
  <2>1. /\ DOMAIN r.heads \in FiniteSubsetsOf(Names) /\ r.heads \in [DOMAIN r.heads -> Ids(r)]
        /\ r.on \in Names
    BY <1>3, SoundFields
  <2>2. /\ heads \in [DOMAIN r.heads \cup {r.on} -> Ids(r)]
        /\ DOMAIN r.heads \cup {r.on} \in FiniteSubsetsOf(Names)
    BY <2>1, FewRefs DEF Put
  <2>3. heads \in [DOMAIN r.heads \cup {r.on} -> Nat]
    BY <2>2, SoundCommits
  <2> HIDE DEF heads
  <2>4. /\ m.commits = r.commits /\ m.heads = heads /\ m.tags = r.tags
        /\ m.stash = r.stash /\ m.on = r.on /\ m.at = r.at
        /\ Whole(m)
    BY DEF Sound, Repositories, Whole
  <2>5. m \in Repositories
    <3>1. heads \in UNION {[D -> Nat] : D \in FiniteSubsetsOf(Names)}
      BY <2>2, <2>3
    <3> QED BY <2>4, <3>1, WholeTyped DEF Sound, Repositories
  <2>6. Sound(m)
    BY <2>2, <2>4, <2>5 DEF Sound, Ids
  <2> QED BY <1>3, <2>4, <2>6 DEF Moved, heads
<1> QED BY <1>2, <1>3

(***************************************************************************)
(* Switching to a branch, or to a commit.                                  *)
(***************************************************************************)
LEMMA SwitchSound ==
  ASSUME NEW r, Sound(r)
  PROVE  /\ \A b \in Names : /\ Sound(OnBranch(r, b)) /\ OnBranch(r, b).on = b
                             /\ OnBranch(r, b).commits = r.commits
         /\ \A c \in Ids(r) : LET d == DetachedAt(r, c)
                              IN  /\ Sound(d) /\ d.on = None /\ d.at = c
                                  /\ d.commits = r.commits /\ d.heads = r.heads
<1>1. ASSUME NEW b \in Names
      PROVE  /\ Sound(OnBranch(r, b)) /\ OnBranch(r, b).on = b
             /\ OnBranch(r, b).commits = r.commits
  <2> DEFINE m == [r EXCEPT !.on = b, !.at = 0]
  <2>1. /\ m.commits = r.commits /\ m.heads = r.heads /\ m.tags = r.tags
        /\ m.stash = r.stash /\ m.on = b /\ m.at = 0
        /\ m \in Repositories
    BY DEF Sound, Repositories
  <2>2. Sound(m)
    BY <2>1 DEF Sound, Ids
  <2> QED BY <2>1, <2>2 DEF OnBranch
<1>2. ASSUME NEW c \in Ids(r)
      PROVE  LET d == DetachedAt(r, c)
             IN  /\ Sound(d) /\ d.on = None /\ d.at = c
                 /\ d.commits = r.commits /\ d.heads = r.heads
  <2> DEFINE m == [r EXCEPT !.on = None, !.at = c]
  <2>1. c \in Nat
    BY SoundCommits
  <2>2. /\ m.commits = r.commits /\ m.heads = r.heads /\ m.tags = r.tags
        /\ m.stash = r.stash /\ m.on = None /\ m.at = c
        /\ m \in Repositories
    BY <2>1 DEF Sound, Repositories
  <2>3. Sound(m)
    BY <2>2 DEF Sound, Ids
  <2> QED BY <2>2, <2>3 DEF DetachedAt
<1> QED BY <1>1, <1>2

(***************************************************************************)
(* A new commit to which HEAD moves.                                       *)
(***************************************************************************)
LEMMA MadeSound ==
  ASSUME NEW r, Sound(r), NEW parents \in Seq(Ids(r)), NEW n \in New(r, parents)
  PROVE  Sound(Moved(n, Newest(n)))
<1>1. OneMore(r, n)
  BY NewSound
<1>2. Sound(n) /\ Newest(n) \in Ids(n)
  BY <1>1 DEF OneMore
<1> QED BY <1>2, MovedSound

(***************************************************************************)
(* git commit, with and without --amend.                                   *)
(***************************************************************************)
LEMMA CommitsSound ==
  ASSUME NEW r, Sound(r), NEW e \in Commits(r) \cup Amends(r)
  PROVE  Sound(e)
<1>1. CASE e \in Commits(r)
  <2> DEFINE P == IF Tip(r) = 0 THEN {<<>>}
                  ELSE {<<Tip(r)>>} \cup {<<Tip(r), c>> : c \in Others(r)}
  <2>1. PICK p \in P : \E n \in New(r, p) : e = Moved(n, Newest(n))
    BY <1>1 DEF Commits
  <2>2. p \in Seq(Ids(r))
    <3>1. Others(r) \subseteq Ids(r)
      BY DEF Others
    <3>2. CASE Tip(r) = 0
      BY <3>2
    <3>3. CASE Tip(r) # 0
      <4>1. Tip(r) \in Ids(r)
        BY <3>3, TipIn
      <4>2. p = <<Tip(r)>> \/ \E c \in Others(r) : p = <<Tip(r), c>>
        BY <3>3
      <4>3. <<Tip(r)>> \in Seq(Ids(r)) /\ \A c \in Others(r) : <<Tip(r), c>> \in Seq(Ids(r))
        BY <3>1, <4>1
      <4> HIDE DEF P
      <4> QED BY <4>2, <4>3
    <3> QED BY <3>2, <3>3
  <2> QED BY <2>1, <2>2, MadeSound
<1>2. CASE e \in Amends(r)
  <2> DEFINE p == r.commits[Tip(r)].parents
  <2>1. Tip(r) # 0 /\ \E n \in New(r, p) : e = Moved(n, Newest(n))
    BY <1>2 DEF Amends
  <2>2. Tip(r) \in Ids(r)
    BY <2>1, TipIn
  <2>3. p \in Seq(Ids(r))
    <3>1. p \in Seq(Nat) /\ Range(p) \subseteq Ids(r)
      BY <2>2, SoundCommits
    <3> HIDE DEF p
    <3> QED BY <3>1, SeqOfRange, SeqMonotonic
  <2> QED BY <2>1, <2>3, MadeSound
<1> QED BY <1>1, <1>2

(***************************************************************************)
(* git branch and git tag.                                                 *)
(***************************************************************************)
LEMMA RefsSound ==
  ASSUME NEW r, Sound(r), Tip(r) # 0, NEW e \in Branchings(r) \cup Taggings(r)
  PROVE  Sound(e)
<1>1. Tip(r) \in Ids(r) /\ Ids(r) \subseteq Nat
  BY TipIn, SoundCommits
<1>2. /\ DOMAIN r.heads \in FiniteSubsetsOf(Names) /\ r.heads \in [DOMAIN r.heads -> Ids(r)]
      /\ DOMAIN r.tags \in FiniteSubsetsOf(Tags) /\ r.tags \in [DOMAIN r.tags -> Ids(r)]
  BY SoundFields
<1>3. ASSUME NEW D \in FiniteSubsetsOf(Names), NEW heads \in [D -> Ids(r)]
      PROVE  Sound([r EXCEPT !.heads = heads])
  <2> DEFINE m == [r EXCEPT !.heads = heads]
  <2>1. /\ m.commits = r.commits /\ m.heads = heads /\ m.tags = r.tags
        /\ m.stash = r.stash /\ m.on = r.on /\ m.at = r.at /\ Whole(m)
    BY DEF Sound, Repositories, Whole
  <2>2. heads \in [D -> Nat]
    BY <1>1
  <2>3. m \in Repositories
    BY <2>1, <2>2, WholeTyped DEF Sound, Repositories
  <2> QED BY <2>1, <2>3 DEF Sound, Ids
<1>4. ASSUME NEW D \in FiniteSubsetsOf(Tags), NEW tags \in [D -> Ids(r)]
      PROVE  Sound([r EXCEPT !.tags = tags])
  <2> DEFINE m == [r EXCEPT !.tags = tags]
  <2>1. /\ m.commits = r.commits /\ m.heads = r.heads /\ m.tags = tags
        /\ m.stash = r.stash /\ m.on = r.on /\ m.at = r.at /\ Whole(m)
    BY DEF Sound, Repositories, Whole
  <2>2. tags \in [D -> Nat]
    BY <1>1
  <2>3. m \in Repositories
    BY <2>1, <2>2, WholeTyped DEF Sound, Repositories
  <2> QED BY <2>1, <2>3 DEF Sound, Ids
<1>5. CASE e \in Branchings(r)
  <2>1. CASE \E b \in Branches : e = [r EXCEPT !.heads = Put(@, b, Tip(r))]
    <3>1. PICK b \in Branches : e = [r EXCEPT !.heads = Put(r.heads, b, Tip(r))]
      BY <2>1
    <3>2. Put(r.heads, b, Tip(r)) \in [DOMAIN r.heads \cup {b} -> Ids(r)]
      BY <1>1, <1>2 DEF Put
    <3>3. DOMAIN r.heads \cup {b} \in FiniteSubsetsOf(Names)
      BY <1>2, FewRefs DEF Names
    <3> QED BY <1>3, <3>1, <3>2, <3>3
  <2>2. CASE \E gone \in DOMAIN r.heads :
               e = [r EXCEPT !.heads = [b \in DOMAIN @ \ {gone} |-> @[b]]]
    <3>1. PICK gone \in DOMAIN r.heads :
            e = [r EXCEPT !.heads = [b \in DOMAIN r.heads \ {gone} |-> r.heads[b]]]
      BY <2>2
    <3>2. [b \in DOMAIN r.heads \ {gone} |-> r.heads[b]] \in [DOMAIN r.heads \ {gone} -> Ids(r)]
      BY <1>2
    <3>3. DOMAIN r.heads \ {gone} \in FiniteSubsetsOf(Names)
      BY <1>2, FewRefs
    <3> QED BY <1>3, <3>1, <3>2, <3>3
  <2> QED BY <1>5, <2>1, <2>2 DEF Branchings
<1>6. CASE e \in Taggings(r)
  <2>1. CASE \E t \in Tags : e = [r EXCEPT !.tags = Put(@, t, Tip(r))]
    <3>1. PICK t \in Tags : e = [r EXCEPT !.tags = Put(r.tags, t, Tip(r))]
      BY <2>1
    <3>2. Put(r.tags, t, Tip(r)) \in [DOMAIN r.tags \cup {t} -> Ids(r)]
      BY <1>1, <1>2 DEF Put
    <3>3. DOMAIN r.tags \cup {t} \in FiniteSubsetsOf(Tags)
      BY <1>2, FewRefs
    <3> QED BY <1>4, <3>1, <3>2, <3>3
  <2>2. CASE \E gone \in DOMAIN r.tags :
               e = [r EXCEPT !.tags = [t \in DOMAIN @ \ {gone} |-> @[t]]]
    <3>1. PICK gone \in DOMAIN r.tags :
            e = [r EXCEPT !.tags = [t \in DOMAIN r.tags \ {gone} |-> r.tags[t]]]
      BY <2>2
    <3>2. [t \in DOMAIN r.tags \ {gone} |-> r.tags[t]] \in [DOMAIN r.tags \ {gone} -> Ids(r)]
      BY <1>2
    <3>3. DOMAIN r.tags \ {gone} \in FiniteSubsetsOf(Tags)
      BY <1>2, FewRefs
    <3> QED BY <1>4, <3>1, <3>2, <3>3
  <2> QED BY <1>6, <2>1, <2>2 DEF Taggings
<1> QED BY <1>5, <1>6

(***************************************************************************)
(* git checkout, switch, reset and merge.                                  *)
(***************************************************************************)
LEMMA MovesSound ==
  ASSUME NEW r, Sound(r), NEW e,
         (Tip(r) # 0 /\ e \in Switches(r)) \/ e \in Resets(r) \/ e \in Merges(r)
  PROVE  Sound(e)
<1>1. DOMAIN r.heads \subseteq Names /\ Branches \subseteq Names /\ Others(r) \subseteq Ids(r)
  BY SoundFields, FewRefs DEF Names, Others
<1>2. CASE Tip(r) # 0 /\ e \in Switches(r)
  <2>1. CASE (\E b \in DOMAIN r.heads : e = OnBranch(r, b)) \/ \E c \in Ids(r) : e = DetachedAt(r, c)
    BY <1>1, <2>1, SwitchSound
  <2>2. CASE \E b \in Branches : e = Moved(OnBranch(r, b), Tip(r))
    <3>1. PICK b \in Names : e = Moved(OnBranch(r, b), Tip(r))
      BY <1>1, <2>2
    <3>2. Sound(OnBranch(r, b)) /\ Ids(OnBranch(r, b)) = Ids(r)
      BY SwitchSound DEF Ids
    <3>3. Tip(r) \in Ids(r)
      BY <1>2, TipIn
    <3> QED BY <3>1, <3>2, <3>3, MovedSound
  <2> QED BY <1>2, <2>1, <2>2 DEF Switches
<1>3. CASE e \in Resets(r)
  BY <1>3, MovedSound DEF Resets
<1>4. CASE e \in Merges(r)
  <2>1. Tip(r) \in Ids(r)
    BY <1>4, TipIn DEF Merges
  <2>2. CASE \E c \in Others(r) : e = Moved(r, c)
    BY <1>1, <2>2, MovedSound
  <2>3. CASE \E c \in Others(r) : \E n \in New(r, <<Tip(r), c>>) : e = Moved(n, Newest(n))
    <3>1. PICK c \in Others(r) : \E n \in New(r, <<Tip(r), c>>) : e = Moved(n, Newest(n))
      BY <2>3
    <3>2. <<Tip(r), c>> \in Seq(Ids(r))
      BY <1>1, <2>1
    <3> QED BY <3>1, <3>2, MadeSound
  <2> QED BY <1>4, <2>1, <2>2, <2>3 DEF Merges
<1> QED BY <1>2, <1>3, <1>4

(***************************************************************************)
(* git stash.                                                              *)
(***************************************************************************)
LEMMA StashesSound ==
  ASSUME NEW r, Sound(r), NEW e \in Stashes(r)
  PROVE  Sound(e)
<1>1. ASSUME NEW s, Sound(s), NEW id \in Ids(s) \cup {0}
      PROVE  Sound([s EXCEPT !.stash = id])
  <2> DEFINE m == [s EXCEPT !.stash = id]
  <2>1. id \in Nat
    BY <1>1, SoundCommits
  <2>2. /\ m.commits = s.commits /\ m.heads = s.heads /\ m.tags = s.tags
        /\ m.stash = id /\ m.on = s.on /\ m.at = s.at /\ m \in Repositories
    BY <1>1, <2>1 DEF Sound, Repositories
  <2> QED BY <1>1, <2>2 DEF Sound, Ids
<1>2. CASE r.stash # 0
  BY <1>1, <1>2 DEF Stashes
<1>3. CASE r.stash = 0
  <2>1. PICK i \in New(r, <<Tip(r)>>) : \E n \in New(i, <<Tip(r), Newest(i)>>) :
          Tip(r) # 0 /\ e = [n EXCEPT !.stash = Newest(n)]
    BY <1>3 DEF Stashes
  <2>2. PICK n \in New(i, <<Tip(r), Newest(i)>>) : e = [n EXCEPT !.stash = Newest(n)]
    BY <2>1
  <2>3. Tip(r) \in Ids(r)
    BY <2>1, TipIn
  <2>4. OneMore(r, i)
    <3>1. <<Tip(r)>> \in Seq(Ids(r))
      BY <2>3
    <3> QED BY <3>1, NewSound
  <2>5. OneMore(i, n)
    <3>1. <<Tip(r), Newest(i)>> \in Seq(Ids(i))
      BY <2>3, <2>4 DEF OneMore
    <3> QED BY <2>4, <3>1, NewSound DEF OneMore
  <2>6. Sound(n) /\ Newest(n) \in Ids(n) \cup {0}
    BY <2>5 DEF OneMore
  <2> QED BY <1>1, <2>2, <2>6
<1> QED BY <1>2, <1>3

(***************************************************************************)
(* A replay: HEAD is detached at a commit from its start to its end.       *)
(***************************************************************************)
LEMMA ReplayedBySteps ==
  ASSUME NEW r, NEW count \in Nat
  PROVE  \E after :
           /\ Replayed(r, count) = after[count]
           /\ after[0] = {r}
           /\ \A n \in 1..count : after[n] = UNION {Picked(s) : s \in after[n - 1]}
<1> DEFINE Start == {r}
           Step(S) == UNION {Picked(s) : s \in S}
           Def(f, n) == f = [k \in 0..n |-> IF k = 0 THEN Start ELSE Step(f[k - 1])]
           T == {n \in 0..count : \E f : Def(f, n)}
<1>1. 0 \in T
  <2>1. Def([k \in 0..0 |-> Start], 0)
    OBVIOUS
  <2> HIDE DEF Def
  <2> QED BY <2>1
<1>2. ASSUME NEW n \in 1..count, n - 1 \in T PROVE n \in T
  <2>1. PICK f : Def(f, n - 1)
    BY <1>2
  <2> HIDE DEF Step, Start
  <2> DEFINE g == [k \in 0..n |-> IF k = 0 THEN Start ELSE Step(f[k - 1])]
  <2>2. \A k \in 0..(n - 1) : g[k] = f[k]
    BY <2>1
  <2>3. \A k \in 0..n : k # 0 => Step(f[k - 1]) = Step(g[k - 1])
    <3> HIDE DEF g
    <3> QED BY <2>2
  <2>4. Def(g, n)
    BY <2>3
  <2> HIDE DEF Def, g
  <2> QED BY <2>4
<1>3. count \in T
  <2> HIDE DEF T
  <2>1. \A n \in 0..count : n \in T
    BY <1>1, <1>2, UpTo
  <2> QED BY <2>1
<1>4. PICK f : Def(f, count)
  BY <1>3
<1> DEFINE after == CHOOSE g : Def(g, count)
<1>5. Def(after, count)
  BY <1>4
<1>6. Replayed(r, count) = after[count]
  BY DEF Replayed
<1> HIDE DEF after
<1>7. after[0] = Start /\ \A n \in 1..count : after[n] = Step(after[n - 1])
  <2> HIDE DEF Start, Step
  <2> QED BY <1>5
<1> QED BY <1>6, <1>7

Detached(s) == Sound(s) /\ s.on = None /\ s.at \in Ids(s)

(***************************************************************************)
(* One copy of a rebase, onto a detached HEAD.                             *)
(***************************************************************************)
LEMMA PickedSound ==
  ASSUME NEW s, Detached(s), NEW e \in Picked(s)
  PROVE  Detached(e)
<1>1. Sound(s) /\ Tip(s) \in Ids(s)
  BY DEF Detached, Tip
<1>2. PICK n \in New(s, <<Tip(s)>>) : e = DetachedAt(n, Newest(n))
  BY DEF Picked
<1>3. OneMore(s, n)
  <2>1. <<Tip(s)>> \in Seq(Ids(s))
    BY <1>1
  <2> QED BY <1>1, <2>1, NewSound
<1>4. Sound(n) /\ Newest(n) \in Ids(n)
  BY <1>3 DEF OneMore
<1>5. Sound(e) /\ e.on = None /\ e.at = Newest(n) /\ e.commits = n.commits
  BY <1>2, <1>4, SwitchSound
<1> QED BY <1>4, <1>5 DEF Detached, Ids

(***************************************************************************)
(* Any number of copies.                                                   *)
(***************************************************************************)
LEMMA ReplayedSound ==
  ASSUME NEW r, Detached(r), NEW count \in Nat, NEW e \in Replayed(r, count)
  PROVE  Detached(e)
<1>1. PICK after : /\ Replayed(r, count) = after[count]
                   /\ after[0] = {r}
                   /\ \A n \in 1..count : after[n] = UNION {Picked(s) : s \in after[n - 1]}
  BY ReplayedBySteps
<1> DEFINE T == {n \in 0..count : \A s \in after[n] : Detached(s)}
<1>2. 0 \in T
  BY <1>1
<1>3. ASSUME NEW n \in 1..count, n - 1 \in T PROVE n \in T
  <2>1. \A s \in after[n - 1] : Detached(s)
    BY <1>3
  <2>2. \A x \in after[n] : \E s \in after[n - 1] : x \in Picked(s)
    BY <1>1
  <2>3. \A x \in after[n] : Detached(x)
    BY <2>1, <2>2, PickedSound
  <2> QED BY <2>3
<1>4. \A n \in 0..count : n \in T
  <2> HIDE DEF T
  <2> QED BY <1>2, <1>3, UpTo
<1> QED BY <1>1, <1>4

(***************************************************************************)
(* The end of a rebase.                                                    *)
(***************************************************************************)
LEMMA LandedSound ==
  ASSUME NEW s, Detached(s), NEW b \in Names \cup {None}
  PROVE  Sound(Landed(s, b))
<1>1. CASE b = None
  BY <1>1 DEF Landed, Detached
<1>2. CASE b # None
  <2>1. Sound(OnBranch(s, b)) /\ s.at \in Ids(OnBranch(s, b))
    BY <1>2, SwitchSound DEF Detached, Ids
  <2> QED BY <1>2, <2>1, MovedSound DEF Landed
<1> QED BY <1>1, <1>2

(***************************************************************************)
(* A rebase has a number of commits to copy.                               *)
(***************************************************************************)
LEMMA TodoFinite ==
  ASSUME NEW r, Sound(r), NEW from \in Ids(r) \cup {0}, NEW onto
  PROVE  Cardinality(Todo(r, from, onto)) \in Nat
<1>1. Ancestors(r, {from}) \subseteq Ids(r)
  <2>1. {from} \ {0} \subseteq Ids(r)
    OBVIOUS
  <2> QED BY <2>1, AncestorsClosed
<1>2. IsFiniteSet(Ids(r))
  BY SoundCommits, FS_Interval
<1>3. Todo(r, from, onto) \in SUBSET Ids(r)
  BY <1>1 DEF Todo
<1> QED BY <1>2, <1>3, FS_Subset, FS_CardinalityType

(***************************************************************************)
(* git rebase, begun, resumed or given up.                                 *)
(***************************************************************************)
LEMMA RebasesSound ==
  ASSUME NEW r, Sound(r), ~ (r.on = None /\ r.at = 0),
         NEW e \in Rebases(r) \cup RebaseStops(r)
  PROVE  Sound(e)
<1>1. DOMAIN r.heads \subseteq Names /\ r.on \in Names \cup {None}
  BY SoundFields, FewRefs
<1>2. \A onto \in Others(r) : Detached(DetachedAt(r, onto))
  <2>1. Others(r) \subseteq Ids(r)
    BY DEF Others
  <2> QED BY <2>1, SwitchSound DEF Detached, Ids
<1>3. CASE e \in RebaseStops(r)
  <2>1. PICK onto \in Others(r) :
          \E count \in 0..(Cardinality(Todo(r, Tip(r), onto)) - 1) :
            e \in Replayed(DetachedAt(r, onto), count)
    BY <1>3 DEF RebaseStops
  <2>2. PICK count \in Nat : e \in Replayed(DetachedAt(r, onto), count)
    BY <2>1
  <2>3. Detached(e)
    BY <1>2, <2>2, ReplayedSound
  <2> QED BY <2>3 DEF Detached
<1>4. CASE e \in Resumed(r)
  <2>1. PICK b \in DOMAIN r.heads :
          r.on = None /\
          \/ e = OnBranch(r, b)
          \/ \E count \in 0..Cardinality(Todo(r, r.heads[b], r.at)) :
               \E n \in Replayed(r, count) : e = Landed(n, b)
    BY <1>4 DEF Resumed
  <2>2. CASE e = OnBranch(r, b)
    BY <1>1, <2>2, SwitchSound
  <2>3. CASE \E count \in 0..Cardinality(Todo(r, r.heads[b], r.at)) :
               \E n \in Replayed(r, count) : e = Landed(n, b)
    <3>1. PICK count \in Nat : \E n \in Replayed(r, count) : e = Landed(n, b)
      BY <2>3
    <3>2. Detached(r)
      BY <2>1 DEF Detached, Sound
    <3> QED BY <1>1, <3>1, <3>2, ReplayedSound, LandedSound
  <2> QED BY <2>1, <2>2, <2>3
<1>5. CASE \E onto \in Others(r) :
             \E n \in Replayed(DetachedAt(r, onto), Cardinality(Todo(r, Tip(r), onto))) :
               e = Landed(n, r.on)
  <2>1. PICK onto \in Others(r) :
          \E n \in Replayed(DetachedAt(r, onto), Cardinality(Todo(r, Tip(r), onto))) :
            e = Landed(n, r.on)
    BY <1>5
  <2>2. Cardinality(Todo(r, Tip(r), onto)) \in Nat
    BY TipIn, TodoFinite
  <2> QED BY <1>1, <1>2, <2>1, <2>2, ReplayedSound, LandedSound
<1>6. CASE e \in Rebases(r)
  <2> DEFINE L(onto) == {Landed(n, r.on) :
               n \in Replayed(DetachedAt(r, onto), Cardinality(Todo(r, Tip(r), onto)))}
  <2>1. e \in UNION {L(onto) : onto \in Others(r)} \/ e \in Resumed(r)
    BY <1>6 DEF Rebases
  <2>2. \A onto \in Others(r) : e \in L(onto) => Sound(e)
    BY <1>5
  <2> HIDE DEF L
  <2> QED BY <1>4, <2>1, <2>2
<1> QED BY <1>3, <1>6

(***************************************************************************)
(* Whatever a subcommand does, and however it ends.                        *)
(***************************************************************************)
LEMMA EndsSound ==
  ASSUME NEW r, Sound(r), NEW sub, NEW e \in Done(sub, r) \cup Stopped(sub, r)
  PROVE  Sound(e)
<1>1. CASE e \in Done(sub, r)
  <2>1. CASE r.on = None /\ r.at = 0
    <3>1. e = OnBranch(r, Main)
      BY <1>1, <2>1 DEF Done
    <3> QED BY <3>1, SwitchSound DEF Names
  <2>2. CASE ~ (r.on = None /\ r.at = 0)
    <3>1. \/ e \in Commits(r) \cup Amends(r)
          \/ Tip(r) # 0 /\ e \in Branchings(r) \cup Taggings(r)
          \/ Tip(r) # 0 /\ e \in Switches(r)
          \/ e \in Resets(r) \/ e \in Merges(r) \/ e \in Stashes(r)
          \/ e \in Rebases(r)
          \/ e = r
      BY <1>1, <2>2 DEF Done
    <3> QED BY <2>2, <3>1, CommitsSound, RefsSound, MovesSound, StashesSound, RebasesSound
  <2> QED BY <2>1, <2>2
<1>2. CASE e \in Stopped(sub, r)
  <2>1. e = r \/ (Tip(r) # 0 /\ e \in RebaseStops(r))
    BY <1>2 DEF Stopped
  <2>2. Tip(r) # 0 => ~ (r.on = None /\ r.at = 0)
    BY DEF Tip
  <2> QED BY <2>1, <2>2, RebasesSound
<1> QED BY <1>1, <1>2

-----------------------------------------------------------------------------
(* The executor.                                                           *)

(***************************************************************************)
(* The repository of the executor: it has what its refs show, numbered     *)
(* from 1, so that nothing is left to be tidied.                           *)
(***************************************************************************)
Tidied(r) == Sound(r) /\ Tidy(r) = r

(***************************************************************************)
(* Whatever a command has left is tidied.                                  *)
(***************************************************************************)
LEMMA TidyTidied ==
  ASSUME NEW r, Sound(r)
  PROVE  Tidied(Tidy(r))
BY TidySound, TidyTwice DEF Tidied

(***************************************************************************)
(* There is one function with an empty domain, the empty sequence.         *)
(***************************************************************************)
LEMMA NoEntries ==
  ASSUME NEW S
  PROVE  /\ <<>> \in [{} -> S] /\ DOMAIN <<>> = {}
         /\ \A f \in [{} -> S] : f = <<>>
<1>1. <<>> \in Seq(S) /\ Len(<<>>) = 0
  BY EmptySeq
<1>2. <<>> \in [1..0 -> S]
  BY <1>1, LenProperties
<1>3. 1..0 = {}
  OBVIOUS
<1>4. <<>> \in [{} -> S]
  BY <1>2, <1>3
<1>5. \A f, g \in [{} -> S] : f = g
  OBVIOUS
<1> QED BY <1>4, <1>5

(***************************************************************************)
(* A directory without repository has nothing to be tidied.                *)
(***************************************************************************)
LEMMA BeforeTidied == Tidied(Before)
<1> DEFINE S == [parents : Seq(Nat), at : Nat]
<1>1. /\ Before.commits = <<>> /\ Before.heads = <<>> /\ Before.tags = <<>>
      /\ Before.stash = 0 /\ Before.on = None /\ Before.at = 0 /\ Whole(Before)
  BY DEF Before, Whole
<1>2. DOMAIN <<>> = {}
  BY NoEntries
<1>3. Ids(Before) = {}
  BY <1>1, <1>2 DEF Ids
<1>4. Sound(Before)
  <2>1. <<>> \in Seq(S)
    BY EmptySeq
  <2>2. /\ <<>> \in UNION {[D -> Nat] : D \in FiniteSubsetsOf(Names)}
        /\ <<>> \in UNION {[D -> Nat] : D \in FiniteSubsetsOf(Tags)}
    <3>1. <<>> \in [{} -> Nat]
      BY NoEntries
    <3> QED BY <3>1, FewRefs
  <2>3. Before \in Repositories
    <3>1. Before.on \in Names \cup {None} /\ 0 \in Nat
      BY <1>1
    <3> QED BY <1>1, <2>1, <2>2, <3>1, WholeTyped
  <2> QED BY <1>1, <1>2, <1>3, <2>3 DEF Sound
<1> DEFINE shown == Visible(Before)
           t == Tidy(Before)
<1>5. shown = {} /\ Cardinality(shown) = 0
  BY <1>3, <1>4, Shown, FS_EmptySet
<1>6. /\ t.commits \in [1..Cardinality(shown) -> S]
      /\ t.heads = [b \in DOMAIN Before.heads |-> Place(shown, Before.heads[b])]
      /\ t.tags = [g \in DOMAIN Before.tags |-> Place(shown, Before.tags[g])]
      /\ t.stash = Place(shown, Before.stash)
      /\ t.at = Place(shown, Before.at)
      /\ t.on = Before.on
      /\ Whole(t)
  BY <1>4, TidyParts
<1>7. Place(shown, 0) = 0
  BY <1>4, Shown, Places
<1> HIDE DEF S, t, shown
<1>8. t.commits = <<>>
  <2>1. 1..Cardinality(shown) = {}
    BY <1>5
  <2>2. t.commits \in [{} -> S]
    BY <1>6, <2>1
  <2> QED BY <2>2, NoEntries
<1>9. t.heads = <<>> /\ t.tags = <<>>
  <2>1. t.heads \in [{} -> Nat] /\ t.tags \in [{} -> Nat]
    BY <1>1, <1>2, <1>6
  <2> QED BY <2>1, NoEntries
<1>10. t = Before
  BY <1>1, <1>6, <1>7, <1>8, <1>9, SameWhole
<1> QED BY <1>4, <1>10 DEF Tidied, t

(***************************************************************************)
(* A command that does not refresh the graph and answers with success      *)
(* leaves the repository as it was: only git show and the like are spared. *)
(***************************************************************************)
LEMMA ReadOnlyKeeps ==
  ASSUME NEW r, NEW sub \in ReadOnly, NEW e \in Done(sub, r)
  PROVE  e = r
BY DEF ReadOnly, Done

Current == Tidied(repo) /\ read \in {repo, None}

(***************************************************************************)
(* executor.run: the graph is read after every command that may have       *)
(* changed something, and the others changed nothing.                      *)
(***************************************************************************)
LEMMA RunCurrent ==
  ASSUME Current, NEW c \in Commands, run(c)
  PROVE  Current'
<1>1. Sound(repo) /\ Tidy(repo) = repo /\ read \in {repo, None}
  BY DEF Current, Tidied
<1>2. PICK end \in Ends(c.argv[2], repo) :
        /\ repo' = Tidy(end[1])
        /\ Answers(c.argv[2], end) \/ Raises(end)
  BY DEF run
<1> DEFINE sub == c.argv[2]
           e == end[1]
<1>3. (e \in Done(sub, repo) /\ end[2] = 0) \/ (e \in Stopped(sub, repo) /\ end[2] = 1)
  BY DEF Ends
<1>4. Sound(e)
  BY <1>1, <1>3, EndsSound
<1>5. Tidied(repo')
  BY <1>2, <1>4, TidyTidied
<1>6. e = repo => repo' = repo
  BY <1>1, <1>2
<1> HIDE DEF e, sub
<1>7. read' \in {repo', None}
  <2>1. CASE Raises(end)
    BY <1>1, <1>6, <2>1 DEF Raises, e
  <2>2. CASE Answers(sub, end) /\ Refreshes(sub, end[2])
    BY <2>2 DEF Answers, Snapshot
  <2>3. CASE Answers(sub, end) /\ ~ Refreshes(sub, end[2])
    <3>1. read' = IF end[2] # 0 /\ e # repo THEN None ELSE read
      BY <2>3 DEF Answers, e
    <3>2. end[2] = 0 => e = repo
      BY <1>3, <2>3, ReadOnlyKeeps DEF Refreshes
    <3> QED BY <1>1, <1>6, <3>1, <3>2
  <2> QED BY <1>2, <2>1, <2>2, <2>3 DEF sub
<1> QED BY <1>5, <1>7 DEF Current, Tidied, Sound, Ids

(***************************************************************************)
(* The screen shows the repository as it is now (or a fault was reported), *)
(* and the repository has what its refs show.                              *)
(***************************************************************************)
THEOREM CurrentAlways == Spec => []Current
<1>1. Init => Current
  BY BeforeTidied DEF Init, Current
<1>2. Current /\ [Next]_vars => Current'
  <2> SUFFICES ASSUME Current, [Next]_vars PROVE Current'
    OBVIOUS
  <2>1. CASE \E c \in Commands : run(c)
    BY <2>1, RunCurrent
  <2>2. CASE \E c \in Commands : Rejects(c)
    BY <2>2 DEF Rejects, vars, Current
  <2>3. CASE Joins
    BY <2>3 DEF Joins, Snapshot, Current
  <2>4. CASE UNCHANGED vars
    BY <2>4 DEF vars, Current
  <2> QED BY <2>1, <2>2, <2>3, <2>4 DEF Next
<1> QED BY <1>1, <1>2, PTL DEF Spec

(***************************************************************************)
(* executor.py:52, for any number of commits and refs: the graph on screen *)
(* was read from the repository as it is now.                              *)
(***************************************************************************)
THEOREM ScreenCurrent == Spec => []ScreenIsCurrent
<1>1. Current => ScreenIsCurrent
  BY DEF Current, ScreenIsCurrent
<1> QED BY <1>1, CurrentAlways, PTL

-----------------------------------------------------------------------------
(* git log: every commit once.                                             *)

(***************************************************************************)
(* A log is printed commit by commit.                                      *)
(***************************************************************************)
LEMMA WalksBySteps ==
  ASSUME NEW r, Len(r.commits) \in Nat
  PROVE  \E walks :
           /\ Logs(r) = walks[Len(r.commits)]
           /\ walks[0] = {<<>>}
           /\ \A n \in 1..Len(r.commits) :
                walks[n] = UNION {{Append(log, c) : c \in Latest(r, log)} : log \in walks[n - 1]}
<1> DEFINE N == Len(r.commits)
           Start == {<<>>}
           Step(S) == UNION {{Append(log, c) : c \in Latest(r, log)} : log \in S}
           Def(f, n) == f = [k \in 0..n |-> IF k = 0 THEN Start ELSE Step(f[k - 1])]
           T == {n \in 0..N : \E f : Def(f, n)}
<1>1. 0 \in T
  <2>1. Def([k \in 0..0 |-> Start], 0)
    OBVIOUS
  <2> HIDE DEF Def
  <2> QED BY <2>1
<1>2. ASSUME NEW n \in 1..N, n - 1 \in T PROVE n \in T
  <2>1. PICK f : Def(f, n - 1)
    BY <1>2
  <2> HIDE DEF Step, Start
  <2> DEFINE g == [k \in 0..n |-> IF k = 0 THEN Start ELSE Step(f[k - 1])]
  <2>2. \A k \in 0..(n - 1) : g[k] = f[k]
    BY <2>1
  <2>3. \A k \in 0..n : k # 0 => Step(f[k - 1]) = Step(g[k - 1])
    <3> HIDE DEF g
    <3> QED BY <2>2
  <2>4. Def(g, n)
    BY <2>3
  <2> HIDE DEF Def, g
  <2> QED BY <2>4
<1>3. N \in T
  <2> HIDE DEF T
  <2>1. \A n \in 0..N : n \in T
    BY <1>1, <1>2, UpTo
  <2> QED BY <2>1
<1>4. PICK f : Def(f, N)
  BY <1>3
<1> DEFINE walks == CHOOSE g : Def(g, N)
<1>5. Def(walks, N)
  BY <1>4
<1>6. Logs(r) = walks[N]
  BY DEF Logs
<1> HIDE DEF walks
<1>7. walks[0] = Start /\ \A n \in 1..N : walks[n] = Step(walks[n - 1])
  <2> HIDE DEF Start, Step
  <2> QED BY <1>5
<1> QED BY <1>6, <1>7

(***************************************************************************)
(* What has been printed of a log: commits of the repository, none twice.  *)
(***************************************************************************)
Printed(r, log, n) ==
  /\ log \in Seq(Ids(r)) /\ Len(log) = n
  /\ \A i, j \in 1..n : log[i] = log[j] => i = j

(***************************************************************************)
(* The next commit to be printed is one that was not printed.              *)
(***************************************************************************)
LEMMA PrintedMore ==
  ASSUME NEW r, Sound(r), NEW n \in Nat, NEW log, Printed(r, log, n), NEW c \in Latest(r, log)
  PROVE  Printed(r, Append(log, c), n + 1)
<1>1. c \in Ids(r) /\ c \notin Range(log)
  <2>1. c \in Tips(r) \cup Parents(r, Range(log)) /\ c \notin Range(log)
    BY DEF Latest
  <2>2. Range(log) \subseteq Ids(r)
    BY RangeOfSeq DEF Printed
  <2>3. Parents(r, Range(log)) \subseteq Ids(r)
    BY <2>2, SoundCommits, ParentIn
  <2>4. Tips(r) \subseteq Ids(r)
    BY Shown
  <2> QED BY <2>1, <2>3, <2>4
<1> DEFINE later == Append(log, c)
<1>2. /\ log \in Seq(Ids(r)) /\ Len(log) = n
      /\ \A i, j \in 1..n : log[i] = log[j] => i = j
  BY DEF Printed
<1>3. /\ later \in Seq(Ids(r)) /\ Len(later) = n + 1
      /\ \A i \in 1..n : later[i] = log[i]
      /\ later[n + 1] = c
  BY <1>1, <1>2, AppendProperties
<1>4. \A i \in 1..n : log[i] # c
  BY <1>1, <1>2, LenProperties DEF Range
<1> HIDE DEF later
<1>5. \A i \in 1..(n + 1) : i \in 1..n \/ i = n + 1
  OBVIOUS
<1>6. \A i, j \in 1..(n + 1) : later[i] = later[j] => i = j
  BY <1>2, <1>3, <1>4, <1>5
<1> QED BY <1>3, <1>6 DEF Printed, later

(***************************************************************************)
(* A whole log has as many commits as the repository, none twice.          *)
(***************************************************************************)
LEMMA LogPrinted ==
  ASSUME NEW r, Sound(r), NEW log \in Logs(r)
  PROVE  Printed(r, log, Len(r.commits))
<1> DEFINE N == Len(r.commits)
<1>1. N \in Nat
  BY SoundCommits
<1>2. PICK walks :
        /\ Logs(r) = walks[N]
        /\ walks[0] = {<<>>}
        /\ \A n \in 1..N :
             walks[n] = UNION {{Append(l, c) : c \in Latest(r, l)} : l \in walks[n - 1]}
  BY <1>1, WalksBySteps, ZenonT(30)
<1> DEFINE T == {n \in 0..N : \A l \in walks[n] : Printed(r, l, n)}
<1>3. 0 \in T
  <2>1. Printed(r, <<>>, 0)
    BY EmptySeq DEF Printed
  <2> QED BY <1>1, <1>2, <2>1
<1>4. ASSUME NEW n \in 1..N, n - 1 \in T PROVE n \in T
  <2>1. \A l \in walks[n - 1] : Printed(r, l, n - 1)
    BY <1>4
  <2>2. \A x \in walks[n] : \E l \in walks[n - 1] : \E c \in Latest(r, l) : x = Append(l, c)
    BY <1>2
  <2>3. n - 1 \in Nat /\ (n - 1) + 1 = n
    OBVIOUS
  <2>4. \A x \in walks[n] : Printed(r, x, n)
    <3> SUFFICES ASSUME NEW x \in walks[n] PROVE Printed(r, x, n)
      OBVIOUS
    <3>1. PICK l \in walks[n - 1] : \E c \in Latest(r, l) : x = Append(l, c)
      BY <2>2
    <3>2. PICK c \in Latest(r, l) : x = Append(l, c)
      BY <3>1
    <3>3. Printed(r, x, (n - 1) + 1)
      BY <2>1, <2>3, <3>2, PrintedMore
    <3> QED BY <2>3, <3>3
  <2> QED BY <2>4
<1>5. \A n \in 0..N : n \in T
  <2> HIDE DEF T
  <2> QED BY <1>1, <1>3, <1>4, UpTo
<1> QED BY <1>1, <1>2, <1>5

(***************************************************************************)
(* So it has them all.                                                     *)
(***************************************************************************)
LEMMA LogCovers ==
  ASSUME NEW r, Sound(r), NEW log, Printed(r, log, Len(r.commits))
  PROVE  log \in [Ids(r) -> Ids(r)] /\ \A c \in Ids(r) : \E i \in Ids(r) : log[i] = c
<1> DEFINE N == Len(r.commits)
           D == Ids(r)
<1>1. N \in Nat /\ D = 1..N /\ IsFiniteSet(D)
  BY SoundCommits, FS_Interval
<1>2. log \in [D -> D] /\ \A i, j \in D : log[i] = log[j] => i = j
  BY <1>1, LenProperties DEF Printed
<1> HIDE DEF D
<1>3. log \in Injection(D, D)
  BY <1>2, Zenon DEF Injection, IsInjective
<1>4. log \in Surjection(D, D)
  BY <1>1, <1>3, FS_Injection
<1> QED BY <1>2, <1>4 DEF Surjection, D

-----------------------------------------------------------------------------
(* The lines that git log prints, and the graph of them.                   *)

(***************************************************************************)
(* The first line of a commit has its fields; a second one is too short.   *)
(***************************************************************************)
Fielded(r, id, subject, line) ==
  /\ Len(line) \in Nat /\ Len(line) >= 4
  /\ line[1] = id /\ line[2] = r.commits[id].parents
  /\ line[3] = Decoration(r, id) /\ line[4] = subject.text
  /\ IF subject.cut THEN Len(line) = 4 ELSE Len(line) = 5 /\ line[5] = Author(id)

(***************************************************************************)
(* LinesOf is one line, with all fields, or two, the second of which is    *)
(* too short.                                                              *)
(***************************************************************************)
LEMMA LinesOfCommit ==
  ASSUME NEW r, NEW id, NEW subject
  PROVE  LET L == LinesOf(r, id, subject)
         IN  /\ Len(L) \in {1, 2}
             /\ L \in Seq({L[1], L[2]})
             /\ Fielded(r, id, subject, L[1])
             /\ Len(L) = 2 => Len(L[2]) < 4
<1> DEFINE p == r.commits[id].parents
           d == Decoration(r, id)
           a == Author(id)
           t == subject.text
           start == <<id, p, d, t>>
           L == LinesOf(r, id, subject)
<1> HIDE DEF p, d, a, t
<1>1. CASE subject.cut
  <2>1. L = <<start, <<"rest", a>>>>
    BY <1>1 DEF LinesOf, p, d, a, t
  <2> HIDE DEF L
  <2>2. L[1] = start /\ L[2] = <<"rest", a>> /\ Len(L) = 2
    BY <2>1
  <2>3. L \in Seq({L[1], L[2]})
    <3> HIDE DEF start
    <3> QED BY <2>1, <2>2
  <2>4. /\ Len(L[1]) = 4
        /\ L[1][1] = id /\ L[1][2] = p /\ L[1][3] = d /\ L[1][4] = t
    BY <2>2
  <2>5. Fielded(r, id, subject, L[1])
    BY <1>1, <2>4 DEF Fielded, p, d, t
  <2>6. Len(L) \in {1, 2} /\ Len(L[2]) < 4
    BY <2>2
  <2> QED BY <2>3, <2>5, <2>6 DEF L
<1>2. CASE ~ subject.cut
  <2> DEFINE line == Append(start, a)
  <2>1. L = <<line>>
    BY <1>2 DEF LinesOf, p, d, a, t
  <2>2. /\ Len(line) = 5
        /\ line[1] = id /\ line[2] = p /\ line[3] = d /\ line[4] = t /\ line[5] = a
    <3>1. Len(line) = 5
      OBVIOUS
    <3>2. line[1] = id /\ line[2] = p /\ line[3] = d /\ line[4] = t
      OBVIOUS
    <3>3. line[5] = a
      OBVIOUS
    <3> QED BY <3>1, <3>2, <3>3
  <2> HIDE DEF L, line
  <2>3. L[1] = line /\ Len(L) = 1 /\ L \in Seq({L[1], L[2]})
    BY <2>1
  <2>4. Len(L) \in {1, 2} /\ Len(L) # 2
    BY <2>3
  <2>5. /\ L[1][1] = id /\ L[1][2] = p /\ L[1][3] = d /\ L[1][4] = t
        /\ Len(L[1]) = 5 /\ L[1][5] = a
    BY <2>2, <2>3
  <2>6. Len(L[1]) \in Nat /\ Len(L[1]) >= 4
    BY <2>5
  <2>7. Fielded(r, id, subject, L[1])
    BY <1>2, <2>5, <2>6, Zenon DEF Fielded, p, d, a, t
  <2> QED BY <2>3, <2>4, <2>7 DEF L
<1> QED BY <1>1, <1>2

LineOffsets(r, log, subjects, N, off) ==
  LET part(i) == LinesOf(r, log[i], subjects[log[i]])
      lines == Output(r, log, subjects)
  IN  /\ off \in [0..N -> Nat]
      /\ off[0] = 0 /\ off[N] = Len(lines)
      /\ \A i \in 1..N :
           /\ off[i] = off[i - 1] + Len(part(i)) /\ off[i] <= Len(lines)
           /\ lines[off[i - 1] + 1] = part(i)[1]
           /\ Len(part(i)) = 2 => lines[off[i - 1] + 2] = part(i)[2]

(***************************************************************************)
(* The lines of each commit are in the output at an offset.                *)
(***************************************************************************)
LEMMA OutputLines ==
  ASSUME NEW r, NEW N \in Nat, NEW log, DOMAIN log = 1..N, NEW subjects
  PROVE  /\ Len(Output(r, log, subjects)) \in Nat
         /\ \E off : LineOffsets(r, log, subjects, N, off)
<1> DEFINE part(i) == LinesOf(r, log[i], subjects[log[i]])
           lines == Output(r, log, subjects)
           seqs == [i \in 1..N |-> part(i)]
           S == UNION {{part(i)[1], part(i)[2]} : i \in 1..N}
<1>1. lines = FlattenSeq(seqs)
  BY DEF Output
<1>2. \A i \in 1..N : Len(part(i)) \in {1, 2} /\ part(i) \in Seq({part(i)[1], part(i)[2]})
  BY LinesOfCommit
<1>3. \A i \in 1..N : {part(i)[1], part(i)[2]} \subseteq S
  OBVIOUS
<1> HIDE DEF part, S
<1>4. \A i \in 1..N : part(i) \in Seq(S)
  <2> SUFFICES ASSUME NEW i \in 1..N PROVE part(i) \in Seq(S)
    OBVIOUS
  <2> DEFINE U == {part(i)[1], part(i)[2]}
             q == part(i)
  <2>1. q \in Seq(U) /\ U \subseteq S
    BY <1>2, <1>3
  <2> HIDE DEF U, q
  <2>2. q \in Seq(S)
    BY <2>1, SeqMonotonic
  <2> QED BY <2>2 DEF q
<1>5. seqs \in [1..N -> Seq(S)] /\ \A i \in 1..N : seqs[i] = part(i)
  BY <1>4
<1> HIDE DEF seqs, lines
<1>6. lines \in Seq(S)
  BY <1>1, <1>5, Flattened
<1>7. PICK off : Offsets(seqs, N, lines, off)
  BY <1>1, <1>5, Flattened
<1>8. /\ off \in [0..N -> Nat]
      /\ off[0] = 0
      /\ Len(lines) = off[N]
      /\ \A i \in 1..N :
           /\ off[i] = off[i - 1] + Len(seqs[i])
           /\ \A k \in 1..Len(seqs[i]) :
                /\ off[i - 1] + k <= off[N]
                /\ lines[off[i - 1] + k] = seqs[i][k]
  BY <1>7 DEF Offsets
<1>9. ASSUME NEW i \in 1..N
      PROVE  /\ off[i] = off[i - 1] + Len(part(i)) /\ off[i] <= Len(lines)
             /\ lines[off[i - 1] + 1] = part(i)[1]
             /\ Len(part(i)) = 2 => lines[off[i - 1] + 2] = part(i)[2]
  <2>1. seqs[i] = part(i) /\ Len(part(i)) \in {1, 2}
    BY <1>2, <1>5
  <2>2. 1 \in 1..Len(part(i)) /\ Len(part(i)) \in 1..Len(part(i))
    BY <2>1
  <2> QED BY <1>8, <2>1, <2>2, ZenonT(20)
<1>10. LineOffsets(r, log, subjects, N, off)
  BY <1>8, <1>9 DEF LineOffsets, lines, part
<1> QED BY <1>6, <1>10, LenProperties DEF lines

(***************************************************************************)
(* What is on screen of a repository has one row for a commit.             *)
(***************************************************************************)
LEMMA GraphRows ==
  ASSUME Current, NEW graph \in Graphs(repo)
  PROVE  Rows(graph.nodes)
<1>1. Sound(repo)
  BY DEF Current, Tidied
<1>2. PICK log \in Logs(repo) :
        graph = parse_graph(Output(repo, log, [c \in Ids(repo) |-> Plain]))
  BY DEF Graphs
<1> DEFINE N == Len(repo.commits)
           plain == [c \in Ids(repo) |-> Plain]
<1>3. N \in Nat /\ DOMAIN log = 1..N
  BY <1>1, <1>2, LogPrinted, SoundCommits, LenProperties DEF Printed
<1> HIDE DEF N
<1>4. Len(Output(repo, log, plain)) \in Nat
  <2> HIDE DEF plain
  <2> QED BY <1>3, OutputLines
<1> QED BY <1>2, <1>4, ParsedRows

(***************************************************************************)
(* One branch, one lane: of whatever git log may print of the repository.  *)
(***************************************************************************)
THEOREM LanesAreApart == Spec => []LanesApart
<1>1. Current => LanesApart
  <2> SUFFICES ASSUME Current, NEW graph \in Graphs(repo)
               PROVE  LET nodes == graph.nodes
                          layout == computeLayout(nodes)
                          owner == CommitBranch(nodes)
                          lane(i) == layout.commits[i].lane
                          group(i) == IF owner[nodes[i].id] \in Trunk \cup {None} THEN None
                                      ELSE owner[nodes[i].id]
                      IN  \A i, j \in DOMAIN nodes :
                            /\ lane(i) = lane(j) <=> group(i) = group(j)
                            /\ lane(i) = 0 <=> group(i) = None
                            /\ lane(i) < layout.numLanes
    BY DEF LanesApart
  <2>1. Rows(graph.nodes)
    BY GraphRows
  <2> QED BY <2>1, OneLaneEach
<1> QED BY <1>1, CurrentAlways, PTL

(***************************************************************************)
(* A commit has its own label, or that of a commit that descends from it.  *)
(***************************************************************************)
THEOREM BranchesInherited == Spec => []InheritsBranch
<1>1. Current => InheritsBranch
  <2> SUFFICES ASSUME Current, NEW graph \in Graphs(repo), NewerFirst(graph.nodes),
                      NEW n \in Range(graph.nodes)
               PROVE  LET owner == CommitBranch(graph.nodes)
                          labels(id) == {m.branch : m \in {k \in Range(graph.nodes) :
                                           k.id \in Above(graph.nodes, id)}} \ {None}
                      IN  /\ IF labels(n.id) = {} THEN owner[n.id] = None
                             ELSE owner[n.id] \in labels(n.id)
                          /\ n.branch # None => owner[n.id] = n.branch
    BY DEF InheritsBranch
  <2>1. Rows(graph.nodes)
    BY GraphRows
  <2>2. PICK i \in DOMAIN graph.nodes : n = graph.nodes[i]
    BY DEF Range
  <2>3. Settled(graph.nodes, i, CommitBranch(graph.nodes)[n.id])
    BY <2>1, <2>2, OwnBranch
  <2> QED BY <2>2, <2>3 DEF Settled, LabelsAbove
<1> QED BY <1>1, CurrentAlways, PTL

(***************************************************************************)
(* A graph that has been read up to the lines of some commits of a log.    *)
(***************************************************************************)
FirstLine(r, log, subjects, i) == LinesOf(r, log[i], subjects[log[i]])[1]

Read(r, log, subjects, graph, n) ==
  LET node(i) == Node(FirstLine(r, log, subjects, i))
  IN  /\ graph.nodes \in Seq({node(i) : i \in Ids(r)}) /\ Len(graph.nodes) = n
      /\ \A i \in 1..n : graph.nodes[i] = node(i)
      /\ graph.edges \in Seq([source : Nat, target : Nat])
      /\ \A e : e \in Range(graph.edges) <=> \E i \in 1..n : e \in Range(EdgesTo(node(i)))

(***************************************************************************)
(* What the parser makes of the first line of a commit.                    *)
(***************************************************************************)
LEMMA FirstFields ==
  ASSUME NEW r, Sound(r), NEW log, Printed(r, log, Len(r.commits)), NEW subjects,
         NEW i \in Ids(r)
  PROVE  LET line == FirstLine(r, log, subjects, i)
             node == Node(line)
             parents == r.commits[log[i]].parents
         IN  /\ log[i] \in Ids(r)
             /\ Len(line) \in Nat /\ Len(line) >= 4 /\ line[1] = log[i]
             /\ node.id = log[i] /\ node.parents = parents
             /\ parents \in Seq(Nat)
             /\ EdgesTo(node) = [k \in DOMAIN parents |->
                                   [source |-> parents[k], target |-> log[i]]]
             /\ EdgesTo(node) \in Seq([source : Nat, target : Nat])
<1> DEFINE line == FirstLine(r, log, subjects, i)
           node == Node(line)
           parents == r.commits[log[i]].parents
<1>1. log[i] \in Ids(r) /\ log[i] \in Nat
  <2>1. log[i] \in Ids(r)
    BY LogCovers
  <2> QED BY <2>1, SoundCommits
<1>2. Len(line) \in Nat /\ Len(line) >= 4 /\ line[1] = log[i] /\ line[2] = parents
  <2>1. Fielded(r, log[i], subjects[log[i]], line)
    BY LinesOfCommit DEF FirstLine
  <2> HIDE DEF line
  <2> QED BY <2>1 DEF Fielded
<1>3. parents \in Seq(Nat)
  BY <1>1, SoundCommits
<1> HIDE DEF line, parents
<1>4. node.id = log[i] /\ node.parents = parents
  BY <1>2 DEF Node
<1>5. EdgesTo(node) = [k \in DOMAIN parents |-> [source |-> parents[k], target |-> log[i]]]
  <2> HIDE DEF node
  <2> QED BY <1>4 DEF EdgesTo
<1>6. EdgesTo(node) \in Seq([source : Nat, target : Nat])
  <2> DEFINE E == [source : Nat, target : Nat]
             e(k) == [source |-> parents[k], target |-> log[i]]
  <2>1. DOMAIN parents = 1..Len(parents) /\ Len(parents) \in Nat
        /\ \A k \in DOMAIN parents : parents[k] \in Nat
    BY <1>3, LenProperties
  <2>2. \A k \in DOMAIN parents : e(k) \in E
    BY <1>1, <2>1
  <2> HIDE DEF E, e
  <2>3. [k \in DOMAIN parents |-> e(k)] \in [1..Len(parents) -> E]
    BY <2>1, <2>2
  <2>4. [k \in DOMAIN parents |-> e(k)] \in Seq(E)
    BY <2>1, <2>3, SeqDef
  <2> QED BY <1>5, <2>4 DEF E, e
<1> QED BY <1>1, <1>2, <1>3, <1>4, <1>5, <1>6 DEF line, parents

(***************************************************************************)
(* Reading the first line of one more commit.                              *)
(***************************************************************************)
LEMMA ReadMore ==
  ASSUME NEW r, Sound(r), NEW log, Printed(r, log, Len(r.commits)), NEW subjects,
         NEW n \in Ids(r), NEW graph, Read(r, log, subjects, graph, n - 1)
  PROVE  Read(r, log, subjects, AddLine(graph, FirstLine(r, log, subjects, n)), n)
<1> DEFINE line == FirstLine(r, log, subjects, n)
           node(i) == Node(FirstLine(r, log, subjects, i))
           S == {node(i) : i \in Ids(r)}
           E == [source : Nat, target : Nat]
           later == AddLine(graph, line)
<1>1. n \in Nat \ {0} /\ n - 1 \in Nat /\ \A i \in 1..n : i \in Ids(r)
  BY SoundCommits
<1>2. /\ graph.nodes \in Seq(S) /\ Len(graph.nodes) = n - 1
      /\ \A i \in 1..(n - 1) : graph.nodes[i] = node(i)
      /\ graph.edges \in Seq(E)
      /\ \A e : e \in Range(graph.edges) <=> \E i \in 1..(n - 1) : e \in Range(EdgesTo(node(i)))
  BY DEF Read
<1>3. /\ Len(line) \in Nat /\ Len(line) >= 4 /\ line[1] = log[n]
      /\ EdgesTo(node(n)) \in Seq(E)
  BY FirstFields
<1>4. \A i \in Ids(r) : node(i).id = log[i]
  BY FirstFields
<1>5. \A i \in 1..(n - 1) : i \in Ids(r) /\ log[i] # log[n]
  <2> TAKE i \in 1..(n - 1)
  <2>1. i # n /\ i \in Ids(r) /\ Ids(r) = 1..Len(r.commits)
    BY <1>1, SoundCommits
  <2>2. \A k, j \in Ids(r) : log[k] = log[j] => k = j
    BY <2>1 DEF Printed
  <2> QED BY <2>1, <2>2
<1> HIDE DEF line, node, S, E
<1>6. \A i \in DOMAIN graph.nodes : graph.nodes[i].id # line[1]
  <2>1. DOMAIN graph.nodes = 1..(n - 1)
    BY <1>2, LenProperties
  <2> QED BY <1>2, <1>3, <1>4, <1>5, <2>1
<1>7. /\ later.nodes = Append(graph.nodes, node(n))
      /\ later.edges = graph.edges \o EdgesTo(node(n))
  BY <1>3, <1>6 DEF AddLine, node, line
<1>8. node(n) \in S
  BY DEF S
<1> HIDE DEF later
<1>9. /\ later.nodes \in Seq(S) /\ Len(later.nodes) = n
      /\ \A i \in 1..(n - 1) : later.nodes[i] = node(i)
      /\ later.nodes[n] = node(n)
  <2> DEFINE s == graph.nodes
             t == later.nodes
             x == node(n)
  <2>1. s \in Seq(S) /\ Len(s) = n - 1 /\ x \in S /\ t = Append(s, x)
    BY <1>2, <1>7, <1>8
  <2>2. \A i \in 1..(n - 1) : s[i] = node(i)
    BY <1>2
  <2> HIDE DEF s, t, x
  <2>3. /\ t \in Seq(S) /\ Len(t) = Len(s) + 1
        /\ \A i \in 1..Len(s) : t[i] = s[i]
        /\ t[Len(s) + 1] = x
    BY <2>1, AppendProperties
  <2>4. Len(s) + 1 = n
    BY <1>1, <2>1
  <2>5. Len(t) = n /\ t[n] = x /\ \A i \in 1..(n - 1) : t[i] = node(i)
    BY <2>1, <2>2, <2>3, <2>4
  <2> QED BY <2>3, <2>5 DEF t, x
<1>10. \A i \in 1..n : i = n \/ i \in 1..(n - 1)
  BY <1>1
<1>11. \A i \in 1..n : later.nodes[i] = node(i)
  BY <1>9, <1>10
<1>12. later.edges \in Seq(E) /\ Range(later.edges) = Range(graph.edges) \cup Range(EdgesTo(node(n)))
  BY <1>2, <1>3, <1>7, ConcatProperties, RangeConcatenation
<1>13. \A e : e \in Range(later.edges) <=> \E i \in 1..n : e \in Range(EdgesTo(node(i)))
  <2>1. n \in 1..n /\ \A i \in 1..(n - 1) : i \in 1..n
    BY <1>1
  <2> QED BY <1>2, <1>10, <1>12, <2>1
<1> QED BY <1>9, <1>11, <1>12, <1>13 DEF Read, later, line, node, S, E

(***************************************************************************)
(* The parser reads the output of git log to the end: one node per commit  *)
(* in the order of the log, and the edges of them all.                     *)
(***************************************************************************)
LEMMA ParsedLog ==
  ASSUME NEW r, Sound(r), NEW log, Printed(r, log, Len(r.commits)), NEW subjects
  PROVE  Read(r, log, subjects, parse_graph(Output(r, log, subjects)), Len(r.commits))
<1> DEFINE N == Len(r.commits)
           part(i) == LinesOf(r, log[i], subjects[log[i]])
           lines == Output(r, log, subjects)
           M == Len(lines)
<1>1. N \in Nat /\ Ids(r) = 1..N /\ DOMAIN log = 1..N
  BY SoundCommits, LenProperties DEF Printed
<1>2. M \in Nat /\ \E off : LineOffsets(r, log, subjects, N, off)
  <2> HIDE DEF N
  <2> QED BY <1>1, OutputLines
<1>3. PICK off : LineOffsets(r, log, subjects, N, off)
  BY <1>2
<1>4. /\ off \in [0..N -> Nat]
      /\ off[0] = 0 /\ off[N] = M
      /\ \A i \in 1..N :
           /\ off[i] = off[i - 1] + Len(part(i)) /\ off[i] <= M
           /\ lines[off[i - 1] + 1] = part(i)[1]
           /\ Len(part(i)) = 2 => lines[off[i - 1] + 2] = part(i)[2]
  BY <1>3 DEF LineOffsets
<1>5. PICK graph : /\ parse_graph(lines) = graph[M]
                   /\ graph[0] = EmptyGraph
                   /\ \A n \in 1..M : graph[n] = AddLine(graph[n - 1], lines[n])
  BY <1>2, GraphByLine
<1>6. \A i \in 1..N : /\ Len(part(i)) \in {1, 2}
                      /\ Len(part(i)) = 2 => Len(part(i)[2]) < 4
  BY LinesOfCommit
<1>7. \A i \in 1..N : part(i)[1] = FirstLine(r, log, subjects, i)
  BY DEF FirstLine
<1> DEFINE T == {n \in 0..N : Read(r, log, subjects, graph[off[n]], n)}
<1> HIDE DEF N, part, lines, M
<1>8. 0 \in T
  <2>1. EmptyGraph.nodes = <<>> /\ EmptyGraph.edges = <<>>
    BY DEF EmptyGraph
  <2>2. Len(<<>>) = 0 /\ Range(<<>>) = {} /\ \A S : <<>> \in Seq(S)
    BY EmptySeq, NoEntries DEF Range
  <2>3. Read(r, log, subjects, EmptyGraph, 0)
    BY <2>1, <2>2 DEF Read
  <2> QED BY <1>1, <1>4, <1>5, <2>3
<1>9. ASSUME NEW n \in 1..N, n - 1 \in T PROVE n \in T
  <2> DEFINE o == off[n - 1]
             L == Len(part(n))
  <2>1. Read(r, log, subjects, graph[o], n - 1)
    BY <1>9
  <2>2. o \in Nat /\ off[n] = o + L /\ off[n] <= M /\ L \in {1, 2}
    <3>1. n - 1 \in 0..N
      BY <1>1
    <3>2. o \in Nat
      BY <1>4, <3>1
    <3>3. off[n] = o + L /\ off[n] <= M
      BY <1>4
    <3>4. L \in {1, 2}
      BY <1>6
    <3> QED BY <3>2, <3>3, <3>4
  <2>3. lines[o + 1] = FirstLine(r, log, subjects, n)
    BY <1>4, <1>7
  <2>4. L = 2 => Len(lines[o + 2]) < 4
    BY <1>4, <1>6
  <2> HIDE DEF o, L
  <2>5. o + 1 \in 1..M /\ (o + 1) - 1 = o
    BY <1>2, <2>2
  <2>6. graph[o + 1] = AddLine(graph[o], FirstLine(r, log, subjects, n))
    BY <1>5, <2>3, <2>5
  <2>7. Read(r, log, subjects, graph[o + 1], n)
    <3>1. n \in Ids(r)
      BY <1>1 DEF N
    <3> QED BY <2>1, <2>6, <3>1, ReadMore
  <2>8. L = 2 => graph[o + 2] = graph[o + 1]
    <3> SUFFICES ASSUME L = 2 PROVE graph[o + 2] = graph[o + 1]
      OBVIOUS
    <3>1. o + 2 \in 1..M /\ (o + 2) - 1 = o + 1
      BY <1>2, <2>2
    <3>2. graph[o + 2] = AddLine(graph[o + 1], lines[o + 2])
      BY <1>5, <3>1
    <3> QED BY <2>4, <3>2 DEF AddLine
  <2>9. graph[off[n]] = graph[o + 1]
    BY <2>2, <2>8
  <2> QED BY <2>7, <2>9
<1>10. \A n \in 0..N : n \in T
  <2>1. N \in Nat
    BY <1>1 DEF N
  <2> HIDE DEF T
  <2> QED BY <1>8, <1>9, <2>1, UpTo
<1> QED BY <1>1, <1>4, <1>5, <1>10 DEF N, lines

-----------------------------------------------------------------------------
(* The decoration of a commit, and its label.                              *)

(***************************************************************************)
(* The sequence of a finite set has its members and no others.             *)
(***************************************************************************)
LEMMA SetInSeq ==
  ASSUME NEW S, IsFiniteSet(S)
  PROVE  \A R : S \subseteq R => SetToSeq(S) \in Seq(R) /\ Range(SetToSeq(S)) = S
<1> DEFINE n == Cardinality(S)
           D == 1..n
           q == SetToSeq(S)
<1>1. n \in Nat /\ \E f : f \in Bijection(D, S)
  BY FS_CardinalityType DEF ExistsBijection
<1>2. IsFiniteSet(D) /\ Cardinality(D) = n
  BY <1>1, FS_Interval
<1> HIDE DEF D
<1>3. \E f \in [D -> S] : IsInjective(f)
  BY <1>1 DEF Bijection, Injection
<1>4. q \in [D -> S] /\ IsInjective(q)
  <2>1. q = CHOOSE f \in [D -> S] : IsInjective(f)
    BY DEF SetToSeq, D
  <2> HIDE DEF q
  <2> QED BY <1>3, <2>1
<1> HIDE DEF q
<1>5. q \in Surjection(D, S)
  <2>1. q \in Injection(D, S)
    BY <1>4 DEF Injection
  <2> HIDE DEF n
  <2> QED BY <1>2, <2>1, FS_Injection DEF n
<1>6. Range(q) = S
  BY <1>5 DEF Surjection, Range
<1>7. ASSUME NEW R, S \subseteq R PROVE q \in Seq(R)
  <2>1. q \in [1..n -> R]
    BY <1>4, <1>7 DEF D
  <2> HIDE DEF n
  <2> QED BY <1>1, <2>1, SeqDef
<1> QED BY <1>6, <1>7 DEF q

(***************************************************************************)
(* The refs of a commit: HEAD if it is there, its branches but that of     *)
(* HEAD, and others, which are no branches.                                *)
(***************************************************************************)
Ref(kind, name) == [kind |-> kind, name |-> name]

RefsOf(r, id) ==
  {x \in {Ref("current", r.on)} : Tip(r) = id /\ r.on # None}
  \cup {Ref("branch", b) : b \in {b \in DOMAIN r.heads \ {r.on} : r.heads[b] = id}}

(***************************************************************************)
(* The decoration has these refs, and others of other kinds only.          *)
(***************************************************************************)
LEMMA Decorated ==
  ASSUME NEW r, Sound(r), NEW id
  PROVE  LET refs == Decoration(r, id)
         IN  /\ DOMAIN refs = 1..Len(refs) /\ Len(refs) \in Nat
             /\ RefsOf(r, id) \subseteq Range(refs)
             /\ \A x \in Range(refs) : x \in RefsOf(r, id) \/ x.kind \notin {"current", "branch"}
<1> DEFINE tagged == {Ref("tag", t) : t \in {t \in DOMAIN r.tags : r.tags[t] = id}}
           local == {Ref("branch", b) : b \in {b \in DOMAIN r.heads \ {r.on} : r.heads[b] = id}}
           first == IF Tip(r) # id THEN <<>>
                    ELSE IF r.on = None THEN <<Ref("HEAD", None)>> ELSE <<Ref("current", r.on)>>
           third == IF r.stash = id THEN <<Ref("remote", None)>> ELSE <<>>
           refs == Decoration(r, id)
           S == tagged \cup local \cup {Ref("HEAD", None), Ref("current", r.on), Ref("remote", None)}
<1>1. IsFiniteSet(tagged) /\ IsFiniteSet(local)
  <2> DEFINE T == {t \in DOMAIN r.tags : r.tags[t] = id}
             B == {b \in DOMAIN r.heads \ {r.on} : r.heads[b] = id}
  <2>1. IsFiniteSet(T) /\ IsFiniteSet(B)
    <3>1. IsFiniteSet(DOMAIN r.heads) /\ IsFiniteSet(DOMAIN r.tags)
      BY SoundFields, FewRefs
    <3> QED BY <3>1, FS_Subset
  <2>2. [t \in T |-> Ref("tag", t)] \in Surjection(T, tagged)
    BY DEF Surjection
  <2>3. [b \in B |-> Ref("branch", b)] \in Surjection(B, local)
    BY DEF Surjection
  <2> HIDE DEF T, B, tagged, local
  <2> QED BY <2>1, <2>2, <2>3, FS_Surjection
<1>2. refs = first \o SetToSeq(tagged) \o third \o SetToSeq(local)
  BY DEF Decoration, Ref
<1>3. /\ first \in Seq(S)
      /\ Range(first) = IF Tip(r) # id THEN {}
                        ELSE IF r.on = None THEN {Ref("HEAD", None)} ELSE {Ref("current", r.on)}
  <2>1. \A x \in S : <<x>> \in Seq(S) /\ Range(<<x>>) = {x}
    <3> HIDE DEF S
    <3> QED BY DEF Range
  <2>2. <<>> \in Seq(S) /\ Range(<<>>) = {}
    BY EmptySeq, NoEntries DEF Range
  <2>3. Ref("HEAD", None) \in S /\ Ref("current", r.on) \in S
    OBVIOUS
  <2> HIDE DEF S
  <2> QED BY <2>1, <2>2, <2>3
<1>4. third \in Seq(S) /\ Range(third) = IF r.stash = id THEN {Ref("remote", None)} ELSE {}
  <2>1. \A x \in S : <<x>> \in Seq(S) /\ Range(<<x>>) = {x}
    <3> HIDE DEF S
    <3> QED BY DEF Range
  <2>2. <<>> \in Seq(S) /\ Range(<<>>) = {}
    BY EmptySeq, NoEntries DEF Range
  <2>3. Ref("remote", None) \in S
    OBVIOUS
  <2> HIDE DEF S
  <2> QED BY <2>1, <2>2, <2>3
<1>5. tagged \subseteq S /\ local \subseteq S
  OBVIOUS
<1> HIDE DEF first, third, S, refs
<1>6. /\ SetToSeq(tagged) \in Seq(S) /\ Range(SetToSeq(tagged)) = tagged
      /\ SetToSeq(local) \in Seq(S) /\ Range(SetToSeq(local)) = local
  <2> HIDE DEF tagged, local
  <2> QED BY <1>1, <1>5, SetInSeq
<1> HIDE DEF tagged, local
<1>7. refs \in Seq(S) /\ Range(refs) = Range(first) \cup tagged \cup Range(third) \cup local
  <2> DEFINE a == first \o SetToSeq(tagged)
             b == a \o third
  <2>1. a \in Seq(S) /\ Range(a) = Range(first) \cup tagged
    <3> DEFINE t == SetToSeq(tagged)
    <3>1. t \in Seq(S) /\ Range(t) = tagged
      BY <1>6
    <3> HIDE DEF t
    <3>2. first \o t \in Seq(S) /\ Range(first \o t) = Range(first) \cup tagged
      BY <1>3, <3>1, ConcatProperties, RangeConcatenation
    <3> QED BY <3>2 DEF t
  <2> HIDE DEF a
  <2>2. b \in Seq(S) /\ Range(b) = Range(a) \cup Range(third)
    BY <1>4, <2>1, ConcatProperties, RangeConcatenation
  <2> HIDE DEF b
  <2>3. b \o SetToSeq(local) \in Seq(S) /\ Range(b \o SetToSeq(local)) = Range(b) \cup local
    BY <1>6, <2>2, ConcatProperties, RangeConcatenation
  <2> QED BY <1>2, <2>1, <2>2, <2>3 DEF a, b
<1>8. DOMAIN refs = 1..Len(refs) /\ Len(refs) \in Nat
  BY <1>7, LenProperties
<1>9. RefsOf(r, id) \subseteq Range(refs)
  BY <1>3, <1>7 DEF RefsOf, local
<1>10. \A x \in Range(refs) : x \in RefsOf(r, id) \/ x.kind \notin {"current", "branch"}
  <2>1. \A x \in tagged : x.kind = "tag"
    BY DEF tagged, Ref
  <2>2. \A x \in Range(third) : x.kind = "remote"
    BY <1>4 DEF Ref
  <2>3. \A x \in Range(first) : x \in RefsOf(r, id) \/ x.kind = "HEAD"
    <3>1. Ref("HEAD", None).kind = "HEAD"
      BY DEF Ref
    <3>2. Tip(r) = id /\ r.on # None => Ref("current", r.on) \in RefsOf(r, id)
      BY DEF RefsOf
    <3> QED BY <1>3, <3>1, <3>2
  <2>4. local \subseteq RefsOf(r, id)
    BY DEF local, RefsOf
  <2> QED BY <1>7, <2>1, <2>2, <2>3, <2>4
<1> QED BY <1>8, <1>9, <1>10 DEF refs

(***************************************************************************)
(* The label of a commit: the branch of HEAD on its tip, elsewhere one of  *)
(* the local branches without a slash, or nothing where there are none.    *)
(***************************************************************************)
Here(r, id) ==
  {b \in {c \in DOMAIN r.heads : c = r.on \/ c \notin Slashed} : r.heads[b] = id}

(***************************************************************************)
(* So the label is that of HEAD, or of a branch that is here.              *)
(***************************************************************************)
LEMMA LabelOfCommit ==
  ASSUME NEW r, Sound(r), NEW id \in Ids(r)
  PROVE  LET branch == PrimaryBranch(Decoration(r, id))
         IN  /\ IF Here(r, id) = {} THEN branch = None ELSE branch \in Here(r, id)
             /\ r.on \in Here(r, id) => branch = r.on
<1> DEFINE refs == Decoration(r, id)
           branch == PrimaryBranch(refs)
           first == {i \in DOMAIN refs : refs[i].kind = "current"}
           local == {i \in DOMAIN refs : refs[i].kind = "branch" /\ refs[i].name \notin Slashed}
           kinds == {"current", "branch"}
<1>1. /\ DOMAIN refs = 1..Len(refs) /\ Len(refs) \in Nat
      /\ RefsOf(r, id) \subseteq Range(refs)
      /\ \A x \in Range(refs) : x \in RefsOf(r, id) \/ x.kind \notin kinds
  BY Decorated
<1>2. id # 0 /\ None \notin DOMAIN r.heads
  BY SoundCommits, SoundFields, FewRefs, BranchNames DEF Names
<1>3. Tip(r) = id /\ r.on # None <=> r.on \in Here(r, id)
  BY <1>2 DEF Tip, Here
<1>4. branch = IF first # {} THEN refs[Max(first)].name
               ELSE IF local # {} THEN refs[Min(local)].name ELSE None
  BY DEF PrimaryBranch
<1>5. \A i \in DOMAIN refs : refs[i] \in RefsOf(r, id) \/ refs[i].kind \notin kinds
  <2> HIDE DEF refs, kinds
  <2> QED BY <1>1 DEF Range
<1>6. \A kind, name : Ref(kind, name).kind = kind /\ Ref(kind, name).name = name
  BY DEF Ref
<1>7. \A x \in RefsOf(r, id) :
         \/ x = Ref("current", r.on) /\ Tip(r) = id /\ r.on # None
         \/ \E b \in DOMAIN r.heads \ {r.on} : r.heads[b] = id /\ x = Ref("branch", b)
  BY DEF RefsOf
<1>8. \A i \in DOMAIN refs : refs[i].kind = "current" => r.on \in Here(r, id) /\ refs[i].name = r.on
  <2> TAKE i \in DOMAIN refs
  <2>1. \A x \in RefsOf(r, id) : x.kind = "current" => Tip(r) = id /\ r.on # None /\ x.name = r.on
    BY <1>6, <1>7
  <2> HIDE DEF refs
  <2> QED BY <1>3, <1>5, <2>1
<1>9. \A i \in DOMAIN refs :
        refs[i].kind = "branch" => /\ refs[i].name \in DOMAIN r.heads \ {r.on}
                                   /\ r.heads[refs[i].name] = id
  <2> TAKE i \in DOMAIN refs
  <2>1. \A x \in RefsOf(r, id) :
          x.kind = "branch" => x.name \in DOMAIN r.heads \ {r.on} /\ r.heads[x.name] = id
    BY <1>6, <1>7
  <2> HIDE DEF refs
  <2> QED BY <1>5, <2>1
<1>10. r.on \in Here(r, id) => first # {}
  <2> SUFFICES ASSUME r.on \in Here(r, id) PROVE first # {}
    OBVIOUS
  <2>1. Ref("current", r.on) \in RefsOf(r, id)
    BY <1>3 DEF RefsOf
  <2>2. PICK i \in DOMAIN refs : refs[i] = Ref("current", r.on)
    <3> HIDE DEF refs
    <3> QED BY <1>1, <2>1 DEF Range
  <2> HIDE DEF refs
  <2> QED BY <1>6, <2>2
<1>11. ASSUME NEW b \in Here(r, id), b # r.on PROVE local # {}
  <2>1. b \in DOMAIN r.heads \ {r.on} /\ r.heads[b] = id /\ b \notin Slashed
    BY <1>11 DEF Here
  <2>2. Ref("branch", b) \in RefsOf(r, id)
    BY <2>1 DEF RefsOf
  <2>3. PICK i \in DOMAIN refs : refs[i] = Ref("branch", b)
    <3> HIDE DEF refs
    <3> QED BY <1>1, <2>2 DEF Range
  <2> HIDE DEF refs
  <2> QED BY <1>6, <2>1, <2>3
<1>12. first # {} => Max(first) \in first
  <2> SUFFICES ASSUME first # {} PROVE Max(first) \in first
    OBVIOUS
  <2>1. first \in SUBSET (0..Len(refs))
    <3> HIDE DEF refs
    <3> QED BY <1>1
  <2>2. \E m \in first : \A t \in first : t <= m
    <3> DEFINE n == Len(refs)
    <3>1. n \in Nat /\ first \in SUBSET (0..n)
      BY <1>1, <2>1
    <3> HIDE DEF first, n
    <3> QED BY <3>1, GreatestNumber
  <2>3. \A x, y \in first : x <= y <=> y >= x
    <3> HIDE DEF refs
    <3> QED BY <1>1
  <2> HIDE DEF first
  <2> QED BY <2>2, <2>3 DEF Max
<1>13. local # {} => Min(local) \in local
  <2>1. local \in SUBSET Nat
    <3> HIDE DEF refs
    <3> QED BY <1>1
  <2> HIDE DEF local
  <2> QED BY <2>1, FirstRow
<1>14. CASE first # {}
  <2>1. r.on \in Here(r, id) /\ branch = r.on
    <3> HIDE DEF refs, branch
    <3> QED BY <1>4, <1>8, <1>12, <1>14
  <2> QED BY <2>1
<1>15. CASE first = {} /\ local # {}
  <2>1. branch = refs[Min(local)].name
    BY <1>4, <1>15
  <2>2. branch \in DOMAIN r.heads /\ r.heads[branch] = id /\ branch \notin Slashed
    <3> HIDE DEF refs, branch
    <3> QED BY <1>9, <1>13, <1>15, <2>1
  <2>3. branch \in Here(r, id)
    BY <2>2 DEF Here
  <2> QED BY <1>10, <1>15, <2>3
<1>16. CASE first = {} /\ local = {}
  <2>1. branch = None
    BY <1>4, <1>16
  <2>2. Here(r, id) = {}
    <3> HIDE DEF first, local
    <3> QED BY <1>10, <1>11, <1>16
  <2> QED BY <2>1, <2>2
<1> HIDE DEF first, local, branch
<1> QED BY <1>14, <1>15, <1>16

-----------------------------------------------------------------------------
(* The round trip.                                                         *)

(***************************************************************************)
(* What LogRoundTrip says of the log of a repository.                      *)
(***************************************************************************)
Pairs(r) == UNION {{<<c, p>> : p \in Range(r.commits[c].parents)} : c \in Ids(r)}

Told(r, subjects, node) ==
  /\ IF Here(r, node.id) = {} THEN node.branch = None ELSE node.branch \in Here(r, node.id)
  /\ r.on \in Here(r, node.id) => node.branch = r.on
  /\ node.author = IF subjects[node.id].cut THEN None ELSE Author(node.id)
  /\ node.label # ""
  /\ subjects[node.id].text # "" => node.label = subjects[node.id].text

(***************************************************************************)
(* The node of a first line says what it should of its commit.             *)
(***************************************************************************)
LEMMA NodeTold ==
  ASSUME NEW r, Sound(r), NEW id \in Ids(r), NEW subjects, NEW line,
         Fielded(r, id, subjects[id], line)
  PROVE  Told(r, subjects, Node(line))
<1> DEFINE node == Node(line)
           branch == PrimaryBranch(Decoration(r, id))
           t == subjects[id].text
<1>1. /\ Len(line) \in Nat /\ line[1] = id /\ line[3] = Decoration(r, id) /\ line[4] = t
      /\ IF subjects[id].cut THEN Len(line) = 4 ELSE Len(line) = 5 /\ line[5] = Author(id)
  BY DEF Fielded
<1>2. /\ node.id = line[1]
      /\ node.label = IF line[4] = "" THEN Short(line[1]) ELSE line[4]
      /\ node.branch = PrimaryBranch(line[3])
      /\ node.author = IF Len(line) >= 5 THEN line[5] ELSE None
  BY DEF Node
<1> HIDE DEF node, t
<1>3. node.id = id /\ node.branch = branch
  BY <1>1, <1>2
<1>4. /\ IF Here(r, id) = {} THEN branch = None ELSE branch \in Here(r, id)
      /\ r.on \in Here(r, id) => branch = r.on
  BY LabelOfCommit
<1> HIDE DEF branch
<1>5. node.author = IF subjects[id].cut THEN None ELSE Author(id)
  <2>1. CASE subjects[id].cut
    <3>1. Len(line) = 4
      BY <1>1, <2>1, Zenon
    <3>2. ~ (Len(line) >= 5)
      BY <3>1
    <3> QED BY <1>2, <2>1, <3>2, Zenon
  <2>2. CASE ~ subjects[id].cut
    <3>1. Len(line) = 5 /\ line[5] = Author(id)
      BY <1>1, <2>2, Zenon
    <3>2. Len(line) >= 5
      BY <3>1
    <3> QED BY <1>2, <2>2, <3>1, <3>2, Zenon
  <2> QED BY <2>1, <2>2
<1>6. node.label # "" /\ (t # "" => node.label = t)
  BY <1>1, <1>2, Zenon DEF Short
<1> QED BY <1>3, <1>4, <1>5, <1>6 DEF Told, node, t

(***************************************************************************)
(* From any log of a sound repository to the graph of its commits.         *)
(***************************************************************************)
LEMMA RoundTrip ==
  ASSUME NEW r, Sound(r), NEW log, Printed(r, log, Len(r.commits)), NEW subjects
  PROVE  LET graph == parse_graph(Output(r, log, subjects))
         IN  /\ [i \in DOMAIN graph.nodes |-> graph.nodes[i].id] = log
             /\ Rails(graph.nodes) = Pairs(r)
             /\ {<<e.target, e.source>> : e \in Range(graph.edges)} = Pairs(r)
             /\ \A node \in Range(graph.nodes) : Told(r, subjects, node)
<1> DEFINE graph == parse_graph(Output(r, log, subjects))
           nodes == graph.nodes
           D == Ids(r)
           node(i) == Node(FirstLine(r, log, subjects, i))
           parents(c) == r.commits[c].parents
<1>1. Read(r, log, subjects, graph, Len(r.commits))
  BY ParsedLog
<1>2. D = 1..Len(r.commits) /\ log \in [D -> D] /\ \A c \in D : \E i \in D : log[i] = c
  BY SoundCommits, LogCovers
<1> HIDE DEF graph
<1>3. /\ DOMAIN nodes = D
      /\ \A i \in D : nodes[i] = node(i)
      /\ \A e : e \in Range(graph.edges) <=> \E i \in D : e \in Range(EdgesTo(node(i)))
  BY <1>1, <1>2, LenProperties DEF Read
<1>4. ASSUME NEW i \in D
      PROVE  /\ node(i).id = log[i] /\ node(i).parents = parents(log[i])
             /\ EdgesTo(node(i)) = [k \in DOMAIN parents(log[i]) |->
                                      [source |-> parents(log[i])[k], target |-> log[i]]]
             /\ Fielded(r, log[i], subjects[log[i]], FirstLine(r, log, subjects, i))
  <2>1. /\ node(i).id = log[i] /\ node(i).parents = parents(log[i])
        /\ EdgesTo(node(i)) = [k \in DOMAIN parents(log[i]) |->
                                 [source |-> parents(log[i])[k], target |-> log[i]]]
    BY FirstFields
  <2>2. Fielded(r, log[i], subjects[log[i]], FirstLine(r, log, subjects, i))
    BY LinesOfCommit DEF FirstLine
  <2> QED BY <2>1, <2>2
<1>5. \A c \in D : \A p \in Range(parents(c)) : p \in D
  BY SoundCommits
<1> HIDE DEF D, node, nodes, parents
<1>6. [i \in DOMAIN nodes |-> nodes[i].id] = log
  BY <1>2, <1>3, <1>4
<1>7. IdsOf(nodes) = D
  <2>1. \A i \in D : nodes[i].id = log[i] /\ log[i] \in D
    BY <1>2, <1>3, <1>4
  <2>2. IdsOf(nodes) = {nodes[i].id : i \in D}
    BY <1>3 DEF IdsOf
  <2>3. \A c \in D : \E i \in D : c = nodes[i].id
    <3> TAKE c \in D
    <3>1. PICK i \in D : log[i] = c
      BY <1>2
    <3> QED BY <2>1, <3>1
  <2> QED BY <2>1, <2>2, <2>3
<1>8. \A x : x \in Pairs(r) <=> \E i \in D : \E k \in DOMAIN parents(log[i]) :
                                   x = <<log[i], parents(log[i])[k]>>
  <2>1. \A x : x \in Pairs(r) <=> \E c \in D : \E k \in DOMAIN parents(c) :
                                     x = <<c, parents(c)[k]>>
    BY DEF Pairs, Range, D, parents
  <2>2. \A i \in D : log[i] \in D
    BY <1>2
  <2>3. \A c \in D : \E i \in D : log[i] = c
    BY <1>2
  <2>4. ASSUME NEW x \in Pairs(r)
        PROVE  \E i \in D : \E k \in DOMAIN parents(log[i]) : x = <<log[i], parents(log[i])[k]>>
    <3>1. PICK c \in D : \E k \in DOMAIN parents(c) : x = <<c, parents(c)[k]>>
      BY <2>1, Zenon
    <3>2. PICK i \in D : log[i] = c
      BY <2>3
    <3> QED BY <3>1, <3>2, Zenon
  <2>5. ASSUME NEW i \in D, NEW k \in DOMAIN parents(log[i])
        PROVE  <<log[i], parents(log[i])[k]>> \in Pairs(r)
    BY <2>1, <2>2
  <2> QED BY <2>4, <2>5, Zenon
<1>9. Rails(nodes) = Pairs(r)
  <2> DEFINE S == UNION {{<<c.id, c.parents[i]>> : i \in DOMAIN c.parents} : c \in Range(nodes)}
             T == {<<c.id, p>> : c \in Range(nodes), p \in IdsOf(nodes)}
  <2>1. \A x : x \in S <=> \E i \in D : \E k \in DOMAIN parents(log[i]) :
                              x = <<log[i], parents(log[i])[k]>>
    <3>1. \A x : x \in S <=> \E i \in D : \E k \in DOMAIN nodes[i].parents :
                                x = <<nodes[i].id, nodes[i].parents[k]>>
      BY <1>3 DEF Range
    <3>2. \A i \in D : nodes[i].id = log[i] /\ nodes[i].parents = parents(log[i])
      BY <1>3, <1>4
    <3> HIDE DEF S
    <3> QED BY <3>1, <3>2
  <2>2. S = Pairs(r)
    <3> HIDE DEF S
    <3> QED BY <1>8, <2>1
  <2>3. \A i \in D : \A k \in DOMAIN parents(log[i]) : parents(log[i])[k] \in D
    BY <1>2, <1>5, SMTT(20) DEF Range
  <2>4. Pairs(r) \subseteq T
    <3>1. \A i \in D : \A p \in D : <<log[i], p>> \in T
      BY <1>3, <1>4, <1>7 DEF Range
    <3> HIDE DEF T
    <3> QED BY <1>8, <2>3, <3>1
  <2> HIDE DEF S, T
  <2>5. Rails(nodes) = T \cap S
    BY DEF Rails, S, T
  <2> QED BY <2>2, <2>4, <2>5
<1>10. {<<e.target, e.source>> : e \in Range(graph.edges)} = Pairs(r)
  <2> DEFINE S == {<<e.target, e.source>> : e \in Range(graph.edges)}
  <2>1. ASSUME NEW i \in D
        PROVE  \A e : e \in Range(EdgesTo(node(i))) <=>
                        \E k \in DOMAIN parents(log[i]) :
                           e = [source |-> parents(log[i])[k], target |-> log[i]]
    <3> DEFINE es == EdgesTo(node(i))
               p == parents(log[i])
    <3>1. es = [k \in DOMAIN p |-> [source |-> p[k], target |-> log[i]]]
      BY <1>4
    <3> HIDE DEF es, p
    <3>2. \A e : e \in Range(es) <=> \E k \in DOMAIN p : e = [source |-> p[k], target |-> log[i]]
      BY <3>1 DEF Range
    <3> QED BY <3>2 DEF es, p
  <2>2. \A x : x \in S <=> \E i \in D : \E k \in DOMAIN parents(log[i]) :
                              x = <<log[i], parents(log[i])[k]>>
    <3>1. \A e : e \in Range(graph.edges) <=>
                   \E i \in D : \E k \in DOMAIN parents(log[i]) :
                      e = [source |-> parents(log[i])[k], target |-> log[i]]
      <4> TAKE e
      <4>1. e \in Range(graph.edges) <=> \E i \in D : e \in Range(EdgesTo(node(i)))
        BY <1>3
      <4> QED BY <2>1, <4>1, Zenon
    <3>2. \A x : x \in S <=> \E e \in Range(graph.edges) : x = <<e.target, e.source>>
      OBVIOUS
    <3> HIDE DEF S
    <3>3. ASSUME NEW x \in S
          PROVE  \E i \in D : \E k \in DOMAIN parents(log[i]) : x = <<log[i], parents(log[i])[k]>>
      <4>1. PICK e \in Range(graph.edges) : x = <<e.target, e.source>>
        BY <3>2, <3>3, Zenon
      <4>2. PICK i \in D : \E k \in DOMAIN parents(log[i]) :
                             e = [source |-> parents(log[i])[k], target |-> log[i]]
        BY <3>1, <4>1
      <4>3. PICK k \in DOMAIN parents(log[i]) :
              e = [source |-> parents(log[i])[k], target |-> log[i]]
        BY <4>2
      <4>4. e.target = log[i] /\ e.source = parents(log[i])[k]
        BY <4>3
      <4> QED BY <4>1, <4>4
    <3>4. ASSUME NEW i \in D, NEW k \in DOMAIN parents(log[i])
          PROVE  <<log[i], parents(log[i])[k]>> \in S
      <4> DEFINE e == [source |-> parents(log[i])[k], target |-> log[i]]
      <4>1. e \in Range(graph.edges)
        BY <3>1
      <4>2. e.target = log[i] /\ e.source = parents(log[i])[k]
        OBVIOUS
      <4> HIDE DEF e
      <4> QED BY <3>2, <4>1, <4>2
    <3> QED BY <3>3, <3>4
  <2> HIDE DEF S
  <2>3. S = Pairs(r)
    BY <1>8, <2>2
  <2> QED BY <2>3 DEF S
<1>11. \A n \in Range(nodes) : Told(r, subjects, n)
  <2> SUFFICES ASSUME NEW i \in D PROVE Told(r, subjects, nodes[i])
    BY <1>3 DEF Range
  <2>1. log[i] \in Ids(r) /\ nodes[i] = node(i)
    BY <1>2, <1>3 DEF D
  <2>2. Fielded(r, log[i], subjects[log[i]], FirstLine(r, log, subjects, i))
    BY <1>4
  <2> QED BY <2>1, <2>2, NodeTold DEF node
<1> QED BY <1>6, <1>9, <1>10, <1>11 DEF nodes, graph

(***************************************************************************)
(* Whatever git log prints of the repository, the graph is that of its     *)
(* commits, in that order, with their labels: with subjects and authors    *)
(* too, but for what follows a break of the line inside a subject.         *)
(***************************************************************************)
THEOREM LogIsRead == Spec => []LogRoundTrip
<1>1. Current => LogRoundTrip
  <2> SUFFICES ASSUME Current, NEW log \in Logs(repo), NEW subjects \in [Ids(repo) -> Subjects]
               PROVE  LET graph == parse_graph(Output(repo, log, subjects))
                          shown == {b \in DOMAIN repo.heads : b = repo.on \/ b \notin Slashed}
                          pairs == UNION {{<<c, p>> : p \in Range(repo.commits[c].parents)} :
                                            c \in Ids(repo)}
                      IN  /\ [i \in DOMAIN graph.nodes |-> graph.nodes[i].id] = log
                          /\ Rails(graph.nodes) = pairs
                          /\ {<<e.target, e.source>> : e \in Range(graph.edges)} = pairs
                          /\ \A node \in Range(graph.nodes) :
                               LET here == {b \in shown : repo.heads[b] = node.id}
                                   subject == subjects[node.id]
                               IN  /\ IF here = {} THEN node.branch = None
                                      ELSE node.branch \in here
                                   /\ repo.on \in here => node.branch = repo.on
                                   /\ node.author = IF subject.cut THEN None
                                                    ELSE Author(node.id)
                                   /\ node.label # ""
                                   /\ subject.text # "" => node.label = subject.text
    BY DEF LogRoundTrip
  <2>1. Sound(repo) /\ Printed(repo, log, Len(repo.commits))
    BY LogPrinted DEF Current, Tidied
  <2>2. LET graph == parse_graph(Output(repo, log, subjects))
        IN  /\ [i \in DOMAIN graph.nodes |-> graph.nodes[i].id] = log
            /\ Rails(graph.nodes) = Pairs(repo)
            /\ {<<e.target, e.source>> : e \in Range(graph.edges)} = Pairs(repo)
            /\ \A node \in Range(graph.nodes) : Told(repo, subjects, node)
    BY <2>1, RoundTrip
  <2> QED BY <2>2 DEF Told, Here, Pairs
<1> QED BY <1>1, CurrentAlways, PTL
=============================================================================
