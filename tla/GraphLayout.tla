----------------------------- MODULE GraphLayout -----------------------------
(***************************************************************************)
(* frontend/src/components/GitGraph.tsx: the lane of every commit of the   *)
(* graph on screen, and the rails between them.                            *)
(***************************************************************************)
EXTENDS GitLog

CONSTANTS Trunk   \* "main" and "master"

IdsOf(nodes) == {nodes[i].id : i \in DOMAIN nodes}

\* childrenOf: the rows of the children.
ChildrenOf(nodes, sha) == {i \in DOMAIN nodes : sha \in Range(nodes[i].parents)}

\* Mutant of Inherit: only the first child is asked.
InheritFromFirst(nodes, owner, n) ==
  LET kids == ChildrenOf(nodes, n.id)
  IN  IF owner[n.id] # None \/ kids = {} THEN owner
      ELSE [owner EXCEPT ![n.id] = owner[nodes[Min(kids)].id]]

\* A commit without a branch takes that of its first child that has one.
Inherit(nodes, owner, n) ==
  LET kids == {i \in ChildrenOf(nodes, n.id) : owner[nodes[i].id] # None}
  IN  IF owner[n.id] # None \/ kids = {} THEN owner
      ELSE [owner EXCEPT ![n.id] = owner[nodes[Min(kids)].id]]

\* commitBranch, once the labels are entered and the nodes gone through.
CommitBranch(nodes) ==
  LET labelled == [id \in IdsOf(nodes) |->
                     (CHOOSE n \in Range(nodes) : n.id = id).branch]
      owner[row \in 0..Len(nodes)] ==
        IF row = 0 THEN labelled ELSE Inherit(nodes, owner[row - 1], nodes[row])
  IN  owner[Len(nodes)]

\* Mutant of LaneOf: nextLane stays as it is.
LaneOfSame(lanes, branch) ==
  IF branch = None \/ branch \in DOMAIN lanes.of THEN lanes
  ELSE [lanes EXCEPT !.of = Put(@, branch, lanes.next)]

\* laneOf: a branch met for the first time gets the next lane.
LaneOf(lanes, branch) ==
  IF branch = None \/ branch \in DOMAIN lanes.of THEN lanes
  ELSE [of |-> Put(lanes.of, branch, lanes.next), next |-> lanes.next + 1]

\* The lanes handed out once every row has asked for that of its branch.
Lanes(nodes, owner) ==
  LET lanes[row \in 0..Len(nodes)] ==
        IF row = 0 THEN [of |-> [b \in Trunk |-> 0], next |-> 1]
        ELSE LaneOf(lanes[row - 1], owner[nodes[row].id])
  IN  lanes[Len(nodes)]

computeLayout(nodes) ==
  LET owner == CommitBranch(nodes)
      lanes == Lanes(nodes, owner)
  IN  [commits |-> [i \in DOMAIN nodes |->
                      [id   |-> nodes[i].id,
                       lane |-> IF owner[nodes[i].id] = None THEN 0
                                ELSE lanes.of[owner[nodes[i].id]],
                       y    |-> i - 1]],
       numLanes |-> lanes.next]

\* One rail from a commit to each of its parents that has a row.
Rails(nodes) ==
  {<<c.id, p>> : c \in Range(nodes), p \in IdsOf(nodes)} \cap
    UNION {{<<c.id, c.parents[i]>> : i \in DOMAIN c.parents} : c \in Range(nodes)}
=============================================================================
