----------------------------- MODULE GitExecutor -----------------------------
(***************************************************************************)
(* backend/app/git/executor.py with the parser behind it and the layout of *)
(* the browser: from a command to the graph on screen.  One command at a   *)
(* time: what tasks do to each other is in RoomSession, what the executor  *)
(* records of its commands in CommandIntake.                               *)
(***************************************************************************)
EXTENDS GitRepository, GraphLayout

CONSTANTS Texts,       \* of the subjects of commits
          MaxCommits,  \* bound: commits that refs show
          MaxRefs      \* bound: branches and tags

VARIABLES
  repo,     \* the repository in the sandbox
  read      \* the one the graph on screen was read from; None after a fault

vars == <<repo, read>>

Allowed ==
  {"init", "status", "add", "commit", "log", "branch", "checkout", "switch", "merge",
   "rebase", "reset", "diff", "show", "tag", "stash", "restore"}

ReadOnly == {"status", "log", "diff", "show"}

\* What a student may type: whether its quotes match, its words, whether it
\* holds a shell metacharacter.
Commands ==
  LET typed(balanced, argv, meta) == [balanced |-> balanced, argv |-> argv, meta |-> meta]
  IN  {typed(TRUE, <<"git", sub>>, FALSE) : sub \in Allowed \cup {"push"}}
      \cup {typed(TRUE, <<"git", "commit">>, TRUE), typed(FALSE, <<"git", "commit">>, FALSE),
            typed(TRUE, <<"ls", "commit">>, FALSE), typed(TRUE, <<"git">>, FALSE),
            typed(TRUE, <<>>, FALSE)}

Valid(c) ==
  /\ c.balanced
  /\ Len(c.argv) >= 2
  /\ c.argv[1] = "git"
  /\ c.argv[2] \in Allowed
  /\ ~ c.meta

\* Mutant of Refreshes: only what makes commits refreshes the graph.
RefreshesCommits(sub, exit) == sub \in {"commit", "merge", "rebase"} /\ exit = 0

Refreshes(sub, exit) == sub \notin ReadOnly /\ exit = 0

\* The bounds.
Fits(r) ==
  /\ Len(r.commits) <= MaxCommits
  /\ Cardinality(DOMAIN r.heads) + Cardinality(DOMAIN r.tags) <= MaxRefs

\* snapshot_graph; a log that fails makes an empty graph.
Snapshot(r) == read' \in {r, None}

\* The exit code decides whether the graph is read: what a command did that
\* ended with an error is not.
Answers(sub, end) ==
  IF Refreshes(sub, end[2]) THEN Snapshot(repo')
  ELSE read' = IF end[2] # 0 /\ end[1] # repo THEN None ELSE read

\* The execution times out or breaks; git may have done its work.
Raises(end) == read' = IF end[1] # repo THEN None ELSE read

run(c) ==
  /\ Valid(c)
  /\ \E end \in Ends(c.argv[2], repo) :
       /\ repo' = Tidy(end[1])
       /\ Fits(repo')
       /\ \/ Answers(c.argv[2], end)
          \/ Raises(end)

\* GitCommandError.
Rejects(c) ==
  /\ ~ Valid(c)
  /\ UNCHANGED vars

\* on_user_joined: what a new tab gets.
Joins ==
  /\ Snapshot(repo)
  /\ UNCHANGED repo

Init ==
  /\ repo = Before
  /\ read = Before

Next ==
  \/ \E c \in Commands : run(c) \/ Rejects(c)
  \/ Joins

Spec == Init /\ [][Next]_vars

-----------------------------------------------------------------------------
Subjects == [text : Texts, cut : BOOLEAN]
Plain == [text |-> "plain", cut |-> FALSE]

\* What may be on screen of a repository.
Graphs(r) == {parse_graph(Output(r, log, [c \in Ids(r) |-> Plain])) : log \in Logs(r)}

(***************************************************************************)
(* Whatever git log prints of a repository, the graph has its commits in   *)
(* that order, one row each, with their parents, and edges and rails from  *)
(* every parent; the branch of HEAD is on its tip, any other label is that *)
(* of an unslashed local branch, which is never passed over.  Subjects and *)
(* authors are those of the commits; where a subject breaks a line of the  *)
(* log, what comes before the break is kept and no author is shown.        *)
(***************************************************************************)
LogRoundTrip ==
  \A log \in Logs(repo), subjects \in [Ids(repo) -> Subjects] :
    LET graph == parse_graph(Output(repo, log, subjects))
        shown == {b \in DOMAIN repo.heads : b = repo.on \/ b \notin Slashed}
        pairs == UNION {{<<c, p>> : p \in Range(repo.commits[c].parents)} : c \in Ids(repo)}
    IN  /\ [i \in DOMAIN graph.nodes |-> graph.nodes[i].id] = log
        /\ Rails(graph.nodes) = pairs
        /\ {<<e.target, e.source>> : e \in Range(graph.edges)} = pairs
        /\ \A node \in Range(graph.nodes) :
             LET here == {b \in shown : repo.heads[b] = node.id}
                 subject == subjects[node.id]
             IN  /\ IF here = {} THEN node.branch = None ELSE node.branch \in here
                 /\ repo.on \in here => node.branch = repo.on
                 /\ node.author = IF subject.cut THEN None ELSE Author(node.id)
                 /\ node.label # ""
                 /\ subject.text # "" => node.label = subject.text

(***************************************************************************)
(* executor.py:52: the commands that do not refresh the graph change       *)
(* nothing it shows.  After any commands that answered with success the    *)
(* screen shows the repository as it is now, the label of HEAD included.   *)
(***************************************************************************)
ScreenIsCurrent == read \in {repo, None}

\* The nodes from which one can be reached, itself included.
WithChildren(nodes, ids) ==
  ids \cup {m.id : m \in {n \in Range(nodes) : Range(n.parents) \cap ids # {}}}

Above(nodes, id) ==
  LET up[n \in 0..Len(nodes)] ==
        IF n = 0 THEN {id} ELSE WithChildren(nodes, up[n - 1])
  IN  up[Len(nodes)]

NewerFirst(nodes) ==
  \A i, j \in DOMAIN nodes : nodes[j].id \in Range(nodes[i].parents) => i < j

(***************************************************************************)
(* GitGraph.tsx:46: provided that the log prints every commit after those  *)
(* that descend from it, a commit is drawn with its own label or that of a *)
(* commit that descends from it, and without a branch only if none has one.*)
(***************************************************************************)
InheritsBranch ==
  \A graph \in Graphs(repo) : NewerFirst(graph.nodes) =>
    LET owner == CommitBranch(graph.nodes)
        labels(id) == {n.branch : n \in {m \in Range(graph.nodes) :
                                           m.id \in Above(graph.nodes, id)}} \ {None}
    IN  \A n \in Range(graph.nodes) :
          /\ IF labels(n.id) = {} THEN owner[n.id] = None ELSE owner[n.id] \in labels(n.id)
          /\ n.branch # None => owner[n.id] = n.branch

(***************************************************************************)
(* GitGraph.tsx:42, "one branch, one lane", in whatever order the log is:  *)
(* commits of two branches are never drawn in one lane, those of one       *)
(* branch in one lane only; main and commits of no branch keep lane 0, and *)
(* every lane is within the width that is drawn.                           *)
(***************************************************************************)
LanesApart ==
  \A graph \in Graphs(repo) :
    LET nodes == graph.nodes
        layout == computeLayout(nodes)
        owner == CommitBranch(nodes)
        lane(i) == layout.commits[i].lane
        group(i) == IF owner[nodes[i].id] \in Trunk \cup {None} THEN None
                    ELSE owner[nodes[i].id]
    IN  \A i, j \in DOMAIN nodes :
          /\ lane(i) = lane(j) <=> group(i) = group(j)
          /\ lane(i) = 0 <=> group(i) = None
          /\ lane(i) < layout.numLanes
=============================================================================
