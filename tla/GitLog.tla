------------------------------- MODULE GitLog -------------------------------
(***************************************************************************)
(* backend/app/git/parser.py: from the output of                           *)
(* git log --all --format=%H SEP %P SEP %D SEP %s SEP %an to a graph.      *)
(*                                                                         *)
(* The output is a sequence of lines as str.splitlines yields them, a line *)
(* the tuple of its fields.  A decoration is the sequence of its refs, a   *)
(* ref a record of a name and a kind: "current" for the one that is        *)
(* printed as "HEAD -> name", "HEAD", "branch", "tag", and "remote" for    *)
(* whatever else there is.                                                 *)
(***************************************************************************)
EXTENDS Integers, Sequences, SequencesExt

CONSTANTS Slashed,   \* branches with a "/" in their names
          None       \* no branch, no author

\* The function f with v at k, in place of what it has there.
Put(f, k, v) == [x \in DOMAIN f \cup {k} |-> IF x = k THEN v ELSE f[x]]

EmptyGraph == [nodes |-> <<>>, edges |-> <<>>]

\* Mutant of PrimaryBranch: the branch HEAD is on has no precedence.
FirstBranch(refs) ==
  LET locals == {i \in DOMAIN refs : refs[i].kind = "branch" /\ refs[i].name \notin Slashed}
  IN  IF locals = {} THEN None ELSE refs[Min(locals)].name

\* "HEAD -> name" wins, then the first ref that is no tag and has no "/".
PrimaryBranch(refs) ==
  LET heads == {i \in DOMAIN refs : refs[i].kind = "current"}
      locals == {i \in DOMAIN refs : refs[i].kind = "branch" /\ refs[i].name \notin Slashed}
  IN  IF heads # {} THEN refs[Max(heads)].name
      ELSE IF locals # {} THEN refs[Min(locals)].name
      ELSE None

\* sha[:7] of a commit without a subject: all that matters is that it has digits.
Short(sha) == "sha[:7]"

Node(line) ==
  [id      |-> line[1],
   label   |-> IF line[4] = "" THEN Short(line[1]) ELSE line[4],
   branch  |-> PrimaryBranch(line[3]),
   parents |-> line[2],
   author  |-> IF Len(line) >= 5 THEN line[5] ELSE None]

EdgesTo(node) ==
  [i \in DOMAIN node.parents |-> [source |-> node.parents[i], target |-> node.id]]

\* Lines that are too short, and commits seen before, are passed over.
AddLine(graph, line) ==
  IF Len(line) < 4 \/ \E i \in DOMAIN graph.nodes : graph.nodes[i].id = line[1]
  THEN graph
  ELSE [nodes |-> Append(graph.nodes, Node(line)),
        edges |-> graph.edges \o EdgesTo(Node(line))]

parse_graph(lines) ==
  LET after[n \in 0..Len(lines)] ==
        IF n = 0 THEN EmptyGraph ELSE AddLine(after[n - 1], lines[n])
  IN  after[Len(lines)]
=============================================================================
