---------------------------- MODULE GitRepository ----------------------------
(***************************************************************************)
(* What the backend relies on of git (it is not in the repository): where  *)
(* a whitelisted subcommand may leave the refs, and what git log --all     *)
(* prints of the commits they show.                                        *)
(*                                                                         *)
(* A repository has the commits that its refs show, numbered by age; at is *)
(* the second of a committer date, counted over the seconds with a commit. *)
(* HEAD is on the branch on, or detached at the commit at; it is neither   *)
(* before git init.  stash is the one stashed commit, 0 for none.  A merge *)
(* or rebase that stopped is not told from one that was not begun: see     *)
(* Commits and Resumed.                                                    *)
(***************************************************************************)
EXTENDS GitLog, FiniteSets

CONSTANTS Branches, Tags,
          Main   \* init.defaultBranch of the image

\* A branch has a name.
ASSUME BranchNames == None \notin Branches \cup {Main}

Before ==
  [commits |-> <<>>, heads |-> <<>>, tags |-> <<>>, stash |-> 0,
   on |-> None, at |-> 0]

Ids(r) == DOMAIN r.commits

Tip(r) ==
  IF r.on = None THEN r.at
  ELSE IF r.on \in DOMAIN r.heads THEN r.heads[r.on]
  ELSE 0

Parents(r, ids) == UNION {Range(r.commits[c].parents) : c \in ids}

\* ids and all commits they descend from.
Ancestors(r, ids) ==
  LET up[n \in 0..Len(r.commits)] ==
        IF n = 0 THEN ids \ {0} ELSE up[n - 1] \cup Parents(r, up[n - 1])
  IN  up[Len(r.commits)]

Tips(r) ==
  ({Tip(r)} \cup {r.heads[b] : b \in DOMAIN r.heads}
            \cup {r.tags[t] : t \in DOMAIN r.tags}
            \cup {r.stash}) \ {0}

Visible(r) == Ancestors(r, Tips(r))

\* What the refs do not show any more is forgotten, the rest numbered anew.
Tidy(r) ==
  LET shown == Visible(r)
      num(c) == Cardinality({d \in shown : d <= c})
      old(n) == CHOOSE c \in shown : num(c) = n
      seconds == {r.commits[c].at : c \in shown}
      renamed(c) ==
        [r.commits[c] EXCEPT
           !.parents = [i \in DOMAIN @ |-> num(@[i])],
           !.at = Cardinality({s \in seconds : s < @})]
  IN  [r EXCEPT !.commits = [n \in 1..Cardinality(shown) |-> renamed(old(n))],
                !.heads = [b \in DOMAIN @ |-> num(@[b])],
                !.tags = [t \in DOMAIN @ |-> num(@[t])],
                !.stash = num(@), !.at = num(@)]

\* Commits that the tip does not contain.
Others(r) == Ids(r) \ Ancestors(r, {Tip(r)})

-----------------------------------------------------------------------------
\* The subcommands: what they may leave of a repository.

\* A commit is made in the second of the one before, or later.
New(r, parents) ==
  LET seconds == IF r.commits = <<>> THEN {0}
                 ELSE {Last(r.commits).at, Last(r.commits).at + 1}
  IN  {[r EXCEPT !.commits = Append(@, [parents |-> parents, at |-> t])] : t \in seconds}

Newest(r) == Len(r.commits)

Moved(r, id) ==
  IF r.on = None THEN [r EXCEPT !.at = id]
  ELSE [r EXCEPT !.heads = Put(@, r.on, id)]

\* A commit on the tip, or one that concludes a merge that had stopped.
Commits(r) ==
  LET parents == IF Tip(r) = 0 THEN {<<>>}
                 ELSE {<<Tip(r)>>} \cup {<<Tip(r), c>> : c \in Others(r)}
  IN  UNION {{Moved(n, Newest(n)) : n \in New(r, p)} : p \in parents}

Amends(r) ==
  IF Tip(r) = 0 THEN {}
  ELSE {Moved(n, Newest(n)) : n \in New(r, r.commits[Tip(r)].parents)}

Branchings(r) ==
  {[r EXCEPT !.heads = Put(@, b, Tip(r))] : b \in Branches \ {r.on}}
  \cup {[r EXCEPT !.heads = [b \in DOMAIN @ \ {gone} |-> @[b]]] :
          gone \in DOMAIN r.heads \ {r.on}}

OnBranch(r, b) == [r EXCEPT !.on = b, !.at = 0]
DetachedAt(r, c) == [r EXCEPT !.on = None, !.at = c]

Switches(r) ==
  {OnBranch(r, b) : b \in DOMAIN r.heads}
  \cup {DetachedAt(r, c) : c \in Ids(r)}
  \cup {Moved(OnBranch(r, b), Tip(r)) : b \in Branches \ DOMAIN r.heads}

Taggings(r) ==
  {[r EXCEPT !.tags = Put(@, t, Tip(r))] : t \in Tags}
  \cup {[r EXCEPT !.tags = [t \in DOMAIN @ \ {gone} |-> @[t]]] :
          gone \in DOMAIN r.tags}

Resets(r) == {Moved(r, c) : c \in Ids(r)}

\* A stash is a commit of the index and one of the tree.
Stashes(r) ==
  IF r.stash # 0 THEN {[r EXCEPT !.stash = 0]}
  ELSE IF Tip(r) = 0 THEN {}
  ELSE UNION {{[n EXCEPT !.stash = Newest(n)] : n \in New(i, <<Tip(r), Newest(i)>>)} :
                i \in New(r, <<Tip(r)>>)}

Merges(r) ==
  IF Tip(r) = 0 THEN {} ELSE
    {Moved(r, c) : c \in {d \in Others(r) : Tip(r) \in Ancestors(r, {d})}}
    \cup UNION {{Moved(n, Newest(n)) : n \in New(r, <<Tip(r), c>>)} : c \in Others(r)}

\* A rebase copies the commits of from that onto does not contain, the oldest
\* first, onto a detached HEAD.
Todo(r, from, onto) ==
  {c \in Ancestors(r, {from}) \ Ancestors(r, {onto}) : Len(r.commits[c].parents) < 2}

Picked(r) == {DetachedAt(n, Newest(n)) : n \in New(r, <<Tip(r)>>)}

\* After count commits have been copied: all that tells copies apart is when
\* they were made.
Replayed(r, count) ==
  LET after[n \in 0..count] ==
        IF n = 0 THEN {r} ELSE UNION {Picked(s) : s \in after[n - 1]}
  IN  after[count]

Landed(r, b) == IF b = None THEN r ELSE Moved(OnBranch(r, b), r.at)

\* A rebase that stopped at a commit left HEAD detached; it goes on with some
\* of the last commits of the branch, or gives up.
Resumed(r) ==
  IF r.on # None THEN {} ELSE
    UNION {{OnBranch(r, b)} \cup
           UNION {{Landed(n, b) : n \in Replayed(r, count)} :
                    count \in 0..Cardinality(Todo(r, r.heads[b], r.at))} :
             b \in DOMAIN r.heads}

Rebases(r) ==
  Resumed(r)
  \cup UNION {{Landed(n, r.on) :
                 n \in Replayed(DetachedAt(r, onto), Cardinality(Todo(r, Tip(r), onto)))} :
                onto \in Others(r)}

\* A rebase that stops at one of its commits: it ends with an error.
RebaseStops(r) ==
  UNION {UNION {Replayed(DetachedAt(r, onto), count) :
                  count \in 0..(Cardinality(Todo(r, Tip(r), onto)) - 1)} :
           onto \in Others(r)}

Done(sub, r) ==
  IF r.on = None /\ r.at = 0
  THEN IF sub = "init" THEN {OnBranch(r, Main)} ELSE {}
  ELSE CASE sub = "commit" -> Commits(r) \cup Amends(r)
         [] sub = "branch" /\ Tip(r) # 0 -> Branchings(r)
         [] sub \in {"checkout", "switch"} /\ Tip(r) # 0 -> Switches(r)
         [] sub = "merge" -> Merges(r)
         [] sub = "rebase" -> Rebases(r)
         [] sub = "reset" -> Resets(r)
         [] sub = "tag" /\ Tip(r) # 0 -> Taggings(r)
         [] sub = "stash" -> Stashes(r)
         [] OTHER -> {r}

Stopped(sub, r) ==
  {r} \cup (IF sub = "rebase" /\ Tip(r) # 0 THEN RebaseStops(r) ELSE {})

\* The repositories and exit codes with which a subcommand may end.
Ends(sub, r) == (Done(sub, r) \X {0}) \cup (Stopped(sub, r) \X {1})

-----------------------------------------------------------------------------
\* git log --all, of a tidy repository.

\* Commits that may be printed after those of log: of the tips and of the
\* parents of printed ones the latest; commits of one second in any order.
Latest(r, log) ==
  LET queue == (Tips(r) \cup Parents(r, Range(log))) \ Range(log)
  IN  {c \in queue : \A d \in queue : r.commits[d].at <= r.commits[c].at}

Logs(r) ==
  LET walks[n \in 0..Len(r.commits)] ==
        IF n = 0 THEN {<<>>}
        ELSE UNION {{Append(log, c) : c \in Latest(r, log)} : log \in walks[n - 1]}
  IN  walks[Len(r.commits)]

\* %D: the branch of HEAD or a detached HEAD first.
Decoration(r, id) ==
  LET ref(kind, name) == [kind |-> kind, name |-> name]
  IN  (IF Tip(r) # id THEN <<>>
       ELSE IF r.on = None THEN <<ref("HEAD", None)>>
       ELSE <<ref("current", r.on)>>)
      \o SetToSeq({ref("tag", t) : t \in {t \in DOMAIN r.tags : r.tags[t] = id}})
      \o (IF r.stash = id THEN <<ref("remote", None)>> ELSE <<>>)
      \o SetToSeq({ref("branch", b) : b \in {b \in DOMAIN r.heads \ {r.on} : r.heads[b] = id}})

\* A commit has an author of its own, so that authors cannot be confused.
Author(id) == <<"author", id>>

\* One line a commit.  A subject may hold a character at which str.splitlines
\* breaks a line and git log does not: then it is cut there, text being what
\* comes before, and the author is on the line of the rest.
LinesOf(r, id, subject) ==
  LET start == <<id, r.commits[id].parents, Decoration(r, id), subject.text>>
  IN  IF subject.cut THEN <<start, <<"rest", Author(id)>>>>
      ELSE <<Append(start, Author(id))>>

Output(r, log, subjects) ==
  FlattenSeq([i \in DOMAIN log |-> LinesOf(r, log[i], subjects[log[i]])])
=============================================================================
