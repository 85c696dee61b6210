------------------------------- MODULE StoreOps --------------------------------
(***************************************************************************)
(* The operations of the git store as functions of the repository: what a  *)
(* call of core/src/store.rs does when it has the store to itself, as the  *)
(* mutex around it guarantees (GitStore, SerialInv).  Modules about the    *)
(* programs that talk to the server use them as single steps.              *)
(***************************************************************************)
EXTENDS CommitGraph

Repos == [commits: Seq(Commits), heads: [Branches -> Nat], temp: [Clients -> Nat]]

\* A repository without commits, and one with db on main and on some branches.
EmptyRepo == [commits |-> <<>>, heads |-> [b \in Branches |-> None],
              temp |-> [c \in Clients |-> None]]
ImportedRepo(db, bs) ==
  [EmptyRepo EXCEPT !.commits = AddCommit(<<>>, {}, db),
                    !.heads = [b \in Branches |-> IF b \in bs \cup {Main} THEN 1 ELSE None]]

Content(g, b) == g.commits[g.heads[b]].db

CommitTo(g, b, db) ==
  [g EXCEPT !.commits = AddCommit(g.commits, {g.heads[b]} \ {None}, db),
            !.heads[b] = Len(g.commits) + 1]

\* The client's branch starts where main is, or stays absent.
EnsureBranch(g, c) ==
  IF g.heads[c] # None THEN g ELSE [g EXCEPT !.heads[c] = g.heads[Main]]

Contains(g, into, from) == IsAncestor(g.commits, g.heads[from], g.heads[into])
Behind(g, into, from) == Forward(g.commits, g.heads[into], g.heads[from])

\* Mutant of MergeInto: diverged branches are not merged, the source wins.
MergeTakesFrom(g, from, into) ==
  IF g.heads[from] = None \/ Contains(g, into, from) THEN g
  ELSE IF Behind(g, into, from) THEN [g EXCEPT !.heads[into] = g.heads[from]]
  ELSE CommitTo(g, into, Content(g, from))

MergeInto(g, from, into) ==
  IF g.heads[from] = None THEN g
  ELSE IF Behind(g, into, from) THEN [g EXCEPT !.heads[into] = g.heads[from]]
  ELSE IF Contains(g, into, from) THEN g
  ELSE CommitTo(g, into, MergeDatabases(Content(g, into), Content(g, from)))

\* What merge_branch_into returns.
MergeReports(g, from, into) ==
  g.heads[from] # None /\ (Behind(g, into, from) \/ ~Contains(g, into, from))

Unchanged(g, c, db) == g.heads[c] # None /\ Content(g, c) = db

\* process_client_write, and whether it reports that main was updated.
ClientWrite(g, c, db) ==
  IF Unchanged(g, c, db) THEN g ELSE MergeInto(CommitTo(g, c, db), c, Main)
WriteReports(g, c, db) ==
  ~Unchanged(g, c, db) /\ MergeReports(CommitTo(g, c, db), c, Main)

\* create_sync_merge_commit has nothing to offer, or leaves its offer in temp.
UpToDate(g, c) == g.heads[Main] = None \/ Contains(g, c, Main)

CreateMerge(g, c) ==
  IF Behind(g, c, Main)
  THEN [g EXCEPT !.temp[c] = g.heads[Main]]
  ELSE [g EXCEPT !.commits = AddCommit(g.commits, {g.heads[c], g.heads[Main]},
                               MergeDatabases(Content(g, c), Content(g, Main))),
                 !.temp[c] = Len(g.commits) + 1]

\* promote_sync_merge_commit: the pending commit is the one asked for, and the
\* branch is where the merge found it.
Pending(g, c, d) == d # None /\ g.temp[c] = d
Promotable(g, c, d, tip) == Pending(g, c, d) /\ g.heads[c] = tip
PromoteMerge(g, c, d) == [g EXCEPT !.heads[c] = d, !.temp[c] = None]

\* Its two ref updates can part: the branch is moved, and the clean-up of the temp
\* ref fails.  The caller is told of an error.
MoveBranch(g, c, d) == [g EXCEPT !.heads[c] = d]
================================================================================
