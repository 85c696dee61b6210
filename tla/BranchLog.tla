------------------------------- MODULE BranchLog -------------------------------
(***************************************************************************)
(* What the git store promises its callers, whatever requests run: an      *)
(* append-only set of commits, branches that exist for ever once created   *)
(* and only move to a commit that contains their old tip, and at most one  *)
(* pending sync merge per client, which is replaced by a newer one or      *)
(* cleared once its branch contains it.                                    *)
(***************************************************************************)
EXTENDS CommitGraph

VARIABLES
  commits,   \* every commit object ever written
  heads,     \* refs/heads/<branch>, None when absent
  temp       \* refs/sync-temp/<client>, None when absent

logVars == <<commits, heads, temp>>

LogInit ==
  /\ commits \in Seq(Commits) /\ WellFormed(commits)
  /\ heads \in [Branches -> Tips(commits)]
  /\ temp = [c \in Clients |-> None]

\* A commit object is written: it names older commits as its parents.
AppendsCommit ==
  /\ Len(commits') = Len(commits) + 1
  /\ LET new == commits'[Len(commits')] IN
       /\ new.parents \subseteq Ids(commits) /\ new.db \in Databases
       /\ commits' = AddCommit(commits, new.parents, new.db)

\* Objects are written first and become visible only when a ref names them.
WriteObject == UNCHANGED <<heads, temp>> /\ AppendsCommit

Advance(b) ==
  /\ UNCHANGED <<commits, temp>>
  /\ \E d \in Ids(commits) :
        /\ heads' = [heads EXCEPT ![b] = d]
        /\ Forward(commits, heads[b], d)

\* A sync merge contains the tip of the branch it is offered to.  The merge
\* commit and the ref that protects it are written by one task.
OfferMerge(c) ==
  /\ UNCHANGED heads
  /\ UNCHANGED commits \/ AppendsCommit
  /\ \E d \in Ids(commits') :
        /\ temp' = [temp EXCEPT ![c] = d]
        /\ Forward(commits', heads[c], d)

ClearMerge(c) ==
  /\ temp[c] # None => IsAncestor(commits, temp[c], heads[c])
  /\ temp' = [temp EXCEPT ![c] = None]
  /\ UNCHANGED <<commits, heads>>

LogNext ==
  \/ WriteObject
  \/ \E b \in Branches : Advance(b)
  \/ \E c \in Clients : OfferMerge(c) \/ ClearMerge(c)

LogSpec == LogInit /\ [][LogNext]_logVars
================================================================================
