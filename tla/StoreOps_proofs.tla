----------------------------- MODULE StoreOps_proofs ----------------------------
(***************************************************************************)
(* What the store calls do to the repository: every one of them writes     *)
(* commits after the old ones, moves branches forward, touches no branch   *)
(* or pending merge but its own, and drops no edit that it does not know.  *)
(***************************************************************************)
EXTENDS StoreOps, CommitGraph_proofs

\* The repository is whole: ancestry is known, and no ref dangles.
RepoOK(g) ==
  /\ g \in Repos /\ WellFormed(g.commits) /\ ReachClosed(g.commits)
  /\ g.heads \in [Branches -> Tips(g.commits)]
  /\ g.temp \in [Clients -> Tips(g.commits)]

\* No commit lacks an edit of one it descends from.
Monotone(cs) ==
  \A d \in Ids(cs) : \A a \in cs[d].reach : cs[a].db.entries \subseteq cs[d].db.entries

\* h is g after store calls that write no branch but those in bs.
Evolves(g, h, bs) ==
  /\ RepoOK(h) /\ Grows(g.commits, h.commits)
  /\ \A b \in Branches : Forward(h.commits, g.heads[b], h.heads[b])
  /\ \A b \in Branches \ bs : h.heads[b] = g.heads[b]

\* On the way from g to h no commit was written that lacks what it descends from.
DropsNothing(g, h) == Monotone(g.commits) => Monotone(h.commits)

\* A ref that is set names a commit.
LEMMA HeadIsCommit ==
  ASSUME NEW g, RepoOK(g), NEW b \in Branches
  PROVE  /\ g.heads[b] \in Tips(g.commits)
         /\ g.heads[b] # None => /\ g.heads[b] \in Ids(g.commits)
                                 /\ Content(g, b) = g.commits[g.heads[b]].db
                                 /\ Content(g, b) \in Databases
<1>1. g.heads[b] \in Tips(g.commits) /\ g.commits \in Seq(Commits)
  BY DEF RepoOK, Repos
<1>2. ASSUME g.heads[b] # None
      PROVE  g.heads[b] \in Ids(g.commits) /\ g.commits[g.heads[b]] \in Commits
  BY <1>1, <1>2 DEF Tips, Ids, None
<1>. QED
  BY <1>1, <1>2 DEF Content, Commits

\* Nothing happened.
LEMMA EvolvesStays ==
  ASSUME NEW g, RepoOK(g), NEW bs
  PROVE  Evolves(g, g, bs)
<1>1. \A b \in Branches : Forward(g.commits, g.heads[b], g.heads[b])
  BY ForwardStays DEF RepoOK, Repos
<1>2. Grows(g.commits, g.commits)
  BY DEF RepoOK, Repos, Grows, Ids
<1>. QED
  BY <1>1, <1>2 DEF Evolves

\* Going forward twice is going forward.
LEMMA ForwardTwice ==
  ASSUME NEW cs, ReachClosed(cs), NEW a, NEW b \in Tips(cs), NEW c \in Tips(cs),
         Forward(cs, a, b), Forward(cs, b, c)
  PROVE  Forward(cs, a, c)
<1>1. CASE a = None
  BY <1>1 DEF Forward
<1>2. CASE a # None
  <2>1. a \in cs[b].reach /\ b # None /\ b \in cs[c].reach /\ c # None
    BY <1>2 DEF Forward, IsAncestor
  <2>2. c \in Ids(cs)
    BY <2>1 DEF Tips, Ids, None
  <2>3. cs[b].reach \subseteq cs[c].reach
    BY <2>1, <2>2 DEF ReachClosed
  <2>. QED
    BY <2>1, <2>3 DEF Forward, IsAncestor
<1>. QED
  BY <1>1, <1>2

\* One store call after the other.
LEMMA EvolvesTwice ==
  ASSUME NEW g, NEW h, NEW k, NEW bs, RepoOK(g), Evolves(g, h, bs), Evolves(h, k, bs)
  PROVE  Evolves(g, k, bs)
<1>1. /\ g.commits \in Seq(Commits) /\ h.commits \in Seq(Commits) /\ k.commits \in Seq(Commits)
      /\ RepoOK(h) /\ RepoOK(k)
  BY DEF RepoOK, Repos, Evolves
<1>2. Grows(g.commits, k.commits)
  BY <1>1 DEF Evolves, Grows, Ids
<1>3. ASSUME NEW b \in Branches PROVE Forward(k.commits, g.heads[b], k.heads[b])
  <2>1. /\ h.heads[b] \in Tips(h.commits) /\ k.heads[b] \in Tips(k.commits)
        /\ h.heads[b] \in Tips(k.commits)
    BY <1>1 DEF RepoOK, Evolves, Grows, Tips
  <2>2. Forward(k.commits, h.heads[b], k.heads[b])
    BY DEF Evolves
  <2>3. CASE h.heads[b] = None
    BY <2>3 DEF Evolves, Forward, IsAncestor
  <2>4. CASE h.heads[b] # None
    <3>1. h.heads[b] \in Ids(h.commits)
      BY <2>1, <2>4 DEF Tips, Ids, None
    <3>2. Forward(k.commits, g.heads[b], h.heads[b])
      BY <3>1, ForwardGrows DEF Evolves
    <3>. QED
      BY <1>1, <2>1, <2>2, <3>2, ForwardTwice DEF RepoOK
  <2>. QED
    BY <2>3, <2>4
<1>4. \A b \in Branches \ bs : k.heads[b] = g.heads[b]
  BY DEF Evolves
<1>. QED
  BY <1>1, <1>2, <1>3, <1>4 DEF Evolves

\* A ref that is set stays set.
LEMMA HeadsStay ==
  ASSUME NEW g, NEW h, NEW bs, Evolves(g, h, bs), NEW b \in Branches, g.heads[b] # None
  PROVE  h.heads[b] # None
BY DEF Evolves, Forward, IsAncestor

\* Who contained a commit contains it after more store calls.
LEMMA AncestorsStay ==
  ASSUME NEW g, NEW h, NEW bs, RepoOK(g), Evolves(g, h, bs), NEW b \in Branches,
         NEW a, a # None, IsAncestor(g.commits, a, g.heads[b])
  PROVE  IsAncestor(h.commits, a, h.heads[b])
<1>1. g.heads[b] \in Ids(g.commits)
  BY HeadIsCommit DEF IsAncestor
<1>2. Forward(h.commits, a, g.heads[b])
  BY <1>1, ForwardGrows DEF Evolves, Forward
<1>3. g.heads[b] \in Tips(h.commits) /\ h.heads[b] \in Tips(h.commits)
  BY <1>1 DEF Evolves, RepoOK, Grows, Ids, Tips
<1>4. Forward(h.commits, g.heads[b], h.heads[b]) /\ ReachClosed(h.commits)
  BY DEF Evolves, RepoOK
<1>. QED
  BY <1>2, <1>3, <1>4, ForwardTwice DEF Forward

\* A branch that moves forward keeps its edits while no commit drops any.
LEMMA ForwardKeepsEdits ==
  ASSUME NEW g, NEW h, NEW bs, RepoOK(g), Evolves(g, h, bs), Monotone(h.commits),
         NEW b \in Branches, g.heads[b] # None
  PROVE  Content(g, b).entries \subseteq Content(h, b).entries
<1>1. g.heads[b] \in Ids(g.commits) /\ h.heads[b] # None
  BY HeadIsCommit, HeadsStay
<1>2. h.heads[b] \in Ids(h.commits) /\ RepoOK(h)
  BY <1>1, HeadIsCommit DEF Evolves
<1>3. g.heads[b] \in h.commits[h.heads[b]].reach
  BY DEF Evolves, Forward, IsAncestor
<1>4. h.commits[g.heads[b]] = g.commits[g.heads[b]]
  BY <1>1 DEF Evolves, Grows
<1>. QED
  BY <1>2, <1>3, <1>4 DEF Monotone, Content

--------------------------------------------------------------------------------
(* The calls.                                                              *)

\* A commit on top of old ones that holds what they hold drops no edit.
LEMMA MonotoneGrows ==
  ASSUME NEW cs \in Seq(Commits), WellFormed(cs), Monotone(cs),
         NEW ps \in SUBSET Ids(cs), NEW db \in Databases,
         \A q \in ps : cs[q].db.entries \subseteq db.entries,
         NEW cs2, cs2 = AddCommit(cs, ps, db)
  PROVE  Monotone(cs2)
<1> DEFINE n == Len(cs) + 1
           new == [parents |-> ps, db |-> db,
                   reach |-> {n} \cup UNION {cs[q].reach : q \in ps}]
<1>1. Len(cs) \in Nat /\ cs2 = Append(cs, new)
  BY DEF AddCommit
<1>2. Len(cs2) = n /\ cs2[n] = new /\ \A i \in Ids(cs) : cs2[i] = cs[i]
  BY <1>1, AddCommitFacts DEF Ids, Grows
<1>3. ASSUME NEW d \in Ids(cs), NEW a \in cs2[d].reach
      PROVE  cs2[a].db.entries \subseteq cs2[d].db.entries
  <2>1. cs2[d] = cs[d]
    BY <1>2
  <2>2. a \in Ids(cs)
    BY <1>3, <2>1, ReachBounds
  <2>. QED
    BY <1>2, <1>3, <2>1, <2>2 DEF Monotone
<1>4. ASSUME NEW a \in cs2[n].reach
      PROVE  cs2[a].db.entries \subseteq cs2[n].db.entries
  <2>1. cs2[n].db = db
    BY <1>2
  <2>2. CASE a = n
    BY <2>2
  <2>3. CASE a # n
    <3>1. PICK q \in ps : a \in cs[q].reach
      BY <1>2, <1>4, <2>3
    <3>2. cs[a].db.entries \subseteq cs[q].db.entries
      BY <3>1 DEF Monotone
    <3>3. a \in Ids(cs)
      BY <3>1, ReachBounds
    <3>. QED
      BY <1>2, <2>1, <3>1, <3>2, <3>3
  <2>. QED
    BY <2>2, <2>3
<1>5. ASSUME NEW d \in Ids(cs2) PROVE d \in Ids(cs) \/ d = n
  BY <1>1, <1>2 DEF Ids
<1>. QED
  BY <1>3, <1>4, <1>5 DEF Monotone

\* A repository with one more commit, and refs that still name commits.
LEMMA AddCommitKeeps ==
  ASSUME NEW cs \in Seq(Commits), WellFormed(cs), ReachClosed(cs),
         NEW ps \in SUBSET Ids(cs), NEW db \in Databases, NEW cs2, cs2 = AddCommit(cs, ps, db)
  PROVE  /\ cs2 \in Seq(Commits) /\ WellFormed(cs2) /\ ReachClosed(cs2)
         /\ Grows(cs, cs2) /\ Len(cs) \in Nat
         /\ Len(cs) + 1 \in Ids(cs2) /\ Len(cs) + 1 \notin Ids(cs)
         /\ cs2[Len(cs) + 1].db = db
         /\ Tips(cs) \subseteq Tips(cs2) /\ Ids(cs2) \subseteq Tips(cs2)
         /\ \A q \in ps : IsAncestor(cs2, q, Len(cs) + 1)
<1>1. Len(cs) \in Nat
  OBVIOUS
<1>2. /\ cs2 \in Seq(Commits) /\ Len(cs2) = Len(cs) + 1 /\ Grows(cs, cs2) /\ WellFormed(cs2)
      /\ \A q \in ps : IsAncestor(cs2, q, Len(cs) + 1)
  BY AddCommitFacts
<1>3. ReachClosed(cs2)
  BY <1>2, ClosedGrows
<1>4. cs2[Len(cs) + 1].db = db
  BY <1>1 DEF AddCommit
<1>5. /\ Len(cs) + 1 \in Ids(cs2) /\ Len(cs) + 1 \notin Ids(cs)
      /\ Tips(cs) \subseteq Tips(cs2) /\ Ids(cs2) \subseteq Tips(cs2)
  BY <1>1, <1>2 DEF Ids, Tips
<1>. QED
  BY <1>1, <1>2, <1>3, <1>4, <1>5

\* commit_to_branch writes its branch only, and puts it on a commit of db.
LEMMA CommitToFacts ==
  ASSUME NEW g, RepoOK(g), NEW b \in Branches, NEW db \in Databases,
         NEW h, h = CommitTo(g, b, db)
  PROVE  /\ Evolves(g, h, {b}) /\ h.temp = g.temp
         /\ h.heads[b] # None /\ Content(h, b) = db
         /\ (g.heads[b] # None => Content(g, b).entries \subseteq db.entries)
              => DropsNothing(g, h)
<1> DEFINE n == Len(g.commits) + 1
           ps == {g.heads[b]} \ {None}
<1>1. /\ h.commits = AddCommit(g.commits, ps, db) /\ h.heads = [g.heads EXCEPT ![b] = n]
      /\ h.temp = g.temp /\ h \in [commits: {h.commits}, heads: {h.heads}, temp: {h.temp}]
  BY DEF CommitTo, RepoOK, Repos
<1>2. /\ g.heads \in [Branches -> Tips(g.commits)] /\ g.temp \in [Clients -> Tips(g.commits)]
      /\ g.commits \in Seq(Commits)
  BY DEF RepoOK, Repos
<1>3. ps \in SUBSET Ids(g.commits)
  BY HeadIsCommit
<1>4. /\ h.commits \in Seq(Commits) /\ WellFormed(h.commits) /\ ReachClosed(h.commits)
      /\ Grows(g.commits, h.commits) /\ Len(g.commits) \in Nat
      /\ n \in Ids(h.commits) /\ h.commits[n].db = db
      /\ Tips(g.commits) \subseteq Tips(h.commits) /\ Ids(h.commits) \subseteq Tips(h.commits)
      /\ \A q \in ps : IsAncestor(h.commits, q, n)
  <2> DEFINE cs == g.commits
             cs2 == h.commits
  <2>1. /\ cs \in Seq(Commits) /\ WellFormed(cs) /\ ReachClosed(cs) /\ ps \in SUBSET Ids(cs)
        /\ cs2 = AddCommit(cs, ps, db)
    BY <1>1, <1>3 DEF RepoOK, Repos
  <2>. HIDE DEF cs, cs2, ps
  <2>2. cs2 \in Seq(Commits) /\ WellFormed(cs2) /\ ReachClosed(cs2) /\ Grows(cs, cs2)
    BY <2>1, AddCommitKeeps
  <2>3. Len(cs) \in Nat /\ Len(cs) + 1 \in Ids(cs2) /\ cs2[Len(cs) + 1].db = db
    BY <2>1, AddCommitKeeps
  <2>4. Tips(cs) \subseteq Tips(cs2) /\ Ids(cs2) \subseteq Tips(cs2)
    BY <2>1, AddCommitKeeps
  <2>5. \A q \in ps : IsAncestor(cs2, q, Len(cs) + 1)
    BY <2>1, AddCommitKeeps
  <2>. QED
    BY <2>2, <2>3, <2>4, <2>5 DEF cs, cs2
<1>5. h.heads \in [Branches -> Tips(h.commits)] /\ h.temp \in [Clients -> Tips(h.commits)]
  BY <1>1, <1>2, <1>4
<1>6. Tips(h.commits) \subseteq Nat
  BY <1>4 DEF Tips
<1>7. h \in Repos
  BY <1>1, <1>4, <1>5, <1>6 DEF Repos
<1>8. RepoOK(h)
  BY <1>4, <1>5, <1>7 DEF RepoOK
<1>9. h.heads[b] = n /\ n # None /\ \A c \in Branches \ {b} : h.heads[c] = g.heads[c]
  BY <1>1, <1>2, <1>4 DEF Ids, None
<1>10. ASSUME NEW c \in Branches PROVE Forward(h.commits, g.heads[c], h.heads[c])
  <2>1. CASE c = b
    BY <1>4, <1>9, <2>1 DEF Forward
  <2>2. CASE c # b
    <3>1. h.heads[c] = g.heads[c] /\ g.heads[c] \in Tips(h.commits)
      BY <1>2, <1>4, <1>9, <2>2
    <3>. QED
      BY <1>4, <3>1, ForwardStays
  <2>. QED
    BY <2>1, <2>2
<1>11. Monotone(g.commits) /\ (g.heads[b] # None => Content(g, b).entries \subseteq db.entries)
         => Monotone(h.commits)
  BY <1>1, <1>2, <1>3, MonotoneGrows DEF Content, RepoOK
<1>. QED
  BY <1>1, <1>4, <1>8, <1>9, <1>10, <1>11 DEF Evolves, Content, DropsNothing

\* A branch that is set to a commit ahead of it.
LEMMA MoveFacts ==
  ASSUME NEW g, RepoOK(g), NEW b \in Branches, NEW d \in Ids(g.commits),
         Forward(g.commits, g.heads[b], d),
         NEW h, h = MoveBranch(g, b, d)
  PROVE  /\ Evolves(g, h, {b}) /\ h.temp = g.temp /\ h.commits = g.commits
         /\ h.heads[b] = d /\ d # None
<1>1. /\ h.commits = g.commits /\ h.heads = [g.heads EXCEPT ![b] = d]
      /\ h.temp = g.temp /\ h \in [commits: {h.commits}, heads: {h.heads}, temp: {h.temp}]
  BY DEF MoveBranch, RepoOK, Repos
<1>2. /\ g.heads \in [Branches -> Tips(g.commits)] /\ g.temp \in [Clients -> Tips(g.commits)]
      /\ g.commits \in Seq(Commits) /\ WellFormed(g.commits)
  BY DEF RepoOK, Repos
<1>3. d \in Tips(g.commits) /\ d # None /\ Tips(g.commits) \subseteq Nat
  BY <1>2 DEF Ids, Tips, None
<1>4. h.heads \in [Branches -> Tips(h.commits)]
  BY <1>1, <1>2, <1>3
<1>5. RepoOK(h)
  BY <1>1, <1>2, <1>3, <1>4 DEF RepoOK, Repos
<1>6. h.heads[b] = d /\ \A c \in Branches \ {b} : h.heads[c] = g.heads[c]
  BY <1>1, <1>2
<1>7. ASSUME NEW c \in Branches PROVE Forward(h.commits, g.heads[c], h.heads[c])
  <2>1. CASE c = b
    BY <1>1, <1>6, <2>1
  <2>2. CASE c # b
    BY <1>1, <1>2, <1>6, <2>2, ForwardStays
  <2>. QED
    BY <2>1, <2>2
<1>8. Grows(g.commits, h.commits)
  BY <1>1, <1>2 DEF Grows, Ids
<1>. QED
  BY <1>1, <1>3, <1>5, <1>6, <1>7, <1>8 DEF Evolves

\* ensure_client_branch creates the branch where main is.
LEMMA EnsureFacts ==
  ASSUME NEW g, RepoOK(g), NEW c \in Clients, NEW h, h = EnsureBranch(g, c)
  PROVE  /\ Evolves(g, h, {c}) /\ h.temp = g.temp /\ h.commits = g.commits
         /\ g.heads[Main] # None => h.heads[c] # None
<1>1. CASE g.heads[c] # None
  <2>1. h = g
    BY <1>1 DEF EnsureBranch
  <2>. QED
    BY <1>1, <2>1, EvolvesStays
<1>2. CASE g.heads[c] = None /\ g.heads[Main] # None
  <2>1. g.heads[Main] \in Ids(g.commits) /\ c \in Branches
    BY <1>2, HeadIsCommit DEF Branches
  <2> DEFINE d == g.heads[Main]
  <2>2. h = MoveBranch(g, c, d) /\ d \in Ids(g.commits)
    BY <1>2, <2>1 DEF EnsureBranch, MoveBranch
  <2>3. Forward(g.commits, g.heads[c], d)
    BY <1>2 DEF Forward
  <2>. HIDE DEF d
  <2>4. Evolves(g, h, {c}) /\ h.temp = g.temp /\ h.commits = g.commits
    BY <2>1, <2>2, <2>3, MoveFacts
  <2>5. h.heads[c] = d
    BY <2>1, <2>2 DEF MoveBranch, RepoOK, Repos
  <2>. QED
    BY <1>2, <2>4, <2>5 DEF d
<1>3. CASE g.heads[c] = None /\ g.heads[Main] = None
  <2>1. h = [g EXCEPT !.heads = [g.heads EXCEPT ![c] = None]]
    BY <1>3 DEF EnsureBranch
  <2>2. [g.heads EXCEPT ![c] = None] = g.heads
    BY <1>3 DEF RepoOK
  <2>3. h = g
    BY <2>1, <2>2 DEF RepoOK, Repos
  <2>. QED
    BY <1>3, <2>3, EvolvesStays
<1>. QED
  BY <1>1, <1>2, <1>3

\* If main exists, so does the branch then.
LEMMA EnsureMakes ==
  ASSUME NEW g, RepoOK(g), NEW c \in Clients, g.heads[Main] # None,
         NEW h, h = EnsureBranch(g, c)
  PROVE  h.heads[c] # None
BY EnsureFacts

\* A branch that is not written keeps its database.
LEMMA ContentStays ==
  ASSUME NEW g, NEW h, NEW bs, RepoOK(g), Evolves(g, h, bs), NEW b \in Branches \ bs,
         g.heads[b] # None
  PROVE  Content(h, b) = Content(g, b)
<1>1. h.heads[b] = g.heads[b] /\ g.heads[b] \in Ids(g.commits)
  BY HeadIsCommit DEF Evolves
<1>. QED
  BY <1>1 DEF Content, Evolves, Grows

\* merge_branch_into writes the target only, and drops no edit of either side.
LEMMA MergeIntoFacts ==
  ASSUME NEW g, RepoOK(g), NEW from \in Branches, NEW into \in Branches,
         NEW h, h = MergeInto(g, from, into)
  PROVE  /\ Evolves(g, h, {into}) /\ h.temp = g.temp
         /\ g.heads[from] # None => h.heads[into] # None
         /\ DropsNothing(g, h)
<1> DEFINE db == MergeDatabases(Content(g, into), Content(g, from))
           d == g.heads[from]
<1>1. CASE g.heads[from] = None
  <2>1. h = g
    BY <1>1 DEF MergeInto
  <2>. QED
    BY <1>1, <2>1, EvolvesStays DEF DropsNothing
<1>2. CASE g.heads[from] # None /\ Behind(g, into, from)
  <2>1. h = MoveBranch(g, into, d) /\ d \in Ids(g.commits) /\ Forward(g.commits, g.heads[into], d)
    BY <1>2, HeadIsCommit DEF MergeInto, MoveBranch, Behind
  <2>2. h.heads[into] = d /\ d # None
    BY <1>2, <2>1 DEF MoveBranch, RepoOK, Repos
  <2>. HIDE DEF d
  <2>3. Evolves(g, h, {into}) /\ h.temp = g.temp /\ h.commits = g.commits
    BY <2>1, MoveFacts
  <2>. QED
    BY <2>2, <2>3 DEF DropsNothing
<1>3. CASE g.heads[from] # None /\ ~Behind(g, into, from) /\ Contains(g, into, from)
  <2>1. h = g /\ g.heads[into] # None
    BY <1>3 DEF MergeInto, Contains, IsAncestor
  <2>. QED
    BY <2>1, EvolvesStays DEF DropsNothing
<1>4. CASE g.heads[from] # None /\ ~Behind(g, into, from) /\ ~Contains(g, into, from)
  <2>1. h = CommitTo(g, into, db) /\ g.heads[into] # None
    BY <1>4 DEF MergeInto, Behind, Forward
  <2>2. /\ Content(g, into) \in Databases /\ Content(g, from) \in Databases
    BY <1>4, <2>1, HeadIsCommit
  <2>3. db \in Databases /\ Content(g, into).entries \subseteq db.entries
    BY <2>2, MergeType DEF MergeDatabases
  <2>. HIDE DEF db
  <2>4. Evolves(g, h, {into}) /\ h.temp = g.temp
    BY <2>1, <2>3, CommitToFacts
  <2>5. h.heads[into] # None
    BY <2>1, <2>4, HeadsStay
  <2>6. DropsNothing(g, h)
    BY <2>1, <2>3, CommitToFacts
  <2>. QED
    BY <2>4, <2>5, <2>6 DEF DropsNothing
<1>. QED
  BY <1>1, <1>2, <1>3, <1>4

\* process_client_write puts the branch on db and takes main along.
LEMMA ClientWriteFacts ==
  ASSUME NEW g, RepoOK(g), NEW c \in Clients, NEW db \in Databases,
         NEW h, h = ClientWrite(g, c, db)
  PROVE  /\ Evolves(g, h, {c, Main}) /\ h.temp = g.temp
         /\ h.heads[c] # None /\ Content(h, c) = db
         /\ (g.heads[c] # None => Content(g, c).entries \subseteq db.entries)
              => DropsNothing(g, h)
<1>1. c \in Branches /\ Main \in Branches /\ c # Main
  BY MainIsNoClient DEF Branches
<1>2. CASE Unchanged(g, c, db)
  BY <1>2, EvolvesStays DEF ClientWrite, Unchanged, DropsNothing
<1>3. CASE ~Unchanged(g, c, db)
  <2> DEFINE k == CommitTo(g, c, db)
  <2>1. h = MergeInto(k, c, Main)
    BY <1>3 DEF ClientWrite
  <2>2. k = CommitTo(g, c, db)
    OBVIOUS
  <2>. HIDE DEF k
  <2>3. Evolves(g, k, {c}) /\ k.temp = g.temp /\ k.heads[c] # None /\ Content(k, c) = db
    BY <1>1, <2>2, CommitToFacts
  <2>4. (g.heads[c] # None => Content(g, c).entries \subseteq db.entries) => DropsNothing(g, k)
    BY <1>1, <2>2, CommitToFacts
  <2>5. RepoOK(k)
    BY <2>3 DEF Evolves
  <2>6. Evolves(k, h, {Main}) /\ h.temp = k.temp
    BY <1>1, <2>1, <2>5, MergeIntoFacts
  <2>7. DropsNothing(k, h)
    BY <1>1, <2>1, <2>5, MergeIntoFacts
  <2>8. h.heads[c] # None
    BY <1>1, <2>3, <2>6 DEF Evolves
  <2>9. Content(h, c) = Content(k, c)
    BY <1>1, <2>3, <2>5, <2>6, ContentStays
  <2>10. Evolves(g, k, {c, Main}) /\ Evolves(k, h, {c, Main})
    BY <2>3, <2>6 DEF Evolves
  <2>11. Evolves(g, h, {c, Main})
    BY <2>10, EvolvesTwice
  <2>. QED
    BY <2>3, <2>4, <2>6, <2>7, <2>8, <2>9, <2>11 DEF DropsNothing
<1>. QED
  BY <1>2, <1>3

\* create_sync_merge_commit offers a commit that the branch does not have and
\* that contains its tip, and moves no branch.
LEMMA CreateMergeFacts ==
  ASSUME NEW g, RepoOK(g), NEW c \in Clients, ~UpToDate(g, c),
         NEW h, h = CreateMerge(g, c)
  PROVE  /\ Evolves(g, h, {})
         /\ \A x \in Clients \ {c} : h.temp[x] = g.temp[x]
         /\ h.temp[c] \in Ids(h.commits) /\ Forward(h.commits, g.heads[c], h.temp[c])
         /\ ~IsAncestor(g.commits, h.temp[c], g.heads[c])
         /\ DropsNothing(g, h)
<1>1. c \in Branches /\ Main \in Branches /\ g.heads[Main] # None /\ ~Contains(g, c, Main)
  BY DEF Branches, UpToDate
<1>2. /\ g.heads \in [Branches -> Tips(g.commits)] /\ g.temp \in [Clients -> Tips(g.commits)]
      /\ g.commits \in Seq(Commits) /\ WellFormed(g.commits) /\ ReachClosed(g.commits)
  BY DEF RepoOK, Repos
<1>3. Tips(g.commits) \subseteq Nat /\ Ids(g.commits) \subseteq Tips(g.commits)
  BY <1>2 DEF Tips, Ids
<1>4. g.heads[Main] \in Ids(g.commits) /\ Content(g, Main) \in Databases
  BY <1>1, HeadIsCommit
<1>5. CASE Behind(g, c, Main)
  <2>1. /\ h.commits = g.commits /\ h.heads = g.heads
        /\ h.temp = [g.temp EXCEPT ![c] = g.heads[Main]]
        /\ h \in [commits: {h.commits}, heads: {h.heads}, temp: {h.temp}]
    BY <1>5 DEF CreateMerge, RepoOK, Repos
  <2>2. h.temp \in [Clients -> Tips(h.commits)]
    BY <1>2, <1>3, <1>4, <2>1
  <2>3. RepoOK(h)
    BY <1>2, <1>3, <2>1, <2>2 DEF RepoOK, Repos
  <2>4. Evolves(g, g, {})
    BY EvolvesStays
  <2>5. Evolves(g, h, {})
    BY <2>1, <2>3, <2>4 DEF Evolves
  <2>6. h.temp[c] = g.heads[Main] /\ \A x \in Clients \ {c} : h.temp[x] = g.temp[x]
    BY <1>2, <2>1
  <2>. QED
    BY <1>1, <1>4, <1>5, <2>1, <2>5, <2>6 DEF Behind, Contains, DropsNothing
<1>6. CASE ~Behind(g, c, Main)
  <2> DEFINE ps == {g.heads[c], g.heads[Main]}
             db == MergeDatabases(Content(g, c), Content(g, Main))
             n == Len(g.commits) + 1
             cs == g.commits
             cs2 == h.commits
  <2>1. /\ cs2 = AddCommit(cs, ps, db) /\ h.heads = g.heads
        /\ h.temp = [g.temp EXCEPT ![c] = n]
        /\ h \in [commits: {h.commits}, heads: {h.heads}, temp: {h.temp}]
    BY <1>6 DEF CreateMerge, RepoOK, Repos
  <2>2. g.heads[c] # None
    BY <1>6 DEF Behind, Forward
  <2>3. g.heads[c] \in Ids(g.commits) /\ Content(g, c) \in Databases
    BY <1>1, <2>2, HeadIsCommit
  <2>4. /\ ps \in SUBSET Ids(cs) /\ db \in Databases
        /\ \A q \in ps : cs[q].db.entries \subseteq db.entries
    <3>1. db \in Databases /\ Content(g, c).entries \subseteq db.entries
          /\ Content(g, Main).entries \subseteq db.entries
      BY <1>4, <2>3, MergeType DEF MergeDatabases
    <3>. HIDE DEF db
    <3>. QED
      BY <1>4, <2>3, <3>1 DEF Content
  <2>5. cs \in Seq(Commits) /\ WellFormed(cs) /\ ReachClosed(cs)
    BY <1>2
  <2>6. \A q \in ps : q = g.heads[c] \/ q = g.heads[Main]
    OBVIOUS
  <2>7. g.heads[c] \in ps
    OBVIOUS
  <2>. HIDE DEF ps, db, cs, cs2
  <2>8. cs2 \in Seq(Commits) /\ WellFormed(cs2) /\ ReachClosed(cs2) /\ Grows(cs, cs2)
    BY <2>1, <2>4, <2>5, AddCommitKeeps
  <2>9. Len(cs) \in Nat /\ Len(cs) + 1 \in Ids(cs2) /\ Len(cs) + 1 \notin Ids(cs)
    BY <2>1, <2>4, <2>5, AddCommitKeeps
  <2>10. Tips(cs) \subseteq Tips(cs2) /\ Ids(cs2) \subseteq Tips(cs2)
    BY <2>1, <2>4, <2>5, AddCommitKeeps
  <2>11. \A q \in ps : IsAncestor(cs2, q, Len(cs) + 1)
    BY <2>1, <2>4, <2>5, AddCommitKeeps
  <2>12. Monotone(cs) => Monotone(cs2)
    BY <2>1, <2>4, <2>5, MonotoneGrows
  <2>13. h.temp[c] = n /\ \A x \in Clients \ {c} : h.temp[x] = g.temp[x]
    BY <1>2, <2>1
  <2>14. h.temp \in [Clients -> Tips(cs2)] /\ h.heads \in [Branches -> Tips(cs2)]
    BY <1>2, <2>1, <2>9, <2>10 DEF cs
  <2>15. Tips(cs2) \subseteq Nat
    BY <2>8 DEF Tips
  <2>16. RepoOK(h)
    BY <2>1, <2>8, <2>14, <2>15 DEF RepoOK, Repos, cs2
  <2>17. \A b \in Branches : Forward(cs2, g.heads[b], h.heads[b])
    BY <2>1, <2>8, <2>14, ForwardStays
  <2>18. Evolves(g, h, {})
    BY <2>1, <2>8, <2>16, <2>17 DEF Evolves, cs, cs2
  <2>19. h.temp[c] \in Ids(h.commits) /\ Forward(h.commits, g.heads[c], h.temp[c])
    BY <2>7, <2>9, <2>11, <2>13 DEF cs, cs2, Forward
  <2>20. ~IsAncestor(g.commits, h.temp[c], g.heads[c])
    <3>1. cs[g.heads[c]].reach \subseteq Ids(cs)
      BY <2>3, <2>5, ReachBounds DEF cs
    <3>. QED
      BY <2>9, <2>13, <3>1 DEF cs, IsAncestor
  <2>. QED
    BY <2>12, <2>13, <2>18, <2>19, <2>20 DEF cs, cs2, DropsNothing
<1>. QED
  BY <1>5, <1>6

\* The edits that are to be merged: those of the client's branch and of main.
Sides(g, c) ==
  (IF g.heads[c] = None THEN {} ELSE Content(g, c).entries) \cup Content(g, Main).entries

\* What create_sync_merge_commit offers holds the edits of both sides, and no others.
LEMMA CreateMergeOffers ==
  ASSUME NEW g, RepoOK(g), NEW c \in Clients, ~UpToDate(g, c), Monotone(g.commits),
         NEW h, h = CreateMerge(g, c)
  PROVE  h.commits[h.temp[c]].db.entries = Sides(g, c)
<1>1. c \in Branches /\ Main \in Branches /\ g.heads[Main] # None
  BY DEF Branches, UpToDate
<1>2. /\ g.temp \in [Clients -> Tips(g.commits)] /\ g.commits \in Seq(Commits)
      /\ WellFormed(g.commits) /\ g \in Repos
  BY DEF RepoOK, Repos
<1>3. g.heads[Main] \in Ids(g.commits) /\ Content(g, Main) = g.commits[g.heads[Main]].db
  BY <1>1, HeadIsCommit
<1>4. CASE Behind(g, c, Main)
  <2>1. h.commits = g.commits /\ h.temp[c] = g.heads[Main]
    BY <1>2, <1>4 DEF CreateMerge, Repos
  <2>2. CASE g.heads[c] = None
    BY <1>3, <2>1, <2>2 DEF Sides
  <2>3. CASE g.heads[c] # None
    <3>1. g.heads[c] \in g.commits[g.heads[Main]].reach
      BY <1>4, <2>3 DEF Behind, Forward, IsAncestor
    <3>2. Content(g, c).entries \subseteq Content(g, Main).entries
      BY <1>3, <3>1 DEF Monotone, Content
    <3>. QED
      BY <1>3, <2>1, <2>3, <3>2 DEF Sides
  <2>. QED
    BY <2>2, <2>3
<1>5. CASE ~Behind(g, c, Main)
  <2> DEFINE ps == {g.heads[c], g.heads[Main]}
             db == MergeDatabases(Content(g, c), Content(g, Main))
             cs == g.commits
             cs2 == h.commits
  <2>1. cs2 = AddCommit(cs, ps, db) /\ h.temp[c] = Len(cs) + 1
    BY <1>2, <1>5 DEF CreateMerge, Repos
  <2>2. g.heads[c] # None
    BY <1>5 DEF Behind, Forward
  <2>3. g.heads[c] \in Ids(g.commits) /\ Content(g, c) \in Databases /\ Content(g, Main) \in Databases
    BY <1>1, <2>2, HeadIsCommit
  <2>4. /\ cs \in Seq(Commits) /\ WellFormed(cs) /\ ReachClosed(cs)
        /\ ps \in SUBSET Ids(cs) /\ db \in Databases
    BY <1>2, <1>3, <2>3, MergeType DEF RepoOK
  <2>5. db.entries = Sides(g, c)
    BY <2>2 DEF MergeDatabases, Sides
  <2>. HIDE DEF ps, db, cs, cs2
  <2>6. cs2[Len(cs) + 1].db = db
    BY <2>1, <2>4 DEF AddCommit
  <2>. QED
    BY <2>1, <2>5, <2>6 DEF cs2
<1>. QED
  BY <1>4, <1>5

\* promote_sync_merge_commit puts the branch on an offer made for its tip.
LEMMA PromoteFacts ==
  ASSUME NEW g, RepoOK(g), NEW c \in Clients, NEW d, NEW tip, Promotable(g, c, d, tip),
         Forward(g.commits, tip, d), NEW h, h = PromoteMerge(g, c, d)
  PROVE  /\ Evolves(g, h, {c}) /\ h.commits = g.commits
         /\ h.heads[c] = d /\ h.temp[c] = None
         /\ d \in Ids(g.commits)
<1>1. d # None /\ g.temp[c] = d /\ g.heads[c] = tip /\ c \in Branches
  BY DEF Promotable, Pending, Branches
<1>2. /\ g.heads \in [Branches -> Tips(g.commits)] /\ g.temp \in [Clients -> Tips(g.commits)]
      /\ g.commits \in Seq(Commits) /\ WellFormed(g.commits)
  BY DEF RepoOK, Repos
<1>3. d \in Ids(g.commits) /\ Tips(g.commits) \subseteq Nat /\ None \in Tips(g.commits)
  BY <1>1, <1>2 DEF Ids, Tips, None
<1> DEFINE k == MoveBranch(g, c, d)
<1>4. Evolves(g, k, {c}) /\ k.temp = g.temp /\ k.commits = g.commits
  <2>1. Forward(g.commits, g.heads[c], d) /\ k = MoveBranch(g, c, d)
    BY <1>1
  <2>. HIDE DEF k
  <2>. QED
    BY <1>1, <1>3, <2>1, MoveFacts
<1>5. /\ h.commits = g.commits /\ h.heads = k.heads /\ h.temp = [g.temp EXCEPT ![c] = None]
      /\ h \in [commits: {h.commits}, heads: {h.heads}, temp: {h.temp}]
      /\ h.heads = [g.heads EXCEPT ![c] = d]
  BY DEF PromoteMerge, RepoOK, Repos, MoveBranch
<1>. HIDE DEF k
<1>6. h.temp \in [Clients -> Tips(h.commits)] /\ h.temp[c] = None /\ h.heads[c] = d
  BY <1>1, <1>2, <1>3, <1>5
<1>7. RepoOK(h)
  BY <1>2, <1>3, <1>4, <1>5, <1>6 DEF RepoOK, Repos, Evolves
<1>. QED
  BY <1>3, <1>4, <1>5, <1>6, <1>7 DEF Evolves
================================================================================
