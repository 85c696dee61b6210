--------------------------- MODULE CommitGraph_proofs --------------------------
(* Facts about the commit graph that the proofs about the store rest on. *)
EXTENDS CommitGraph, TLAPS

\* cs2 is cs with commits written after it.
Grows(cs, cs2) ==
  /\ Len(cs) <= Len(cs2)
  /\ \A i \in Ids(cs) : cs2[i] = cs[i]

\* There is a database to hold in an unused local.
LEMMA NoDbType == NoDb \in Databases
<1>1. PICK k \in Configs : TRUE
  BY SomeConfig
<1>2. [entries |-> {}, config |-> k] \in Databases
  BY <1>1 DEF Databases
<1>. QED
  BY <1>2 DEF NoDb

\* A keepass merge of two databases is a database.
LEMMA MergeType ==
  ASSUME NEW x \in Databases, NEW y \in Databases
  PROVE  MergeDatabases(x, y) \in Databases
BY DEF MergeDatabases, Databases

\* A commit reaches itself, and only commits that exist.
LEMMA ReachBounds ==
  ASSUME NEW cs \in Seq(Commits), WellFormed(cs), NEW d \in Ids(cs)
  PROVE  d \in cs[d].reach /\ cs[d].reach \subseteq Ids(cs)
<1>1. d \in Nat /\ Len(cs) \in Nat /\ d <= Len(cs)
  BY DEF Ids
<1>2. cs[d].reach \subseteq 1..d
  BY DEF WellFormed
<1>3. cs[d].reach = {d} \cup UNION {cs[q].reach : q \in cs[d].parents}
  BY DEF WellFormed
<1>4. d \in cs[d].reach
  BY <1>3, Zenon
<1>. QED
  BY <1>1, <1>2, <1>4 DEF Ids

\* Writing a commit adds one well-formed commit that contains its parents.
LEMMA AddCommitFacts ==
  ASSUME NEW cs \in Seq(Commits), WellFormed(cs),
         NEW ps \in SUBSET Ids(cs), NEW db \in Databases,
         NEW cs2, cs2 = AddCommit(cs, ps, db)
  PROVE  /\ cs2 \in Seq(Commits)
         /\ Len(cs2) = Len(cs) + 1
         /\ Grows(cs, cs2)
         /\ WellFormed(cs2)
         /\ \A q \in ps : IsAncestor(cs2, q, Len(cs) + 1)
<1> DEFINE n == Len(cs) + 1
           new == [parents |-> ps, db |-> db,
                   reach |-> {n} \cup UNION {cs[q].reach : q \in ps}]
<1>1. Len(cs) \in Nat /\ n \in Nat \ {0} /\ ps \subseteq 1..(n - 1)
  BY DEF Ids
<1>2. \A q \in ps : cs[q].reach \subseteq 1..(n - 1)
  BY <1>1, ReachBounds DEF Ids
<1>3. new \in Commits
  BY <1>1, <1>2 DEF Commits
<1>4. cs2 = Append(cs, new)
  BY DEF AddCommit
<1>5. cs2 \in Seq(Commits) /\ Len(cs2) = n
  BY <1>1, <1>3, <1>4
<1>6. cs2[n] = new /\ \A i \in Ids(cs) : cs2[i] = cs[i]
  BY <1>1, <1>3, <1>4 DEF Ids
<1>7. Grows(cs, cs2)
  BY <1>1, <1>5, <1>6 DEF Grows
<1>8. ASSUME NEW i \in Ids(cs2)
      PROVE  /\ cs2[i].parents \subseteq 1..(i - 1)
             /\ cs2[i].reach \subseteq 1..i
             /\ cs2[i].reach = {i} \cup UNION {cs2[q].reach : q \in cs2[i].parents}
  <2>1. CASE i = n
    <3>1. \A q \in ps : cs2[q] = cs[q]
      BY <1>6
    <3>2. UNION {cs2[q].reach : q \in ps} = UNION {cs[q].reach : q \in ps}
      BY <3>1
    <3>. HIDE DEF new
    <3>3. cs2[i].parents = ps /\ cs2[i].reach = {n} \cup UNION {cs[q].reach : q \in ps}
      BY <1>6, <2>1 DEF new
    <3>4. UNION {cs[q].reach : q \in ps} \subseteq 1..(n - 1)
      BY <1>2
    <3>5. cs2[i].parents \subseteq 1..(i - 1)
      BY <1>1, <2>1, <3>3
    <3>6. cs2[i].reach \subseteq 1..i
      BY <1>1, <2>1, <3>3, <3>4
    <3>7. cs2[i].reach = {i} \cup UNION {cs2[q].reach : q \in cs2[i].parents}
      BY <2>1, <3>2, <3>3, Zenon
    <3>. QED
      BY <3>5, <3>6, <3>7
  <2>2. CASE i \in Ids(cs)
    <3>1. cs2[i] = cs[i]
      BY <1>6, <2>2
    <3>2. /\ cs[i].parents \subseteq 1..(i - 1)
          /\ cs[i].reach \subseteq 1..i
          /\ cs[i].reach = {i} \cup UNION {cs[q].reach : q \in cs[i].parents}
      BY <2>2 DEF WellFormed
    <3>3. \A q \in cs[i].parents : q \in Ids(cs)
      BY <1>1, <2>2, <3>2 DEF Ids
    <3>4. \A q \in cs[i].parents : cs2[q] = cs[q]
      BY <1>6, <3>3
    <3>5. UNION {cs2[q].reach : q \in cs[i].parents} = UNION {cs[q].reach : q \in cs[i].parents}
      BY <3>4
    <3>. QED
      BY <3>1, <3>2, <3>5
  <2>. QED
    BY <1>1, <1>5, <2>1, <2>2 DEF Ids
<1>9. WellFormed(cs2)
  BY <1>8 DEF WellFormed
<1>10. ASSUME NEW q \in ps PROVE IsAncestor(cs2, q, n)
  <2>1. q \in cs[q].reach
    BY ReachBounds
  <2>2. q \in new.reach
    BY <2>1
  <2>. QED
    BY <1>1, <1>6, <2>2 DEF IsAncestor, None
<1>. QED
  BY <1>5, <1>7, <1>9, <1>10

\* What a ref could be moved to stays so when commits are written.
LEMMA ForwardGrows ==
  ASSUME NEW cs, NEW cs2, Grows(cs, cs2), NEW a, NEW d \in Ids(cs), Forward(cs, a, d)
  PROVE  Forward(cs2, a, d)
BY DEF Forward, IsAncestor, Grows, Ids

\* Leaving a ref where it is loses nothing.
LEMMA ForwardStays ==
  ASSUME NEW cs \in Seq(Commits), WellFormed(cs), NEW d \in Tips(cs)
  PROVE  Forward(cs, d, d)
<1>1. CASE d = None
  BY <1>1 DEF Forward
<1>2. CASE d # None
  <2>1. d \in Ids(cs)
    BY <1>2 DEF Tips, Ids, None
  <2>. QED
    BY <1>2, <2>1, ReachBounds DEF Forward, IsAncestor
<1>. QED
  BY <1>1, <1>2
--------------------------------------------------------------------------------
(* Ancestry is transitive.  What a commit reaches is fixed when it is      *)
(* written, so that this is an invariant of the sequence of commits.       *)

ReachClosed(cs) ==
  \A d \in Ids(cs) : \A a \in cs[d].reach : cs[a].reach \subseteq cs[d].reach

\* A commit on top of old ones keeps ancestry transitive.
LEMMA ClosedGrows ==
  ASSUME NEW cs \in Seq(Commits), NEW cs2 \in Seq(Commits), WellFormed(cs), WellFormed(cs2),
         Grows(cs, cs2), Len(cs2) \in {Len(cs), Len(cs) + 1}, ReachClosed(cs)
  PROVE  ReachClosed(cs2)
<1>1. /\ Len(cs) \in Nat /\ Len(cs2) \in Nat
      /\ \A i \in Ids(cs) : i \in Ids(cs2) /\ cs2[i] = cs[i]
  BY DEF Grows, Ids
<1>2. ASSUME NEW d \in Ids(cs), NEW a \in cs2[d].reach
      PROVE  cs2[a].reach \subseteq cs2[d].reach
  <2>1. cs2[d] = cs[d]
    BY <1>1
  <2>2. a \in Ids(cs)
    BY <1>2, <2>1, ReachBounds
  <2>3. cs[a].reach \subseteq cs[d].reach
    BY <1>2, <2>1 DEF ReachClosed
  <2>. QED
    BY <1>1, <2>1, <2>2, <2>3
<1>3. ASSUME NEW d \in Ids(cs2), d \notin Ids(cs), NEW a \in cs2[d].reach
      PROVE  cs2[a].reach \subseteq cs2[d].reach
  <2>1. /\ cs2[d].parents \subseteq 1..(d - 1)
        /\ cs2[d].reach = {d} \cup UNION {cs2[q].reach : q \in cs2[d].parents}
    BY DEF WellFormed
  <2>2. d = Len(cs) + 1
    BY <1>1, <1>3 DEF Ids
  <2>3. CASE a = d
    BY <2>3
  <2>4. CASE a # d
    <3>1. PICK q \in cs2[d].parents : a \in cs2[q].reach
      BY <1>3, <2>1, <2>4
    <3>2. q \in Ids(cs)
      BY <1>1, <2>1, <2>2, <3>1 DEF Ids
    <3>3. cs2[a].reach \subseteq cs2[q].reach
      BY <1>2, <3>1, <3>2
    <3>4. cs2[q].reach \subseteq cs2[d].reach
      BY <2>1, <3>1
    <3>. QED
      BY <3>3, <3>4
  <2>. QED
    BY <2>3, <2>4
<1>. QED
  BY <1>2, <1>3 DEF ReachClosed
================================================================================
