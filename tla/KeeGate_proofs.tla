----------------------------- MODULE KeeGate_proofs ----------------------------
(***************************************************************************)
(* What KeeGate promises, for every choice of databases, filters, requests *)
(* and bounds.  The service it implements: each answer that a caller of    *)
(* this server gets is the answer of one version of main, current between  *)
(* question and answer, or a failure as a whole.  And what that answer may *)
(* hold, whose credentials a request carries, and when a save is a commit. *)
(*                                                                         *)
(* The last rests on serialize: a list that it sorts is told by what it    *)
(* holds, so texts are equal exactly if users see the same.  Sorting is    *)
(* reasoned about by places: how many come before.                         *)
(***************************************************************************)
EXTENDS KeeGate, FiniteSetTheorems, TLAPS

--------------------------------------------------------------------------------
(* Orders, and the places they give.                                       *)

\* R orders S: nothing precedes itself, and of two elements one precedes the other.
StrictOrder(R, S) ==
  /\ \A x \in S : <<x, x>> \notin R
  /\ \A x, y, z \in S : <<x, y>> \in R /\ <<y, z>> \in R => <<x, z>> \in R
  /\ \A x, y \in S : x = y \/ <<x, y>> \in R \/ <<y, x>> \in R

\* The elements of S that precede x, and the place that x has by their number.
Below(R, S, x) == {y \in S : <<y, x>> \in R}
RankIn(R, S, x) == Cardinality(Below(R, S, x)) + 1

\* Of numbers there is a least one.  What holds for every position is shown by this:
\* a first position where it fails cannot be.
LEMMA LeastNumber ==
  ASSUME NEW T, T \subseteq Nat, T # {}
  PROVE  \E x \in T : \A y \in T : x <= y
<1>1. PICK x \in T : \A y \in T : ~(<<y, x>> \in OpToRel(<, Nat))
  BY NatLessThanWellFounded, WFMin
<1>2. ASSUME NEW y \in T PROVE x <= y
  <2>1. <<y, x>> \notin OpToRel(<, Nat)
    BY <1>1
  <2>2. x \in Nat /\ y \in Nat
    OBVIOUS
  <2>3. ~(y < x)
    BY <2>1, <2>2 DEF OpToRel
  <2> QED BY <2>2, <2>3
<1> QED BY <1>2

\* Who comes later has a later place,
LEMMA RankGrows ==
  ASSUME NEW S, IsFiniteSet(S), NEW R, StrictOrder(R, S), NEW x \in S, NEW y \in S,
         <<x, y>> \in R
  PROVE  RankIn(R, S, x) < RankIn(R, S, y)
<1>1. Below(R, S, x) \cup {x} \subseteq Below(R, S, y) /\ x \notin Below(R, S, x)
  BY DEF StrictOrder, Below
<1>2. IsFiniteSet(Below(R, S, x)) /\ IsFiniteSet(Below(R, S, y))
  BY FS_Subset DEF Below
<1>3. Cardinality(Below(R, S, x) \cup {x}) = Cardinality(Below(R, S, x)) + 1
  BY <1>1, <1>2, FS_AddElement
<1>4. Cardinality(Below(R, S, x) \cup {x}) <= Cardinality(Below(R, S, y))
  BY <1>1, <1>2, FS_Subset
<1>5. Cardinality(Below(R, S, x)) \in Nat /\ Cardinality(Below(R, S, y)) \in Nat
  BY <1>2, FS_CardinalityType
<1> QED BY <1>3, <1>4, <1>5 DEF RankIn

\* no place is beyond the number of elements,
LEMMA RankRange ==
  ASSUME NEW S, IsFiniteSet(S), NEW R, StrictOrder(R, S), NEW x \in S
  PROVE  RankIn(R, S, x) \in 1..Cardinality(S)
<1>1. Below(R, S, x) \subseteq S \ {x}
  BY DEF StrictOrder, Below
<1>2. IsFiniteSet(S \ {x}) /\ Cardinality(S \ {x}) = Cardinality(S) - 1
  BY FS_RemoveElement
<1>3. Cardinality(Below(R, S, x)) <= Cardinality(S) - 1 /\ IsFiniteSet(Below(R, S, x))
  BY <1>1, <1>2, FS_Subset
<1>4. Cardinality(S) \in Nat /\ Cardinality(Below(R, S, x)) \in Nat
  BY <1>3, FS_CardinalityType
<1> QED BY <1>3, <1>4 DEF RankIn

\* and every place up to it is taken:
AllTaken(R, S) == \A n \in 1..Cardinality(S) : \E x \in S : RankIn(R, S, x) = n

\* each has its element.
LEMMA RankReached ==
  ASSUME NEW S, IsFiniteSet(S), NEW R, StrictOrder(R, S)
  PROVE  AllTaken(R, S)
<1> DEFINE rank == [x \in S |-> RankIn(R, S, x)]
           N == 1..Cardinality(S)
<1>1. Cardinality(S) \in Nat
  BY FS_CardinalityType
<1>2. rank \in [S -> N]
  BY RankRange
<1>3. ASSUME NEW x \in S, NEW y \in S, rank[x] = rank[y] PROVE x = y
  <2>1. RankIn(R, S, x) \in Nat /\ RankIn(R, S, x) = RankIn(R, S, y)
    BY <1>1, <1>3, RankRange
  <2>2. ~(RankIn(R, S, x) < RankIn(R, S, y)) /\ ~(RankIn(R, S, y) < RankIn(R, S, x))
    BY <2>1
  <2> QED BY <2>2, RankGrows DEF StrictOrder
<1>4. rank \in Injection(S, N)
  BY <1>2, <1>3 DEF Injection, IsInjective
<1>5. IsFiniteSet(N) /\ Cardinality(N) = Cardinality(S)
  BY <1>1, FS_Interval
<1> HIDE DEF rank
<1>6. rank \in Surjection(S, N)
  BY <1>4, <1>5, FS_Injection
<1>7. \A n \in N : \E x \in S : rank[x] = n
  BY <1>6 DEF Surjection
<1> QED BY <1>7 DEF rank, AllTaken

--------------------------------------------------------------------------------
(* Sorting by key (slice::sort_by), on which the stored form rests.        *)

\* The order of a stable sort: by key, and by position where keys are equal.
KeyOrder(key) ==
  {p \in (DOMAIN key) \X (DOMAIN key) :
     key[p[1]] < key[p[2]] \/ (key[p[1]] = key[p[2]] /\ p[1] < p[2])}

\* It leaves no two positions undecided.
LEMMA KeyOrderIsStrict ==
  ASSUME NEW P \in SUBSET Nat, NEW key \in [P -> Nat]
  PROVE  StrictOrder(KeyOrder(key), P)
<1>1. \A i, j \in P : <<i, j>> \in KeyOrder(key) <=>
                        key[i] < key[j] \/ (key[i] = key[j] /\ i < j)
  BY DEF KeyOrder
<1>2. \A i \in P : key[i] \in Nat /\ i \in Nat
  OBVIOUS
<1> HIDE DEF KeyOrder
<1> QED BY <1>1, <1>2 DEF StrictOrder

\* The place that a stable sort (slice::sort_by) gives is the place by that order.
LEMMA PlaceIsRank ==
  ASSUME NEW P \in SUBSET Nat, NEW key \in [P -> Nat], NEW i \in P
  PROVE  Place(key, i) = RankIn(KeyOrder(key), P, i)
<1>1. {j \in DOMAIN key : key[j] < key[i] \/ (key[j] = key[i] /\ j < i)}
        = Below(KeyOrder(key), P, i)
  BY DEF Below, KeyOrder
<1> QED BY <1>1 DEF Place, RankIn

\* p lists the positions P in their order.
Arranges(p, P, key) ==
  /\ p \in Bijection(1..Cardinality(P), P)
  /\ \A m, n \in 1..Cardinality(P) :
       m < n => key[p[m]] < key[p[n]] \/ (key[p[m]] = key[p[n]] /\ p[m] < p[n])

\* t is s as read along p.
Reads(t, s, k, p) == t = [n \in 1..k |-> s[p[n]]]

\* Sorting reads the sequence along the sorted positions, each of them once.
LEMMA SortedArranges ==
  ASSUME NEW P \in SUBSET Nat, IsFiniteSet(P), NEW key \in [P -> Nat], NEW s
  PROVE  \E p : Arranges(p, P, key) /\ Reads(Sorted(s, key), s, Cardinality(P), p)
<1> DEFINE N == 1..Cardinality(P)
           p == [n \in N |-> CHOOSE i \in P : Place(key, i) = n]
<1>1. StrictOrder(KeyOrder(key), P)
  BY KeyOrderIsStrict
<1>2. Cardinality(P) \in Nat
  BY FS_CardinalityType
<1>3. AllTaken(KeyOrder(key), P)
  BY <1>1, RankReached
<1>4. ASSUME NEW n \in N PROVE p[n] \in P /\ RankIn(KeyOrder(key), P, p[n]) = n
  <2> PICK i \in P : RankIn(KeyOrder(key), P, i) = n
    BY <1>3 DEF AllTaken
  <2>1. Place(key, i) = n
    BY PlaceIsRank
  <2>2. p[n] \in P /\ Place(key, p[n]) = n
    BY <2>1
  <2> QED BY <2>2, PlaceIsRank
<1>5. p \in [N -> P]
  BY <1>4
<1>6. p \in Injection(N, P)
  BY <1>4, <1>5 DEF Injection, IsInjective
<1>7. IsFiniteSet(N) /\ Cardinality(N) = Cardinality(P)
  BY <1>2, FS_Interval
<1> HIDE DEF p
<1>8. p \in Bijection(N, P)
  BY <1>6, <1>7, FS_Injection DEF Bijection
<1>9. ASSUME NEW m \in N, NEW n \in N, m < n PROVE <<p[m], p[n]>> \in KeyOrder(key)
  <2>1. RankIn(KeyOrder(key), P, p[m]) < RankIn(KeyOrder(key), P, p[n]) /\ p[m] \in P /\ p[n] \in P
    BY <1>4, <1>9
  <2>2. ~(RankIn(KeyOrder(key), P, p[n]) < RankIn(KeyOrder(key), P, p[m])) /\ p[m] # p[n]
    BY <2>1, <1>4, <1>2
  <2> QED BY <1>1, <2>1, <2>2, RankGrows DEF StrictOrder
<1>10. Arranges(p, P, key)
  BY <1>8, <1>9 DEF Arranges, KeyOrder
<1>11. Sorted(s, key) = [n \in N |-> s[p[n]]]
  BY DEF Sorted, p
<1> QED BY <1>10, <1>11 DEF Reads

\* t holds what s holds, each position once.
Permuted(t, s, k, p) == p \in Bijection(1..k, 1..k) /\ Reads(t, s, k, p)

\* What only changes places stays the same bag.
LEMMA PermutedBag ==
  ASSUME NEW k \in Nat, NEW s, DOMAIN s = 1..k, NEW t, NEW p, Permuted(t, s, k, p)
  PROVE  ToBag(t) = ToBag(s)
<1> USE DEF Permuted, Reads
<1>1. p \in [1..k -> 1..k] /\ p \in Surjection(1..k, 1..k)
  BY DEF Bijection, Injection
<1>2. Range(t) = Range(s)
  BY <1>1 DEF Range, Surjection
<1>3. ASSUME NEW x
      PROVE  Cardinality({i \in DOMAIN t : t[i] = x}) = Cardinality({i \in DOMAIN s : s[i] = x})
  <2> DEFINE A == {i \in DOMAIN t : t[i] = x}
             B == {i \in DOMAIN s : s[i] = x}
             g == [i \in A |-> p[i]]
  <2>1. A \in SUBSET (1..k) /\ IsFiniteSet(1..k)
    BY FS_Interval
  <2>2. IsFiniteSet(A)
    BY <2>1, FS_Subset
  <2>3. g \in [A -> B]
    BY <1>1
  <2>4. g \in Injection(A, B)
    BY <2>1, <2>3 DEF Injection, IsInjective, Bijection
  <2>5. ASSUME NEW j \in B PROVE \E i \in A : g[i] = j
    <3>1. PICK i \in 1..k : p[i] = j
      BY <1>1 DEF Surjection
    <3> QED BY <3>1
  <2>6. g \in Surjection(A, B)
    BY <2>3, <2>5 DEF Surjection
  <2>7. ExistsBijection(A, B)
    BY <2>4, <2>6 DEF ExistsBijection, Bijection
  <2> HIDE DEF A, B
  <2>8. Cardinality(B) = Cardinality(A)
    BY <2>2, <2>7, FS_Bijection
  <2> QED BY <2>8 DEF A, B
<1> QED BY <1>2, <1>3 DEF ToBag

--------------------------------------------------------------------------------
(* What is sorted is told by its bag.                                      *)

\* No number is followed by a smaller one.
Ascends(a) == \A i, j \in DOMAIN a : i < j => a[i] <= a[j]

\* a and b agree before k, and at k a has the smaller number or b has ended.
LagsAt(a, b, k) ==
  /\ k \in DOMAIN a
  /\ \A i \in 1..(k - 1) : i \in DOMAIN b /\ a[i] = b[i]
  /\ k \in DOMAIN b => a[k] < b[k]

\* Ascending sequences that differ at all differ as bags: from k on, b cannot hold
\* the number at k as often as a does.
LEMMA FirstDifference ==
  ASSUME NEW m \in Nat, NEW n \in Nat, NEW a \in [1..m -> Nat], NEW b \in [1..n -> Nat],
         Ascends(a), Ascends(b), NEW k, LagsAt(a, b, k)
  PROVE  ToBag(a) # ToBag(b)
<1> USE DEF LagsAt
<1> DEFINE A == {i \in DOMAIN a : a[i] = a[k]}
           B == {i \in DOMAIN b : b[i] = a[k]}
<1>1. B \subseteq A \ {k}
  <2> SUFFICES ASSUME NEW i \in 1..n, b[i] = a[k] PROVE i \in 1..m /\ a[i] = a[k] /\ i # k
    OBVIOUS
  <2>1. i < k
    <3>1. CASE k \in 1..n
      <4>1. \A j \in 1..n : k < j => b[k] <= b[j]
        BY <3>1 DEF Ascends
      <4>2. b[k] \in Nat /\ a[k] \in Nat /\ a[k] < b[k]
        BY <3>1
      <4> QED BY <4>1, <4>2
    <3>2. CASE k \notin 1..n
      BY <3>2
    <3> QED BY <3>1, <3>2
  <2>2. i \in 1..(k - 1)
    BY <2>1
  <2> QED BY <2>1, <2>2
<1>2. A \in SUBSET (1..m) /\ IsFiniteSet(1..m)
  BY FS_Interval
<1>3. IsFiniteSet(A) /\ k \in A
  BY <1>2, FS_Subset
<1>4. IsFiniteSet(A \ {k}) /\ Cardinality(A \ {k}) = Cardinality(A) - 1
  BY <1>3, FS_RemoveElement
<1>5. Cardinality(B) <= Cardinality(A) - 1 /\ IsFiniteSet(B)
  BY <1>1, <1>4, FS_Subset
<1>6. Cardinality(A) \in Nat /\ Cardinality(B) \in Nat
  BY <1>3, <1>5, FS_CardinalityType
<1>7. Cardinality(B) # Cardinality(A)
  BY <1>5, <1>6
<1>8. a[k] \in Range(a)
  BY DEF Range
<1>9. ToBag(a) = ToBag(b) => a[k] \in Range(b) /\ ToBag(a)[a[k]] = ToBag(b)[a[k]]
  <2>1. DOMAIN ToBag(a) = Range(a) /\ DOMAIN ToBag(b) = Range(b)
    BY DEF ToBag
  <2> QED BY <1>8, <2>1
<1>10. ToBag(a)[a[k]] = Cardinality(A)
  BY <1>8 DEF ToBag
<1>11. a[k] \in Range(b) => ToBag(b)[a[k]] = Cardinality(B)
  BY DEF ToBag
<1> QED BY <1>7, <1>9, <1>10, <1>11

\* So an ascending sequence is told by its bag.
LEMMA AscendingByBag ==
  ASSUME NEW m \in Nat, NEW n \in Nat, NEW a \in [1..m -> Nat], NEW b \in [1..n -> Nat],
         Ascends(a), Ascends(b), ToBag(a) = ToBag(b)
  PROVE  m = n /\ a = b
<1> DEFINE D == {i \in Nat : \/ i \in 1..m /\ i \notin 1..n
                             \/ i \in 1..n /\ i \notin 1..m
                             \/ i \in 1..m /\ i \in 1..n /\ a[i] # b[i]}
<1>1. CASE D = {}
  <2>1. \A i \in Nat : i \in 1..m <=> i \in 1..n
    BY <1>1
  <2>2. m = n
    <3>1. ~(m < n)
      <4>1. m + 1 \in Nat /\ m + 1 \notin 1..m /\ (m < n => m + 1 \in 1..n)
        OBVIOUS
      <4> QED BY <2>1, <4>1
    <3>2. ~(n < m)
      <4>1. n + 1 \in Nat /\ n + 1 \notin 1..n /\ (n < m => n + 1 \in 1..m)
        OBVIOUS
      <4> QED BY <2>1, <4>1
    <3> QED BY <3>1, <3>2
  <2>3. ASSUME NEW i \in 1..m PROVE a[i] = b[i]
    <3>1. i \in Nat /\ i \in 1..n
      BY <2>1
    <3>2. i \notin D
      BY <1>1
    <3> QED BY <3>1, <3>2
  <2> QED BY <2>2, <2>3
<1>2. CASE D # {}
  <2>1. PICK k \in D : \A i \in D : k <= i
    BY <1>2, LeastNumber
  <2>2. k \in Nat /\ (k \in 1..m \/ k \in 1..n)
    OBVIOUS
  <2>3. ASSUME NEW i \in 1..(k - 1)
        PROVE  i \in 1..m /\ i \in 1..n /\ a[i] = b[i]
    <3>1. i \in Nat /\ i < k /\ 1 <= i
      BY <2>2
    <3>2. i \notin D
      BY <2>1, <2>2, <3>1
    <3>3. i \in 1..m \/ i \in 1..n
      BY <2>2, <3>1
    <3> QED BY <3>1, <3>2, <3>3
  <2>4. CASE k \in 1..m /\ (k \in 1..n => a[k] < b[k])
    <3>1. LagsAt(a, b, k)
      BY <2>3, <2>4 DEF LagsAt
    <3> QED BY <3>1, FirstDifference
  <2>5. CASE k \in 1..n /\ (k \in 1..m => b[k] < a[k])
    <3>1. LagsAt(b, a, k)
      BY <2>3, <2>5 DEF LagsAt
    <3> QED BY <3>1, FirstDifference
  <2>6. k \in 1..m /\ k \in 1..n => a[k] \in Nat /\ b[k] \in Nat /\ a[k] # b[k]
    OBVIOUS
  <2> QED BY <2>2, <2>4, <2>5, <2>6
<1> QED BY <1>1, <1>2

--------------------------------------------------------------------------------
(* Lists of tags, and histories, in the order of serialize.                *)

\* Sequences as functions, and back.
LEMMA SeqIsFunction ==
  ASSUME NEW S, NEW s \in Seq(S)
  PROVE  Len(s) \in Nat /\ DOMAIN s = 1..Len(s) /\ s \in [1..Len(s) -> S]
OBVIOUS

\* A function on the first k numbers is a sequence of that length.
LEMMA FunctionIsSeq ==
  ASSUME NEW S, NEW k \in Nat, NEW f \in [1..k -> S]
  PROVE  f \in Seq(S) /\ Len(f) = k
OBVIOUS

\* Along p keys ascend.
SortsBy(p, k, key) == \A m, n \in 1..k : m < n => key[p[m]] <= key[p[n]]

\* A sort by key brings keys into order and loses nothing.
LEMMA SortedSorts ==
  ASSUME NEW k \in Nat, NEW key \in [1..k -> Nat], NEW s
  PROVE  \E p : SortsBy(p, k, key) /\ Permuted(Sorted(s, key), s, k, p)
<1>1. IsFiniteSet(1..k) /\ Cardinality(1..k) = k
  BY FS_Interval
<1>2. PICK p : Arranges(p, 1..k, key) /\ Reads(Sorted(s, key), s, Cardinality(1..k), p)
  BY <1>1, SortedArranges
<1>3. p \in Bijection(1..k, 1..k)
  BY <1>1, <1>2 DEF Arranges
<1>4. p \in [1..k -> 1..k]
  BY <1>3 DEF Bijection, Injection
<1>5. ASSUME NEW m \in 1..k, NEW n \in 1..k, m < n PROVE key[p[m]] <= key[p[n]]
  <2>1. key[p[m]] \in Nat /\ key[p[n]] \in Nat
    BY <1>4
  <2>2. key[p[m]] < key[p[n]] \/ key[p[m]] = key[p[n]]
    BY <1>1, <1>2, <1>5 DEF Arranges
  <2> QED BY <2>1, <2>2
<1> QED BY <1>1, <1>2, <1>3, <1>5 DEF SortsBy, Permuted, Reads

\* Tags and associations come out in order, each as often as before (serialize).
LEMMA AscendingSorts ==
  ASSUME NEW s \in Seq(Nat)
  PROVE  /\ Ascending(s) \in Seq(Nat) /\ Len(Ascending(s)) = Len(s)
         /\ ToBag(Ascending(s)) = ToBag(s)
         /\ Ascends(Ascending(s))
<1> DEFINE k == Len(s)
<1>1. k \in Nat /\ DOMAIN s = 1..k /\ s \in [1..k -> Nat]
  BY SeqIsFunction
<1> HIDE DEF k
<1>2. PICK p : SortsBy(p, k, s) /\ Permuted(Ascending(s), s, k, p)
  BY <1>1, SortedSorts DEF Ascending
<1>3. p \in [1..k -> 1..k] /\ Ascending(s) = [n \in 1..k |-> s[p[n]]]
  BY <1>2 DEF Permuted, Reads, Bijection, Injection
<1>4. Ascending(s) \in [1..k -> Nat]
  BY <1>1, <1>2, <1>3
<1>5. Ascending(s) \in Seq(Nat) /\ Len(Ascending(s)) = k
  BY <1>1, <1>4, FunctionIsSeq
<1>6. ToBag(Ascending(s)) = ToBag(s)
  BY <1>1, <1>2, PermutedBag
<1>7. Ascends(Ascending(s))
  BY <1>2, <1>3, <1>4 DEF Ascends, SortsBy
<1> QED BY <1>5, <1>6, <1>7 DEF k

\* A sequence turned around loses nothing either.
LEMMA ReverseTurns ==
  ASSUME NEW S, NEW s \in Seq(S)
  PROVE  /\ Reverse(s) \in Seq(S) /\ Len(Reverse(s)) = Len(s)
         /\ ToBag(Reverse(s)) = ToBag(s)
<1> DEFINE k == Len(s)
           p == [n \in 1..k |-> (k - n) + 1]
<1>1. k \in Nat /\ DOMAIN s = 1..k /\ s \in [1..k -> S]
  BY SeqIsFunction
<1>2. p \in [1..k -> 1..k]
  BY <1>1
<1>3. \A m, n \in 1..k : p[m] = p[n] => m = n
  BY <1>1
<1>4. \A n \in 1..k : (k - n) + 1 \in 1..k /\ p[(k - n) + 1] = n
  BY <1>1
<1>5. p \in Bijection(1..k, 1..k)
  BY <1>2, <1>3, <1>4 DEF Bijection, Injection, Surjection, IsInjective
<1>6. Reverse(s) = [n \in 1..k |-> s[p[n]]]
  BY DEF Reverse
<1>7. Reverse(s) \in [1..k -> S]
  BY <1>1, <1>2, <1>6
<1> HIDE DEF p
<1>8. ToBag(Reverse(s)) = ToBag(s)
  <2>1. Permuted(Reverse(s), s, k, p)
    BY <1>5, <1>6 DEF Permuted, Reads
  <2> QED BY <1>1, <2>1, PermutedBag
<1> QED BY <1>1, <1>7, <1>8, FunctionIsSeq

\* serialize sorts the tags of a revision and leaves it the same revision.
LEMMA RevisionStays ==
  ASSUME NEW r \in Revisions
  PROVE  /\ CanonicalRevision(r) \in Revisions
         /\ CanonicalRevision(r).rev = r.rev
         /\ ToBag(CanonicalRevision(r).tags) = ToBag(r.tags)
         /\ Ascends(CanonicalRevision(r).tags)
<1>1. r.tags \in Seq(Nat) /\ r.rev \in Nat
  BY DEF Revisions
<1>2. Ascending(r.tags) \in Seq(Nat) /\ ToBag(Ascending(r.tags)) = ToBag(r.tags)
      /\ Ascends(Ascending(r.tags))
  BY <1>1, AscendingSorts
<1>3. CanonicalRevision(r) = [rev |-> r.rev, tags |-> Ascending(r.tags)]
  BY DEF CanonicalRevision, Revisions
<1> QED BY <1>1, <1>2, <1>3 DEF Revisions

\* A history as users see it, and the revisions' numbers.
Contents(h) == [i \in DOMAIN h |-> RevisionContent(h[i])]
Revs(h) == [i \in DOMAIN h |-> h[i].rev]

\* A history in the order that serialize makes,
CanonicalRevisions(h) ==
  /\ Ascends(Revs(h))
  /\ \A i \in DOMAIN h : Ascends(h[i].tags)

\* and one that holds what another one holds.
SameContents(g, h) ==
  /\ Len(g) = Len(h)
  /\ ToBag(Contents(g)) = ToBag(Contents(h))
  /\ Numbered(h) => Numbered(g)

\* A history whose revisions only change places holds the same.
LEMMA PermutedHistory ==
  ASSUME NEW h \in Seq(Revisions), NEW g \in Seq(Revisions), Len(g) = Len(h),
         NEW p \in Bijection(1..Len(h), 1..Len(h)),
         \A n \in 1..Len(h) : /\ g[n].rev = h[p[n]].rev
                              /\ ToBag(g[n].tags) = ToBag(h[p[n]].tags)
  PROVE  SameContents(g, h)
<1> DEFINE k == Len(h)
<1>1. k \in Nat /\ DOMAIN h = 1..k /\ DOMAIN g = 1..k
  BY SeqIsFunction
<1>2. p \in [1..k -> 1..k]
  BY DEF Bijection, Injection
<1>3. \A n \in 1..k : RevisionContent(g[n]) = RevisionContent(h[p[n]])
  BY DEF RevisionContent
<1>4. DOMAIN Contents(h) = 1..k
  BY <1>1 DEF Contents
<1>5. Contents(g) = [n \in 1..k |-> Contents(h)[p[n]]]
  BY <1>1, <1>2, <1>3 DEF Contents
<1>6. ToBag(Contents(g)) = ToBag(Contents(h))
  <2>1. Permuted(Contents(g), Contents(h), k, p)
    BY <1>5 DEF Permuted, Reads
  <2> QED BY <1>1, <1>4, <2>1, PermutedBag
<1>7. ASSUME Numbered(h) PROVE Numbered(g)
  <2> SUFFICES ASSUME NEW i \in 1..k, NEW j \in 1..k, g[i].rev = g[j].rev
               PROVE  ToBag(g[i].tags) = ToBag(g[j].tags)
    BY <1>1 DEF Numbered
  <2>1. p[i] \in 1..k /\ p[j] \in 1..k /\ h[p[i]].rev = h[p[j]].rev
    BY <1>2
  <2>2. ToBag(h[p[i]].tags) = ToBag(h[p[j]].tags)
    BY <1>1, <1>7, <2>1 DEF Numbered
  <2> QED BY <2>2
<1> QED BY <1>6, <1>7 DEF SameContents

\* serialize puts a history in order and drops none of it.
LEMMA HistorySorted ==
  ASSUME NEW h \in Seq(Revisions)
  PROVE  /\ CanonicalHistory(h) \in Seq(Revisions)
         /\ SameContents(CanonicalHistory(h), h)
         /\ CanonicalRevisions(CanonicalHistory(h))
<1> DEFINE k == Len(h)
           c == [i \in DOMAIN h |-> CanonicalRevision(h[i])]
           key == Revs(h)
           g == CanonicalHistory(h)
<1>1. k \in Nat /\ DOMAIN h = 1..k /\ h \in [1..k -> Revisions]
  BY SeqIsFunction
<1>2. key \in [1..k -> Nat]
  BY <1>1 DEF Revs, Revisions
<1>3. \A i \in 1..k : /\ c[i] \in Revisions /\ c[i].rev = h[i].rev
                      /\ ToBag(c[i].tags) = ToBag(h[i].tags) /\ Ascends(c[i].tags)
  BY <1>1, RevisionStays
<1>4. g = Sorted(c, key)
  BY DEF CanonicalHistory, Revs
<1> HIDE DEF c, key, g, k
<1>5. PICK p : SortsBy(p, k, key) /\ Permuted(g, c, k, p)
  BY <1>1, <1>2, <1>4, SortedSorts
<1>6. /\ p \in Bijection(1..k, 1..k) /\ p \in [1..k -> 1..k]
      /\ g = [n \in 1..k |-> c[p[n]]]
  BY <1>5 DEF Permuted, Reads, Bijection, Injection
<1>7. \A n \in 1..k : /\ g[n] \in Revisions /\ g[n].rev = h[p[n]].rev
                      /\ ToBag(g[n].tags) = ToBag(h[p[n]].tags) /\ Ascends(g[n].tags)
  BY <1>3, <1>6
<1>8. g \in [1..k -> Revisions]
  BY <1>6, <1>7
<1>9. g \in Seq(Revisions) /\ Len(g) = k
  BY <1>1, <1>8, FunctionIsSeq
<1>10. SameContents(g, h)
  BY <1>6, <1>7, <1>9, PermutedHistory DEF k
<1>11. CanonicalRevisions(g)
  <2>1. DOMAIN g = 1..k
    BY <1>8
  <2>2. \A n \in 1..k : g[n].rev = key[p[n]]
    BY <1>1, <1>6, <1>7 DEF key, Revs
  <2>3. Ascends(Revs(g))
    BY <1>5, <2>1, <2>2 DEF Ascends, Revs, SortsBy
  <2> QED BY <1>7, <2>1, <2>3 DEF CanonicalRevisions
<1> QED BY <1>9, <1>10, <1>11 DEF g

--------------------------------------------------------------------------------
(* Histories and entries of one content are equal once they are stored.    *)

\* Sorted tags are told by their bag.
LEMMA SameTags ==
  ASSUME NEW s \in Seq(Nat), NEW t \in Seq(Nat), Ascends(s), Ascends(t), ToBag(s) = ToBag(t)
  PROVE  s = t
<1>1. /\ Len(s) \in Nat /\ s \in [1..Len(s) -> Nat]
      /\ Len(t) \in Nat /\ t \in [1..Len(t) -> Nat]
  BY SeqIsFunction
<1> QED BY <1>1, AscendingByBag

\* Revisions of one number are one revision, so numbers count revisions.
LEMMA RevsTellContents ==
  ASSUME NEW h \in Seq(Revisions), Numbered(h), NEW i \in DOMAIN h
  PROVE  {n \in DOMAIN Revs(h) : Revs(h)[n] = h[i].rev}
           = {n \in DOMAIN Contents(h) : Contents(h)[n] = RevisionContent(h[i])}
<1>1. DOMAIN Revs(h) = DOMAIN h /\ DOMAIN Contents(h) = DOMAIN h
  BY DEF Revs, Contents
<1>2. ASSUME NEW n \in DOMAIN h
      PROVE  h[n].rev = h[i].rev <=> RevisionContent(h[n]) = RevisionContent(h[i])
  <2>1. h[n].rev = h[i].rev => ToBag(h[n].tags) = ToBag(h[i].tags)
    BY DEF Numbered
  <2>2. /\ RevisionContent(h[n]).rev = h[n].rev
        /\ RevisionContent(h[i]).rev = h[i].rev
    BY DEF RevisionContent
  <2> QED BY <2>1, <2>2 DEF RevisionContent
<1>3. \A n \in DOMAIN h : Revs(h)[n] = h[n].rev /\ Contents(h)[n] = RevisionContent(h[n])
  BY DEF Revs, Contents
<1> QED BY <1>1, <1>2, <1>3

\* Histories of one content hold each revision equally often,
LEMMA RevsCounted ==
  ASSUME NEW g \in Seq(Revisions), NEW h \in Seq(Revisions), Numbered(g), Numbered(h),
         ToBag(Contents(g)) = ToBag(Contents(h)), NEW i \in DOMAIN g
  PROVE  \E j \in DOMAIN h :
           /\ RevisionContent(h[j]) = RevisionContent(g[i]) /\ h[j].rev = g[i].rev
           /\ Cardinality({n \in DOMAIN Revs(h) : Revs(h)[n] = g[i].rev})
                = Cardinality({n \in DOMAIN Revs(g) : Revs(g)[n] = g[i].rev})
<1> DEFINE c == RevisionContent(g[i])
<1>1. c \in Range(Contents(g)) /\ c \in Range(Contents(h))
  <2>1. c \in Range(Contents(g))
    BY DEF Range, Contents
  <2>2. /\ DOMAIN ToBag(Contents(g)) = Range(Contents(g))
        /\ DOMAIN ToBag(Contents(h)) = Range(Contents(h))
    BY DEF ToBag
  <2> QED BY <2>1, <2>2
<1>2. PICK j \in DOMAIN h : RevisionContent(h[j]) = c
  BY <1>1 DEF Range, Contents
<1>3. h[j].rev = g[i].rev
  <2>1. RevisionContent(h[j]).rev = h[j].rev /\ c.rev = g[i].rev
    BY DEF RevisionContent
  <2> QED BY <1>2, <2>1
<1>4. ToBag(Contents(g))[c] = Cardinality({n \in DOMAIN Contents(g) : Contents(g)[n] = c})
  BY <1>1 DEF ToBag
<1>5. ToBag(Contents(h))[c] = Cardinality({n \in DOMAIN Contents(h) : Contents(h)[n] = c})
  BY <1>1 DEF ToBag
<1>6. {n \in DOMAIN Revs(g) : Revs(g)[n] = g[i].rev}
        = {n \in DOMAIN Contents(g) : Contents(g)[n] = c}
  BY RevsTellContents
<1>7. {n \in DOMAIN Revs(h) : Revs(h)[n] = h[j].rev}
        = {n \in DOMAIN Contents(h) : Contents(h)[n] = RevisionContent(h[j])}
  BY RevsTellContents
<1> QED BY <1>2, <1>3, <1>4, <1>5, <1>6, <1>7

\* so their numbers are the same bag,
LEMMA SameRevs ==
  ASSUME NEW g \in Seq(Revisions), NEW h \in Seq(Revisions), Numbered(g), Numbered(h),
         ToBag(Contents(g)) = ToBag(Contents(h))
  PROVE  ToBag(Revs(g)) = ToBag(Revs(h))
<1>1. Range(Revs(g)) = {g[i].rev : i \in DOMAIN g} /\ Range(Revs(h)) = {h[i].rev : i \in DOMAIN h}
  BY DEF Range, Revs
<1>2. ASSUME NEW i \in DOMAIN g
      PROVE  /\ g[i].rev \in Range(Revs(h))
             /\ Cardinality({n \in DOMAIN Revs(h) : Revs(h)[n] = g[i].rev})
                  = Cardinality({n \in DOMAIN Revs(g) : Revs(g)[n] = g[i].rev})
  BY <1>1, RevsCounted
<1>3. ASSUME NEW i \in DOMAIN h PROVE h[i].rev \in Range(Revs(g))
  <2>1. ToBag(Contents(h)) = ToBag(Contents(g))
    OBVIOUS
  <2>2. PICK j \in DOMAIN g : g[j].rev = h[i].rev
    BY <2>1, RevsCounted
  <2> QED BY <1>1, <2>2
<1>4. Range(Revs(g)) = Range(Revs(h))
  BY <1>1, <1>2, <1>3
<1>5. \A x \in Range(Revs(g)) :
        Cardinality({n \in DOMAIN Revs(h) : Revs(h)[n] = x})
          = Cardinality({n \in DOMAIN Revs(g) : Revs(g)[n] = x})
  BY <1>1, <1>2
<1> QED BY <1>4, <1>5 DEF ToBag

\* and sorted they are the same history, down to the order of equal numbers.
LEMMA SameHistory ==
  ASSUME NEW g \in Seq(Revisions), NEW h \in Seq(Revisions), Numbered(g), Numbered(h),
         CanonicalRevisions(g), CanonicalRevisions(h),
         ToBag(Contents(g)) = ToBag(Contents(h))
  PROVE  g = h
<1>1. /\ Len(g) \in Nat /\ DOMAIN g = 1..Len(g) /\ g \in [1..Len(g) -> Revisions]
      /\ Len(h) \in Nat /\ DOMAIN h = 1..Len(h) /\ h \in [1..Len(h) -> Revisions]
  BY SeqIsFunction
<1>2. Revs(g) \in [1..Len(g) -> Nat] /\ Revs(h) \in [1..Len(h) -> Nat]
  BY <1>1 DEF Revs, Revisions
<1>3. Len(g) = Len(h) /\ Revs(g) = Revs(h)
  BY <1>1, <1>2, SameRevs, AscendingByBag DEF CanonicalRevisions
<1>4. ASSUME NEW i \in 1..Len(g) PROVE g[i] = h[i]
  <2>1. g[i] \in Revisions /\ h[i] \in Revisions
    BY <1>1, <1>3
  <2>2. g[i].rev = h[i].rev
    <3>1. Revs(g)[i] = g[i].rev /\ Revs(h)[i] = h[i].rev
      BY <1>1, <1>3 DEF Revs
    <3> QED BY <1>3, <3>1
  <2>3. PICK j \in DOMAIN h : RevisionContent(h[j]) = RevisionContent(g[i]) /\ h[j].rev = g[i].rev
    BY <1>1, RevsCounted
  <2>4. ToBag(h[j].tags) = ToBag(g[i].tags)
    BY <2>3 DEF RevisionContent
  <2>5. ToBag(h[j].tags) = ToBag(h[i].tags)
    BY <1>1, <1>3, <2>2, <2>3 DEF Numbered
  <2>6. g[i].tags = h[i].tags
    <3>1. g[i].tags \in Seq(Nat) /\ h[i].tags \in Seq(Nat)
      BY <2>1 DEF Revisions
    <3>2. Ascends(g[i].tags) /\ Ascends(h[i].tags)
      BY <1>1, <1>3 DEF CanonicalRevisions
    <3> QED BY <2>4, <2>5, <3>1, <3>2, SameTags
  <2>7. \A r \in Revisions : r = [rev |-> r.rev, tags |-> r.tags]
    BY DEF Revisions
  <2> QED BY <2>1, <2>2, <2>6, <2>7
<1> QED BY <1>1, <1>3, <1>4

\* An entry as serialize leaves it.
CanonicalFields(e) ==
  Ascends(e.tags) /\ Ascends(e.windows) /\ CanonicalRevisions(e.history)

\* The fields of an entry.
LEMMA EntryFields ==
  ASSUME NEW e \in StoredEntries
  PROVE  /\ e.uuid \in Nat /\ e.title \in Nat /\ e.user \in Nat /\ e.password \in Nat
         /\ e.root \in Nat /\ e.nested \in BOOLEAN
         /\ e.tags \in Seq(Nat) /\ e.windows \in Seq(Nat) /\ e.history \in Seq(Revisions)
BY DEF StoredEntries

\* d holds what e holds, in an order of its own.
Rearranged(d, e) ==
  /\ d \in StoredEntries
  /\ EntryContent(d) = EntryContent(e)
  /\ Numbered(e.history) => Numbered(d.history)

\* An entry whose three lists are put into another order is the same entry to users.
LEMMA FieldsRearranged ==
  ASSUME NEW e \in StoredEntries, NEW tags \in Seq(Nat), NEW windows \in Seq(Nat),
         NEW history \in Seq(Revisions),
         ToBag(tags) = ToBag(e.tags), ToBag(windows) = ToBag(e.windows),
         SameContents(history, e.history),
         NEW d, d = [e EXCEPT !.tags = tags, !.windows = windows, !.history = history]
  PROVE  Rearranged(d, e)
<1>1. d \in StoredEntries
  BY DEF StoredEntries
<1>2. /\ d.uuid = e.uuid /\ d.title = e.title /\ d.user = e.user /\ d.password = e.password
      /\ d.root = e.root /\ d.nested = e.nested
      /\ d.tags = tags /\ d.windows = windows /\ d.history = history
  BY DEF StoredEntries
<1>3. ToBag(Contents(d.history)) = ToBag(Contents(e.history))
  BY <1>2 DEF SameContents
<1>4. EntryContent(d) = EntryContent(e)
  BY <1>2, <1>3 DEF EntryContent, Contents
<1> QED BY <1>1, <1>2, <1>4 DEF Rearranged, SameContents

\* serialize orders an entry and changes nothing that users see.
LEMMA EntryStays ==
  ASSUME NEW e \in StoredEntries
  PROVE  Rearranged(CanonicalEntry(e), e) /\ CanonicalFields(CanonicalEntry(e))
<1> DEFINE tags == Ascending(e.tags)
           windows == Ascending(e.windows)
           history == CanonicalHistory(e.history)
<1>1. e.tags \in Seq(Nat) /\ e.windows \in Seq(Nat) /\ e.history \in Seq(Revisions)
  BY EntryFields
<1>2. /\ tags \in Seq(Nat) /\ ToBag(tags) = ToBag(e.tags) /\ Ascends(tags)
      /\ windows \in Seq(Nat) /\ ToBag(windows) = ToBag(e.windows) /\ Ascends(windows)
  BY <1>1, AscendingSorts
<1>3. /\ history \in Seq(Revisions) /\ SameContents(history, e.history)
      /\ CanonicalRevisions(history)
  BY <1>1, HistorySorted
<1>4. CanonicalEntry(e) = [e EXCEPT !.tags = tags, !.windows = windows, !.history = history]
  BY DEF CanonicalEntry
<1> HIDE DEF tags, windows, history
<1>5. Rearranged(CanonicalEntry(e), e)
  BY <1>2, <1>3, <1>4, FieldsRearranged
<1>6. /\ CanonicalEntry(e).tags = tags /\ CanonicalEntry(e).windows = windows
      /\ CanonicalEntry(e).history = history
  BY <1>4 DEF StoredEntries
<1> QED BY <1>2, <1>3, <1>5, <1>6 DEF CanonicalFields

\* Two stored entries that users cannot tell apart are equal.
LEMMA SameEntry ==
  ASSUME NEW d \in StoredEntries, NEW e \in StoredEntries,
         CanonicalFields(d), CanonicalFields(e), Numbered(d.history), Numbered(e.history),
         EntryContent(d) = EntryContent(e)
  PROVE  d = e
<1>1. /\ d.uuid = e.uuid /\ d.title = e.title /\ d.user = e.user /\ d.password = e.password
      /\ d.root = e.root /\ d.nested = e.nested
      /\ ToBag(d.tags) = ToBag(e.tags) /\ ToBag(d.windows) = ToBag(e.windows)
      /\ ToBag(Contents(d.history)) = ToBag(Contents(e.history))
  BY DEF EntryContent, Contents
<1>2. d.tags = e.tags /\ d.windows = e.windows
  BY <1>1, EntryFields, SameTags DEF CanonicalFields
<1>3. d.history = e.history
  BY <1>1, EntryFields, SameHistory DEF CanonicalFields
<1>4. \A f \in StoredEntries :
        f = [uuid |-> f.uuid, title |-> f.title, user |-> f.user, password |-> f.password,
             root |-> f.root, nested |-> f.nested, tags |-> f.tags, windows |-> f.windows,
             history |-> f.history]
  BY DEF StoredEntries
<1> QED BY <1>1, <1>2, <1>3, <1>4

--------------------------------------------------------------------------------
(* Files and texts.                                                        *)

\* So it is with all the entries of a file.
LEMMA EntriesRearranged ==
  ASSUME NEW es \in Seq(StoredEntries), NEW ds, ds = [i \in DOMAIN es |-> ds[i]],
         \A i \in DOMAIN es : Rearranged(ds[i], es[i])
  PROVE  /\ ds \in Seq(StoredEntries) /\ Len(ds) = Len(es)
         /\ [i \in DOMAIN ds |-> EntryContent(ds[i])] = [i \in DOMAIN es |-> EntryContent(es[i])]
         /\ Orderly(es) => Orderly(ds)
<1>1. Len(es) \in Nat /\ DOMAIN es = 1..Len(es)
  BY SeqIsFunction
<1>2. ds \in [1..Len(es) -> StoredEntries]
  BY <1>1 DEF Rearranged
<1>3. ds \in Seq(StoredEntries) /\ Len(ds) = Len(es)
  BY <1>1, <1>2, FunctionIsSeq
<1>4. \A i \in DOMAIN es : EntryContent(ds[i]) = EntryContent(es[i])
  BY DEF Rearranged
<1>5. \A i \in DOMAIN es : ds[i].uuid = es[i].uuid
  <2>1. \A i \in DOMAIN es : /\ EntryContent(ds[i]).uuid = ds[i].uuid
                             /\ EntryContent(es[i]).uuid = es[i].uuid
    BY DEF EntryContent
  <2> QED BY <1>4, <2>1
<1>6. Orderly(es) => Orderly(ds)
  BY <1>1, <1>2, <1>5 DEF Orderly, Rearranged
<1> QED BY <1>1, <1>2, <1>3, <1>4, <1>6

\* Files that a program may upload, and texts that main may hold: uuids are unique,
\* and everything that has no order is in the one order.
GoodFile(file) == file \in KeePassFiles /\ Orderly(file.entries)
GoodText(db) ==
  /\ db \in StorageDatabases /\ Orderly(db.entries)
  /\ \A i \in DOMAIN db.entries : CanonicalFields(db.entries[i])

\* What is committed is in that order and holds all that was uploaded
\* (process_client_write: db_to_storage, serialize).
LEMMA SavedText ==
  ASSUME NEW file, GoodFile(file)
  PROVE  /\ GoodText(Serialized(ToStorage(file)))
         /\ FileContent(Serialized(ToStorage(file))) = FileContent(file)
<1> DEFINE es == file.entries
           ds == [i \in DOMAIN es |-> CanonicalEntry(es[i])]
           text == Serialized(ToStorage(file))
<1>1. file.groups \in Seq(GroupNames) /\ es \in Seq(StoredEntries) /\ Orderly(es)
  BY DEF GoodFile, KeePassFiles
<1>2. text = [groups |-> file.groups, entries |-> ds]
  BY DEF Serialized, ToStorage
<1>3. DOMAIN es = 1..Len(es) /\ \A i \in DOMAIN es : es[i] \in StoredEntries
  BY <1>1, SeqIsFunction
<1>4. \A i \in DOMAIN es : Rearranged(ds[i], es[i]) /\ CanonicalFields(ds[i])
  BY <1>3, EntryStays
<1>5. ds = [i \in DOMAIN es |-> ds[i]] /\ DOMAIN ds = DOMAIN es
  OBVIOUS
<1> HIDE DEF ds, es
<1>6. /\ ds \in Seq(StoredEntries) /\ Orderly(ds)
      /\ [i \in DOMAIN ds |-> EntryContent(ds[i])] = [i \in DOMAIN es |-> EntryContent(es[i])]
  BY <1>1, <1>4, <1>5, EntriesRearranged
<1>7. text.groups = file.groups /\ text.entries = ds
  BY <1>2
<1>8. GoodText(text)
  BY <1>1, <1>2, <1>4, <1>5, <1>6, <1>7 DEF GoodText, StorageDatabases
<1>9. FileContent(text) = FileContent(file)
  BY <1>6, <1>7 DEF FileContent, es
<1> QED BY <1>8, <1>9

\* A history turned around holds the same.
LEMMA HistoryTurned ==
  ASSUME NEW h \in Seq(Revisions)
  PROVE  Reverse(h) \in Seq(Revisions) /\ SameContents(Reverse(h), h)
<1> DEFINE k == Len(h)
           p == [n \in 1..k |-> (k - n) + 1]
<1>1. k \in Nat /\ DOMAIN h = 1..k
  BY SeqIsFunction
<1>2. Reverse(h) \in Seq(Revisions) /\ Len(Reverse(h)) = k
  BY ReverseTurns
<1>3. p \in Bijection(1..k, 1..k)
  <2>1. p \in [1..k -> 1..k] /\ \A n \in 1..k : p[p[n]] = n
    BY <1>1
  <2> QED BY <2>1 DEF Bijection, Injection, Surjection, IsInjective
<1>4. \A n \in 1..k : Reverse(h)[n] = h[p[n]]
  BY <1>1 DEF Reverse
<1> HIDE DEF p
<1> QED BY <1>2, <1>3, <1>4, PermutedHistory

\* A download can be uploaded again (storage_to_db),
LEMMA Downloaded ==
  ASSUME NEW db, GoodText(db)
  PROVE  GoodFile(ToFile(db))
<1> DEFINE es == db.entries
           ds == [i \in DOMAIN es |-> [es[i] EXCEPT !.history = RebuiltHistory(@)]]
<1>1. db.groups \in Seq(GroupNames) /\ es \in Seq(StoredEntries) /\ Orderly(es)
  BY DEF GoodText, StorageDatabases
<1>2. DOMAIN es = 1..Len(es) /\ \A i \in DOMAIN es : es[i] \in StoredEntries
  BY <1>1, SeqIsFunction
<1>3. ASSUME NEW i \in DOMAIN es PROVE Rearranged(ds[i], es[i])
  <2> DEFINE e == es[i]
             tags == e.tags
             windows == e.windows
             history == Reverse(e.history)
  <2>1. e.tags \in Seq(Nat) /\ e.windows \in Seq(Nat) /\ e.history \in Seq(Revisions)
    BY <1>2, EntryFields
  <2>2. history \in Seq(Revisions) /\ SameContents(history, e.history)
    BY <2>1, HistoryTurned
  <2>3. /\ tags \in Seq(Nat) /\ ToBag(tags) = ToBag(e.tags)
        /\ windows \in Seq(Nat) /\ ToBag(windows) = ToBag(e.windows)
    BY <2>1
  <2>4. ds[i] = [e EXCEPT !.tags = tags, !.windows = windows, !.history = history]
    BY <1>2 DEF RebuiltHistory, StoredEntries
  <2> HIDE DEF e, tags, windows, history, ds
  <2>5. Rearranged(ds[i], e)
    BY <1>2, <2>2, <2>3, <2>4, FieldsRearranged DEF e
  <2> QED BY <2>5 DEF e
<1>4. ds = [i \in DOMAIN es |-> ds[i]]
  OBVIOUS
<1>5. ToFile(db) = [version |-> "KDB4", header |-> FALSE, groups |-> db.groups, entries |-> ds]
  BY DEF ToFile
<1> HIDE DEF ds, es
<1>6. ds \in Seq(StoredEntries) /\ Orderly(ds)
  BY <1>1, <1>3, <1>4, EntriesRearranged
<1> QED BY <1>1, <1>5, <1>6 DEF GoodFile, KeePassFiles

\* in whatever order a program writes it,
LEMMA ReorderedFile ==
  ASSUME NEW file, GoodFile(file)
  PROVE  GoodFile(Reordered(file))
<1> DEFINE es == file.entries
           ds == [i \in DOMAIN es |-> Turned(es[i])]
<1>1. file \in KeePassFiles /\ es \in Seq(StoredEntries) /\ Orderly(es)
  BY DEF GoodFile, KeePassFiles
<1>2. DOMAIN es = 1..Len(es) /\ \A i \in DOMAIN es : es[i] \in StoredEntries
  BY <1>1, SeqIsFunction
<1>3. ASSUME NEW i \in DOMAIN es PROVE Rearranged(ds[i], es[i])
  <2> DEFINE e == es[i]
             tags == Reverse(e.tags)
             windows == Reverse(e.windows)
             history == Reverse(e.history)
  <2>1. e.tags \in Seq(Nat) /\ e.windows \in Seq(Nat) /\ e.history \in Seq(Revisions)
    BY <1>2, EntryFields
  <2>2. history \in Seq(Revisions) /\ SameContents(history, e.history)
    BY <2>1, HistoryTurned
  <2>3. /\ tags \in Seq(Nat) /\ ToBag(tags) = ToBag(e.tags)
        /\ windows \in Seq(Nat) /\ ToBag(windows) = ToBag(e.windows)
    BY <2>1, ReverseTurns
  <2>4. ds[i] = [e EXCEPT !.tags = tags, !.windows = windows, !.history = history]
    BY <1>2 DEF Turned, StoredEntries
  <2> HIDE DEF e, tags, windows, history, ds
  <2>5. Rearranged(ds[i], e)
    BY <1>2, <2>2, <2>3, <2>4, FieldsRearranged DEF e
  <2> QED BY <2>5 DEF e
<1>4. ds = [i \in DOMAIN es |-> ds[i]]
  OBVIOUS
<1>5. Reordered(file) = [file EXCEPT !.entries = ds]
  BY DEF Reordered
<1> HIDE DEF ds, es
<1>6. ds \in Seq(StoredEntries) /\ Orderly(ds)
  BY <1>1, <1>3, <1>4, EntriesRearranged
<1> QED BY <1>1, <1>5, <1>6 DEF GoodFile, KeePassFiles

--------------------------------------------------------------------------------
(* What users change.                                                      *)

\* Removing an entry leaves the others as they are,
LEMMA KeptEntries ==
  ASSUME NEW es \in Seq(StoredEntries), Orderly(es), NEW uuid
  PROVE  /\ Without(es, uuid) \in Seq(StoredEntries) /\ Orderly(Without(es, uuid))
         /\ \A i \in DOMAIN Without(es, uuid) : Without(es, uuid)[i].uuid # uuid
<1> DEFINE kept == {j \in DOMAIN es : es[j].uuid # uuid}
           key == [i \in kept |-> i]
           ds == Without(es, uuid)
           k == Cardinality(kept)
<1>1. Len(es) \in Nat /\ DOMAIN es = 1..Len(es) /\ es \in [1..Len(es) -> StoredEntries]
  BY SeqIsFunction
<1>2. kept \in SUBSET (1..Len(es)) /\ IsFiniteSet(kept)
  <2>1. IsFiniteSet(1..Len(es))
    BY <1>1, FS_Interval
  <2> QED BY <1>1, <2>1, FS_Subset
<1>3. kept \in SUBSET Nat /\ key \in [kept -> Nat] /\ k \in Nat
  BY <1>2, FS_CardinalityType
<1>4. ds = Sorted(es, key)
  BY DEF Without
<1>5. \A i \in kept : i \in 1..Len(es) /\ es[i].uuid # uuid
  BY <1>1
<1> HIDE DEF key, ds, kept
<1>6. PICK p : Arranges(p, kept, key) /\ Reads(ds, es, k, p)
  BY <1>2, <1>3, <1>4, SortedArranges
<1> HIDE DEF k
<1>7. p \in [1..k -> kept] /\ \A m, n \in 1..k : p[m] = p[n] => m = n
  BY <1>6 DEF Arranges, Bijection, Injection, IsInjective, k
<1>8. \A n \in 1..k : p[n] \in 1..Len(es) /\ ds[n] = es[p[n]] /\ es[p[n]].uuid # uuid
  BY <1>5, <1>6, <1>7 DEF Reads
<1>9. ds \in [1..k -> StoredEntries]
  BY <1>1, <1>6, <1>8 DEF Reads
<1>10. ds \in Seq(StoredEntries) /\ DOMAIN ds = 1..k
  BY <1>3, <1>9, FunctionIsSeq
<1>11. Orderly(ds)
  BY <1>1, <1>7, <1>8, <1>10 DEF Orderly
<1> QED BY <1>8, <1>10, <1>11 DEF ds

\* a new one with a uuid of its own may be put behind them,
LEMMA EntryAppended ==
  ASSUME NEW es \in Seq(StoredEntries), Orderly(es), NEW e \in StoredEntries, Numbered(e.history),
         \A i \in DOMAIN es : es[i].uuid # e.uuid
  PROVE  Append(es, e) \in Seq(StoredEntries) /\ Orderly(Append(es, e))
<1> DEFINE k == Len(es)
           ds == Append(es, e)
<1>1. k \in Nat /\ DOMAIN es = 1..k
  BY SeqIsFunction
<1>2. ds \in Seq(StoredEntries) /\ DOMAIN ds = 1..(k + 1)
  BY <1>1
<1>3. ds[k + 1] = e /\ \A i \in 1..k : ds[i] = es[i]
  BY <1>1
<1>4. \A i \in 1..(k + 1) : i \in 1..k \/ i = k + 1
  BY <1>1
<1> HIDE DEF ds, k
<1>5. Orderly(ds)
  BY <1>1, <1>2, <1>3, <1>4 DEF Orderly
<1> QED BY <1>2, <1>5 DEF ds

\* and so every change that a user makes leaves a file that can be uploaded.
LEMMA EditedFile ==
  ASSUME NEW file, GoodFile(file), NEW edit \in Edits(file)
  PROVE  GoodFile(edit)
<1> DEFINE es == file.entries
<1>1. /\ file \in KeePassFiles /\ file.groups \in Seq(GroupNames)
      /\ es \in Seq(StoredEntries) /\ Orderly(es)
  BY DEF GoodFile, KeePassFiles
<1> HIDE DEF es
<1>2. ASSUME NEW ds \in Seq(StoredEntries), Orderly(ds), edit = [file EXCEPT !.entries = ds]
      PROVE  GoodFile(edit)
  BY <1>1, <1>2 DEF GoodFile, KeePassFiles
<1>3. CASE edit = file
  BY <1>3
<1>4. ASSUME NEW e \in Changed, edit = [file EXCEPT !.entries = Append(Without(es, e.uuid), e)]
      PROVE  GoodFile(edit)
  <2>1. e \in StoredEntries /\ Numbered(e.history)
    BY ChangedAreEntries, ChangedAreInOrder
  <2> DEFINE ds == Without(es, e.uuid)
  <2>2. ds \in Seq(StoredEntries) /\ Orderly(ds) /\ \A i \in DOMAIN ds : ds[i].uuid # e.uuid
    BY <1>1, KeptEntries
  <2> HIDE DEF ds
  <2>3. Append(ds, e) \in Seq(StoredEntries) /\ Orderly(Append(ds, e))
    BY <2>1, <2>2, EntryAppended
  <2> QED BY <1>2, <1>4, <2>3 DEF ds
<1>5. ASSUME NEW e \in Changed, edit = [file EXCEPT !.entries = Without(es, e.uuid)]
      PROVE  GoodFile(edit)
  <2>1. Without(es, e.uuid) \in Seq(StoredEntries) /\ Orderly(Without(es, e.uuid))
    BY <1>1, KeptEntries
  <2> QED BY <1>2, <1>5, <2>1
<1>6. ASSUME NEW g \in Groupings, edit = [file EXCEPT !.groups = g]
      PROVE  GoodFile(edit)
  <2>1. g \in Seq(GroupNames)
    BY GroupingsAreGroups
  <2> QED BY <1>1, <1>6, <2>1 DEF GoodFile, KeePassFiles, es
<1> QED BY <1>3, <1>4, <1>5, <1>6 DEF Edits, es

--------------------------------------------------------------------------------
(* Texts are compared for what users see.                                  *)

\* Equal content is equal text: comparing texts is comparing what users see.
LEMMA SameText ==
  ASSUME NEW a, NEW b, GoodText(a), GoodText(b), FileContent(a) = FileContent(b)
  PROVE  a = b
<1>1. /\ a.groups = b.groups
      /\ [i \in DOMAIN a.entries |-> EntryContent(a.entries[i])]
           = [i \in DOMAIN b.entries |-> EntryContent(b.entries[i])]
  BY DEF FileContent
<1>2. a.entries \in Seq(StoredEntries) /\ b.entries \in Seq(StoredEntries)
  BY DEF GoodText, StorageDatabases
<1>3. /\ Len(a.entries) \in Nat /\ DOMAIN a.entries = 1..Len(a.entries)
      /\ Len(b.entries) \in Nat /\ DOMAIN b.entries = 1..Len(b.entries)
      /\ a.entries \in [1..Len(a.entries) -> StoredEntries]
      /\ b.entries \in [1..Len(b.entries) -> StoredEntries]
  BY <1>2, SeqIsFunction
<1>4. DOMAIN a.entries = DOMAIN b.entries
  BY <1>1
<1>5. ASSUME NEW i \in DOMAIN a.entries PROVE a.entries[i] = b.entries[i]
  <2>1. EntryContent(a.entries[i]) = EntryContent(b.entries[i])
    BY <1>1, <1>4
  <2>2. a.entries[i] \in StoredEntries /\ b.entries[i] \in StoredEntries
    BY <1>3, <1>4
  <2>3. /\ CanonicalFields(a.entries[i]) /\ Numbered(a.entries[i].history)
        /\ CanonicalFields(b.entries[i]) /\ Numbered(b.entries[i].history)
    BY <1>4 DEF GoodText, Orderly
  <2> QED BY <2>1, <2>2, <2>3, SameEntry
<1>6. a.entries = b.entries
  BY <1>3, <1>4, <1>5
<1>7. \A db \in StorageDatabases : db = [groups |-> db.groups, entries |-> db.entries]
  BY DEF StorageDatabases
<1> QED BY <1>1, <1>6, <1>7 DEF GoodText

\* main holds what was uploaded last, in the order of serialize.
FilesKept ==
  main # NoDatabase => GoodText(main) /\ FileContent(main) = saved

\* An upload lands, and is silent if users could not tell it from main.
LEMMA UploadKeeps ==
  ASSUME FilesKept, NEW file, GoodFile(file), Upload(file)
  PROVE  /\ FilesKept'
         /\ main \in {NoDatabase, main'} \/ FileContent(main) # FileContent(main')
<1> DEFINE text == Serialized(ToStorage(file))
<1>1. GoodText(text) /\ FileContent(text) = FileContent(file)
  BY SavedText
<1>2. saved' = FileContent(file)
  BY DEF Upload
<1>3. main' = text
  BY DEF Upload
<1> HIDE DEF text
<1>4. FilesKept'
  BY <1>1, <1>2, <1>3 DEF FilesKept
<1>5. main # NoDatabase /\ FileContent(main) = FileContent(main') => main = main'
  BY <1>1, <1>3, SameText DEF FilesKept
<1> QED BY <1>4, <1>5

--------------------------------------------------------------------------------
(* Queries.                                                                *)

\* A database has finitely many entries.
LEMMA EntriesAreFinite ==
  ASSUME NEW db \in StorageDatabases
  PROVE  IsFiniteSet(EntriesOf(db)) /\ EntriesOf(db) \subseteq StoredEntries
<1> DEFINE es == db.entries
           k == Len(es)
<1>1. k \in Nat /\ DOMAIN es = 1..k /\ es \in [1..k -> StoredEntries]
  BY SeqIsFunction DEF StorageDatabases
<1>2. es \in [1..k -> EntriesOf(db)]
  BY <1>1 DEF EntriesOf
<1>3. es \in Surjection(1..k, EntriesOf(db))
  BY <1>1, <1>2 DEF Surjection, EntriesOf
<1>4. IsFiniteSet(1..k)
  BY <1>1, FS_Interval
<1> HIDE DEF es, k
<1>5. IsFiniteSet(EntriesOf(db))
  BY <1>3, <1>4, FS_Surjection
<1>6. EntriesOf(db) \subseteq StoredEntries
  BY <1>1 DEF EntriesOf, es
<1> QED BY <1>5, <1>6

\* The order in which entries are answered.
Ordering(found) == {p \in found \X found : Before(p[1], p[2])}

\* Title and uuid leave no two entries undecided.
LEMMA OrderingIsStrict ==
  ASSUME NEW found \in SUBSET StoredEntries,
         \A d, e \in found : d.uuid = e.uuid => d = e
  PROVE  StrictOrder(Ordering(found), found)
<1>1. \A d, e \in found : <<d, e>> \in Ordering(found) <=> Before(d, e)
  BY DEF Ordering
<1>2. \A e \in found : e.uuid \in Nat /\ e.title \in Nat
  BY EntryFields
<1> HIDE DEF Ordering
<1> QED BY <1>1, <1>2 DEF StrictOrder, Before

\* The place of an entry is its place by that order.
LEMMA RankIsRank ==
  ASSUME NEW found, NEW e \in found
  PROVE  Rank(found, e) = RankIn(Ordering(found), found, e)
<1>1. {d \in found : Before(d, e)} = Below(Ordering(found), found, e)
  BY DEF Below, Ordering
<1> QED BY <1>1 DEF Rank, RankIn

\* The entry at place n.
Nth(found, n) == CHOOSE e \in found : Rank(found, e) = n

\* Entries found in a database.
FoundIn(db, found) ==
  /\ db \in StorageDatabases /\ Orderly(db.entries)
  /\ found \subseteq EntriesOf(db)

\* They are finitely many and have an order.
LEMMA FoundIsOrdered ==
  ASSUME NEW db, NEW found, FoundIn(db, found)
  PROVE  /\ IsFiniteSet(found) /\ Cardinality(found) \in Nat
         /\ found \subseteq StoredEntries
         /\ StrictOrder(Ordering(found), found)
<1>1. IsFiniteSet(EntriesOf(db)) /\ found \subseteq StoredEntries
  BY EntriesAreFinite DEF FoundIn
<1>2. IsFiniteSet(found)
  BY <1>1, FS_Subset DEF FoundIn
<1>3. \A d, e \in found : d.uuid = e.uuid => d = e
  BY DEF FoundIn, EntriesOf, Orderly
<1> QED BY <1>1, <1>2, <1>3, OrderingIsStrict, FS_CardinalityType

\* Every place up to their number has its entry.
LEMMA NthIsFound ==
  ASSUME NEW db, NEW found, FoundIn(db, found), NEW n \in 1..Cardinality(found)
  PROVE  Nth(found, n) \in found /\ Rank(found, Nth(found, n)) = n
<1> PICK e \in found : RankIn(Ordering(found), found, e) = n
  BY FoundIsOrdered, RankReached DEF AllTaken
<1>1. Rank(found, e) = n
  BY RankIsRank
<1> QED BY <1>1 DEF Nth

\* Of two places the earlier one has the entry that comes before.
LEMMA EarlierIsBefore ==
  ASSUME NEW db, NEW found, FoundIn(db, found), NEW d \in found, NEW e \in found
  PROVE  /\ Rank(found, e) \in Nat
         /\ Rank(found, d) = Rank(found, e) => d = e
         /\ Rank(found, d) < Rank(found, e) => Before(d, e)
<1> DEFINE R == Ordering(found)
<1>1. StrictOrder(R, found) /\ IsFiniteSet(found) /\ Cardinality(found) \in Nat
  BY FoundIsOrdered
<1>2. Rank(found, d) = RankIn(R, found, d) /\ Rank(found, e) = RankIn(R, found, e)
  BY RankIsRank
<1>3. RankIn(R, found, d) \in Nat /\ RankIn(R, found, e) \in Nat
  BY <1>1, RankRange
<1>4. <<e, d>> \in R => RankIn(R, found, e) < RankIn(R, found, d)
  BY <1>1, RankGrows
<1>5. <<d, e>> \in R => RankIn(R, found, d) < RankIn(R, found, e)
  BY <1>1, RankGrows
<1>6. d = e \/ <<d, e>> \in R \/ <<e, d>> \in R
  BY <1>1 DEF StrictOrder
<1>7. <<d, e>> \in R => Before(d, e)
  BY DEF Ordering
<1> QED BY <1>2, <1>3, <1>4, <1>5, <1>6, <1>7

\* How many are answered.
Cut(found, limit) == IF limit < Cardinality(found) THEN limit ELSE Cardinality(found)

\* query_entries answers the first of them, in order.
LEMMA QueryAnswers ==
  ASSUME NEW db, NEW tags, NEW filter, NEW limit \in Nat, NEW found,
         found = Found(db, tags, filter), FoundIn(db, found)
  PROVE  /\ QueryEntries(db, tags, filter, limit)
              = [n \in 1..Cut(found, limit) |-> Payload(Nth(found, n))]
         /\ Cut(found, limit) \in Nat /\ Cut(found, limit) <= Cardinality(found)
         /\ QueryEntries(db, tags, filter, limit) \in Seq(Payloads)
<1>1. QueryEntries(db, tags, filter, limit)
        = [n \in 1..Cut(found, limit) |-> Payload(Nth(found, n))]
  BY DEF QueryEntries, Cut, Nth
<1>2. Cut(found, limit) \in Nat /\ Cut(found, limit) <= Cardinality(found)
  BY FoundIsOrdered DEF Cut
<1>3. ASSUME NEW n \in 1..Cut(found, limit) PROVE Payload(Nth(found, n)) \in Payloads
  <2>1. n \in 1..Cardinality(found)
    BY <1>2, FoundIsOrdered
  <2>2. Nth(found, n) \in StoredEntries
    BY <2>1, NthIsFound, FoundIsOrdered
  <2> QED BY <2>2, EntryFields DEF Payload, Payloads
<1>4. [n \in 1..Cut(found, limit) |-> Payload(Nth(found, n))] \in [1..Cut(found, limit) -> Payloads]
  BY <1>3
<1>5. [n \in 1..Cut(found, limit) |-> Payload(Nth(found, n))] \in Seq(Payloads)
  BY <1>2, <1>4, FunctionIsSeq
<1> QED BY <1>1, <1>2, <1>5

\* A search finds entries of the database.
LEMMA FoundAmongEntries ==
  ASSUME NEW db, GoodText(db), NEW tags, NEW filter
  PROVE  FoundIn(db, Found(db, tags, filter))
BY DEF GoodText, FoundIn, Found, Searchable

--------------------------------------------------------------------------------
(* Answers.                                                                *)

\* What a request is answered with is a list of entries.
LEMMA EntriesAnswered ==
  ASSUME NEW db, GoodText(db), NEW r \in Wires
  PROVE  EntriesFor(db, r) \in Seq(Payloads) /\ LimitFor(r.ask) \in Nat
<1> DEFINE tags == TagsOf(db, r.user)
           filter == FilterOf(r.ask)
           limit == LimitFor(r.ask)
           found == Found(db, tags, filter)
<1>1. limit \in Nat
  BY AsksHaveLimits, LimitsAreNumbers DEF LimitFor, LimitOf, Wires
<1>2. EntriesFor(db, r) = QueryEntries(db, tags, filter, limit)
  BY DEF EntriesFor
<1>3. FoundIn(db, found)
  BY FoundAmongEntries
<1> HIDE DEF tags, filter, limit, found
<1>4. found = Found(db, tags, filter)
  BY DEF found
<1>5. QueryEntries(db, tags, filter, limit) \in Seq(Payloads)
  BY <1>1, <1>3, <1>4, QueryAnswers
<1> QED BY <1>1, <1>2, <1>5 DEF limit

\* An answer of 200 is from an authenticated request and one of 401 is not
\* (handlers of server/src/server/keegate.rs).
LEMMA AnswersFrom ==
  ASSUME NEW db, GoodText(db), NEW r \in Wires
  PROVE  /\ AnswerFrom(db, r) \in Answers
         /\ AnswerFrom(db, r).status = 200 =>
              Authenticates(db, r.user, r.password) /\ AnswerFrom(db, r).entries = EntriesFor(db, r)
         /\ AnswerFrom(db, r).status = 401 => ~Authenticates(db, r.user, r.password)
<1>1. EntriesFor(db, r) \in Seq(Payloads)
  BY EntriesAnswered
<1>2. CASE ~Authenticates(db, r.user, r.password)
  <2>1. AnswerFrom(db, r) = Refusal(401)
    BY <1>2 DEF AnswerFrom
  <2> QED BY <1>2, <2>1 DEF Refusal, Answers
<1>3. CASE Authenticates(db, r.user, r.password) /\ r.ask.kind = "uuid" /\ EntriesFor(db, r) = <<>>
  <2>1. AnswerFrom(db, r) = Refusal(404)
    BY <1>3 DEF AnswerFrom
  <2> QED BY <1>3, <2>1 DEF Refusal, Answers
<1>4. CASE /\ Authenticates(db, r.user, r.password)
           /\ ~(r.ask.kind = "uuid" /\ EntriesFor(db, r) = <<>>)
  <2>1. AnswerFrom(db, r) = [status |-> 200, entries |-> EntriesFor(db, r)]
    BY <1>4 DEF AnswerFrom
  <2> QED BY <1>1, <1>4, <2>1 DEF Answers
<1> QED BY <1>2, <1>3, <1>4

\* Each entry that is answered was found among what the user may see,
LEMMA AnsweredEntry ==
  ASSUME NEW db, GoodText(db), NEW r \in Wires, NEW i \in DOMAIN EntriesFor(db, r)
  PROVE  \E e \in Found(db, TagsOf(db, r.user), FilterOf(r.ask)) : EntriesFor(db, r)[i] = Payload(e)
<1> DEFINE tags == TagsOf(db, r.user)
           filter == FilterOf(r.ask)
           limit == LimitFor(r.ask)
           found == Found(db, tags, filter)
<1>1. limit \in Nat /\ EntriesFor(db, r) = QueryEntries(db, tags, filter, limit)
  BY EntriesAnswered DEF EntriesFor
<1>2. FoundIn(db, found)
  BY FoundAmongEntries
<1>3. found = Found(db, tags, filter)
  OBVIOUS
<1> HIDE DEF tags, filter, limit, found
<1>4. /\ EntriesFor(db, r) = [n \in 1..Cut(found, limit) |-> Payload(Nth(found, n))]
      /\ Cut(found, limit) \in Nat /\ Cut(found, limit) <= Cardinality(found)
  BY <1>1, <1>2, <1>3, QueryAnswers
<1>5. i \in 1..Cut(found, limit) /\ EntriesFor(db, r)[i] = Payload(Nth(found, i))
  BY <1>4
<1>6. i \in 1..Cardinality(found)
  BY <1>2, <1>4, <1>5, FoundIsOrdered
<1>7. Nth(found, i) \in found
  BY <1>2, <1>6, NthIsFound
<1> QED BY <1>5, <1>7 DEF found, tags, filter

\* and each that was found and is not answered comes after those that are.
LEMMA CutOffLater ==
  ASSUME NEW db, GoodText(db), NEW r \in Wires, NEW i \in DOMAIN EntriesFor(db, r),
         NEW e \in Found(db, TagsOf(db, r.user), FilterOf(r.ask)),
         e.uuid \notin {EntriesFor(db, r)[j].uuid : j \in DOMAIN EntriesFor(db, r)}
  PROVE  EntriesFor(db, r)[i].title <= e.title
<1> DEFINE tags == TagsOf(db, r.user)
           filter == FilterOf(r.ask)
           limit == LimitFor(r.ask)
           found == Found(db, tags, filter)
<1>1. limit \in Nat /\ EntriesFor(db, r) = QueryEntries(db, tags, filter, limit)
  BY EntriesAnswered DEF EntriesFor
<1>2. FoundIn(db, found) /\ e \in found
  BY FoundAmongEntries
<1>3. found = Found(db, tags, filter)
  OBVIOUS
<1> HIDE DEF tags, filter, limit, found
<1>4. /\ EntriesFor(db, r) = [n \in 1..Cut(found, limit) |-> Payload(Nth(found, n))]
      /\ Cut(found, limit) \in Nat /\ Cut(found, limit) <= Cardinality(found)
  BY <1>1, <1>2, <1>3, QueryAnswers
<1>5. ASSUME NEW n \in 1..Cut(found, limit)
      PROVE  /\ Nth(found, n) \in found /\ Rank(found, Nth(found, n)) = n
             /\ EntriesFor(db, r)[n] = Payload(Nth(found, n))
  <2>1. n \in 1..Cardinality(found)
    BY <1>2, <1>4, FoundIsOrdered
  <2> QED BY <1>2, <1>4, <2>1, NthIsFound
<1>6. Rank(found, e) \in Nat /\ Rank(found, e) >= 1
  <2>1. StrictOrder(Ordering(found), found) /\ IsFiniteSet(found) /\ Cardinality(found) \in Nat
    BY <1>2, FoundIsOrdered
  <2>2. Rank(found, e) = RankIn(Ordering(found), found, e)
    BY <1>2, RankIsRank
  <2>3. RankIn(Ordering(found), found, e) \in 1..Cardinality(found)
    BY <1>2, <2>1, RankRange
  <2> QED BY <2>1, <2>2, <2>3
<1>7. Rank(found, e) \notin 1..Cut(found, limit)
  <2> SUFFICES ASSUME Rank(found, e) \in 1..Cut(found, limit) PROVE FALSE
    OBVIOUS
  <2> DEFINE n == Rank(found, e)
  <2>1. /\ Nth(found, n) \in found /\ Rank(found, Nth(found, n)) = n
        /\ EntriesFor(db, r)[n] = Payload(Nth(found, n)) /\ n \in DOMAIN EntriesFor(db, r)
    BY <1>4, <1>5
  <2>2. Nth(found, n) = e
    BY <1>2, <2>1, EarlierIsBefore
  <2>3. EntriesFor(db, r)[n].uuid = e.uuid
    BY <2>1, <2>2 DEF Payload
  <2> QED BY <2>1, <2>3
<1>8. i \in 1..Cut(found, limit)
  BY <1>4
<1>9. Rank(found, Nth(found, i)) < Rank(found, e) /\ Nth(found, i) \in found
  BY <1>4, <1>5, <1>6, <1>7, <1>8
<1>10. Before(Nth(found, i), e)
  BY <1>2, <1>9, EarlierIsBefore
<1>11. Nth(found, i).title \in Nat /\ e.title \in Nat
  BY <1>2, <1>9, FoundIsOrdered, EntryFields
<1>12. EntriesFor(db, r)[i].title = Nth(found, i).title
  <2>1. EntriesFor(db, r)[i] = Payload(Nth(found, i))
    BY <1>5, <1>8
  <2> HIDE DEF found, limit
  <2> QED BY <2>1 DEF Payload
<1> QED BY <1>10, <1>11, <1>12 DEF Before

--------------------------------------------------------------------------------
(* How far a request is.                                                   *)

\* Where a request is, and what is settled about it by then.
Underway ==
  /\ pc \in {"idle", "sent", "load", "loaded", "replied"}
  /\ client \in Strings \cup {Nobody}
  /\ wire = Nobody <=> pc = "idle"
  /\ pc # "replied" => reply = Unanswered
  /\ pc \in {"load", "loaded"} =>
       wire.host = Home /\ ~Malformed(wire) /\ ~Anonymous(wire)

\* What is sent is a request, whoever's authority it goes by.
LEMMA SendSends ==
  ASSUME NEW s \in Strings, NEW ask \in Asks, Send(s, ask)
  PROVE  wire' \in Wires /\ wire' # Nobody
<1>1. Authority(s).host = s.host /\ Authority(s).user \in Nat /\ Authority(s).password \in Nat
  BY StringsAreAuthorities DEF Authority, Encoded
<1>2. wire' \in Wires
  BY <1>1 DEF Send, Wires
<1> QED BY <1>2, NobodyIsNoRequest

\* Nor does a stranger's request count as none.
LEMMA StrangerSends ==
  ASSUME NEW ask \in Asks, Stranger(ask)
  PROVE  wire' \in Wires /\ wire' # Nobody
<1>1. wire' \in Wires
  BY DEF Stranger, Send, Authority, Encoded, Wires, NoField
<1> QED BY <1>1, NobodyIsNoRequest

\* A request passes its handler's points in order, and what is settled stays so.
LEMMA UnderwayStays ==
  ASSUME Underway, [Next]_vars
  PROVE  Underway'
<1>1. ASSUME NEW file, Upload(file) PROVE Underway'
  BY <1>1 DEF Upload, request, Underway, Malformed, Anonymous
<1>2. CASE \E file \in FirstFiles : Create(file)
  BY <1>1, <1>2 DEF Create
<1>3. CASE Save
  BY <1>1, <1>3 DEF Save
<1>4. CASE \E s \in Strings : Build(s)
  BY <1>4 DEF Build, request, Underway, Malformed, Anonymous
<1>5. ASSUME NEW s \in Strings, NEW ask \in Asks, Send(s, ask) PROVE Underway'
  <2>1. wire' # Nobody
    BY <1>5, SendSends
  <2> QED BY <1>5, <2>1 DEF Send, Underway
<1>6. CASE \E ask \in Asks, s \in Strings : Resolve(s, ask)
  BY <1>5, <1>6 DEF Resolve, Underway
<1>7. CASE \E ask \in Asks : Query(ask)
  BY <1>5, <1>7 DEF Query, Underway
<1>8. CASE \E ask \in Asks : Stranger(ask)
  <2>1. PICK ask \in Asks : Stranger(ask)
    BY <1>8
  <2>2. wire' # Nobody
    BY <2>1, StrangerSends
  <2> QED BY <2>1, <2>2 DEF Stranger, Send, Underway
<1>9. CASE Receive
  BY <1>9 DEF Receive, files, Underway, Malformed, Anonymous
<1>10. CASE Load
  BY <1>10 DEF Load, files, Underway, Malformed, Anonymous
<1>11. CASE Evaluate
  BY <1>11 DEF Evaluate, files, Underway, Malformed, Anonymous
<1>12. CASE Elsewhere
  BY <1>12 DEF Elsewhere, files, Underway, Malformed, Anonymous
<1>13. CASE Take
  BY <1>13 DEF Take, AskNothing, files, Underway
<1>14. CASE Lose
  BY <1>14 DEF Lose, AskNothing, files, Underway
<1>15. CASE UNCHANGED vars
  BY <1>15 DEF vars, Underway, Malformed, Anonymous
<1> QED
  BY <1>2, <1>3, <1>4, <1>6, <1>7, <1>8, <1>9, <1>10, <1>11, <1>12, <1>13, <1>14, <1>15
  DEF Next

\* A handler (keegate.rs) reaches main only with a well-formed query and credentials, and
\* a request has no answer before it is at its end.
THEOREM AlwaysUnderway == Spec => []Underway
<1>1. Init => Underway
  BY DEF Init, Underway
<1>2. Underway /\ [Next]_vars => Underway'
  BY UnderwayStays
<1> QED BY <1>1, <1>2, PTL DEF Spec

--------------------------------------------------------------------------------
(* Whose credentials a request carries.                                    *)

\* Authorities that a request may be written with: complete ones, and none.
NoAuthority == [host |-> Home, user |-> NoField, password |-> NoField]
Writable == {s \in Strings : Complete(s)} \cup {NoAuthority}

\* A request goes where it was written to go, with the name and the password
\* written there, as the URL parser hands them out.
AsWritten ==
  /\ client # Nobody => client \in Strings /\ Complete(client)
  /\ wire # Nobody =>
       /\ wire.written \in Writable
       /\ wire.host = wire.written.host
       /\ wire.user = Encoded(wire.written.user)
       /\ wire.password = Encoded(wire.written.password)

\* Whoever sends, the request is as it was written.
LEMMA SendsAsWritten ==
  ASSUME AsWritten, NEW s \in Writable, NEW ask \in Asks, Send(s, ask)
  PROVE  AsWritten'
<1>1. /\ wire'.written = s /\ wire'.host = s.host
      /\ wire'.user = Encoded(s.user) /\ wire'.password = Encoded(s.password)
  BY DEF Send, Authority
<1>2. client' = client
  BY DEF Send
<1> QED BY <1>1, <1>2 DEF AsWritten

\* What leaves the client and the request alone, or drops the request, changes
\* nothing about that.
LEMMA QuietAsWritten ==
  ASSUME AsWritten, wire' = wire \/ wire' = Nobody, client' = client
  PROVE  AsWritten'
BY DEF AsWritten

\* resolve has two authorities to choose from and mixes them in no case.
LEMMA StaysAsWritten ==
  ASSUME AsWritten, [Next]_vars
  PROVE  AsWritten'
<1>1. ASSUME NEW file, Upload(file) PROVE AsWritten'
  BY <1>1, QuietAsWritten DEF Upload, request
<1>2. CASE \E file \in FirstFiles : Create(file)
  BY <1>1, <1>2 DEF Create
<1>3. CASE Save
  BY <1>1, <1>3 DEF Save
<1>4. CASE \E s \in Strings : Build(s)
  BY <1>4 DEF Build, request, AsWritten
<1>5. ASSUME NEW ask \in Asks, NEW s \in Strings, Resolve(s, ask) PROVE AsWritten'
  <2>1. client \in Writable /\ (Complete(s) => s \in Writable)
    BY <1>5 DEF Resolve, AsWritten, Writable
  <2> QED BY <1>5, <2>1, SendsAsWritten DEF Resolve
<1>6. ASSUME NEW ask \in Asks, Query(ask) PROVE AsWritten'
  <2>1. client \in Writable
    BY <1>6 DEF Query, AsWritten, Writable
  <2> QED BY <1>6, <2>1, SendsAsWritten DEF Query
<1>7. ASSUME NEW ask \in Asks, Stranger(ask) PROVE AsWritten'
  <2>1. NoAuthority \in Writable
    BY DEF Writable
  <2> QED BY <1>7, <2>1, SendsAsWritten DEF Stranger, NoAuthority
<1>8. CASE Receive \/ Load \/ Evaluate \/ Elsewhere
  BY <1>8, QuietAsWritten DEF Receive, Load, Evaluate, Elsewhere, files
<1>9. CASE Take \/ Lose
  BY <1>9, QuietAsWritten DEF Take, Lose, AskNothing, files
<1>10. CASE UNCHANGED vars
  BY <1>10, QuietAsWritten DEF vars
<1> QED
  BY <1>2, <1>3, <1>4, <1>5, <1>6, <1>7, <1>8, <1>9, <1>10 DEF Next

\* What was written for a host goes there, whole (resolve of keegate-client/src/lib.rs).
THEOREM AlwaysAsWritten == Spec => []AsWritten
<1>1. Init => AsWritten
  BY DEF Init, AsWritten
<1>2. AsWritten /\ [Next]_vars => AsWritten'
  BY StaysAsWritten
<1> QED BY <1>1, <1>2, PTL DEF Spec

\* Each host was given a password of its own: without this, a password that
\* reaches a host says nothing about where it was taken from.
OwnPasswords ==
  \A s, t \in Strings :
    Complete(s) /\ Complete(t) /\ s.host # t.host =>
      Encoded(s.password) # Encoded(t.password)

\* The password of the connection string is sent to its host only: resolve
\* (keegate-client/src/lib.rs) takes all of a reference's authority or none of it.
THEOREM StayHome == ASSUME OwnPasswords PROVE Spec => []CredentialsStayHome
<1>1. AsWritten => CredentialsStayHome
  <2> SUFFICES ASSUME AsWritten, wire # Nobody, client # Nobody, wire.host # client.host
               PROVE  wire.password # Encoded(client.password)
    BY DEF CredentialsStayHome
  <2>1. /\ client \in Strings /\ Complete(client)
        /\ wire.written \in Writable /\ wire.written.host # client.host
        /\ wire.password = Encoded(wire.written.password)
    BY DEF AsWritten
  <2>2. CASE wire.written \in Strings /\ Complete(wire.written)
    BY <2>1, <2>2, OwnPasswords DEF OwnPasswords
  <2>3. CASE wire.written = NoAuthority
    <3>1. wire.password = NoField
      <4>1. wire.written.password = NoField
        BY <2>3 DEF NoAuthority
      <4>2. Encoded(NoField) = NoField
        BY ReservedAreFields DEF Encoded
      <4> QED BY <2>1, <4>1, <4>2
    <3>2. client.password \in Nat /\ client.password # NoField
      BY <2>1, StringsAreAuthorities DEF Complete
    <3> QED BY <3>1, <3>2 DEF Encoded, NoField
  <2> QED BY <2>1, <2>2, <2>3 DEF Writable
<1> QED BY <1>1, AlwaysAsWritten, PTL

--------------------------------------------------------------------------------
(* What users save.                                                        *)

\* Only an upload touches main, and only files that programs write are uploaded.
LEMMA FilesOrUpload ==
  ASSUME FilesKept, [Next]_vars
  PROVE  (\E file : GoodFile(file) /\ Upload(file)) \/ UNCHANGED files
<1>1. CASE \E file \in FirstFiles : Create(file)
  BY <1>1, FirstFilesAreFiles, FirstFilesAreInOrder DEF Create, GoodFile
<1>2. CASE Save
  <2>1. PICK file \in Edits(ToFile(main)) : Upload(file) \/ Upload(Reordered(file))
    BY <1>2 DEF Save
  <2>2. GoodText(main)
    BY <1>2 DEF Save, FilesKept
  <2>3. GoodFile(ToFile(main))
    BY <2>2, Downloaded
  <2> DEFINE download == ToFile(main)
  <2> HIDE DEF download
  <2>4. GoodFile(file)
    BY <2>1, <2>3, EditedFile DEF download
  <2>5. GoodFile(Reordered(file))
    BY <2>4, ReorderedFile
  <2> QED BY <2>1, <2>4, <2>5
<1>3. CASE \E s \in Strings : Build(s)
  BY <1>3 DEF Build
<1>4. CASE \E ask \in Asks : \/ \E s \in Strings : Resolve(s, ask)
                             \/ Query(ask) \/ Stranger(ask)
  BY <1>4 DEF Resolve, Query, Stranger, Send
<1>5. CASE Receive \/ Load \/ Evaluate \/ Elsewhere \/ Take \/ Lose
  BY <1>5 DEF Receive, Load, Evaluate, Elsewhere, Take, Lose
<1>6. CASE UNCHANGED vars
  BY <1>6 DEF vars, files
<1> QED BY <1>1, <1>2, <1>3, <1>4, <1>5, <1>6 DEF Next

\* A step leaves main as it is, or saves what users can tell from it.
LEMMA StepKeepsFiles ==
  ASSUME FilesKept, [Next]_vars
  PROVE  /\ FilesKept'
         /\ commits' # commits /\ main # NoDatabase => FileContent(main) # FileContent(main')
<1>1. ASSUME NEW file, GoodFile(file), Upload(file)
      PROVE  /\ FilesKept'
             /\ commits' # commits /\ main # NoDatabase => FileContent(main) # FileContent(main')
  <2>1. FilesKept' /\ (main \in {NoDatabase, main'} \/ FileContent(main) # FileContent(main'))
    BY <1>1, UploadKeeps
  <2>2. commits' # commits => main' # main
    BY <1>1 DEF Upload
  <2> QED BY <2>1, <2>2
<1>2. CASE UNCHANGED files
  BY <1>2 DEF files, FilesKept
<1> QED BY <1>1, <1>2, FilesOrUpload

\* main is the text of what was uploaded last, whatever order its program kept it in.
THEOREM AlwaysFilesKept == Spec => []FilesKept
<1>1. Init => FilesKept
  BY DEF Init, FilesKept
<1>2. FilesKept /\ [Next]_vars => FilesKept'
  BY StepKeepsFiles
<1> QED BY <1>1, <1>2, PTL DEF Spec

\* An upload that changes something is not lost: process_client_write commits a text
\* that holds all that was uploaded, or main already is that text.
THEOREM SaveLands == Spec => []SavesLand
<1>1. FilesKept => SavesLand
  BY DEF FilesKept, SavesLand
<1> QED BY <1>1, AlwaysFilesKept, PTL

\* An upload that changes nothing users see makes no commit: serialize sorts what has
\* no order before process_client_write compares the texts.
THEOREM Silent == Spec => SilentSaves
<1>1. FilesKept /\ [Next]_vars =>
        [commits' # commits /\ main # NoDatabase => FileContent(main) # FileContent(main')]_vars
  BY StepKeepsFiles
<1> QED BY <1>1, AlwaysFilesKept, PTL DEF Spec, SilentSaves

--------------------------------------------------------------------------------
(* What requests are answered with.                                        *)

\* The statuses of a handler that has read nothing, and of another server.
Refused == {Refusal(400), Refusal(401), Refusal(500), Refusal(503)}

\* What a handler holds of main, and what the answer was made from.
Answered ==
  /\ snapshot # NoDatabase => GoodText(snapshot)
  /\ pc \in {"idle", "sent", "load"} => snapshot = NoDatabase
  /\ pc = "loaded" => snapshot # NoDatabase
  /\ pc = "replied" =>
       \/ snapshot # NoDatabase /\ reply = AnswerFrom(snapshot, wire)
       \/ snapshot = NoDatabase /\ reply \in Refused

\* The counters and the request, which the types are about, and what they tell of main.
Counted ==
  /\ commits \in Nat /\ uploads \in 0..MaxUploads /\ faults \in 0..MaxFaults
  /\ main = NoDatabase <=> commits = 0
  /\ wire \in Wires \cup {Nobody}
  /\ snapshot # NoDatabase => commits > 0

\* A handler answers from what it read.
LEMMA AnsweredStays ==
  ASSUME FilesKept, Answered, [Next]_vars
  PROVE  Answered'
<1>1. ASSUME NEW file, Upload(file) PROVE Answered'
  BY <1>1 DEF Upload, request, Answered
<1>2. CASE \E file \in FirstFiles : Create(file)
  BY <1>1, <1>2 DEF Create
<1>3. CASE Save
  BY <1>1, <1>3 DEF Save
<1>4. CASE \E s \in Strings : Build(s)
  BY <1>4 DEF Build, request, Answered
<1>5. CASE \E ask \in Asks : \/ \E s \in Strings : Resolve(s, ask)
                             \/ Query(ask) \/ Stranger(ask)
  BY <1>5 DEF Resolve, Query, Stranger, Send, Answered
<1>6. CASE Receive
  BY <1>6 DEF Receive, files, Answered, Refused
<1>7. CASE Load
  BY <1>7 DEF Load, files, Answered, Refused, FilesKept
<1>8. CASE Evaluate
  BY <1>8 DEF Evaluate, files, Answered
<1>9. CASE Elsewhere
  BY <1>9 DEF Elsewhere, files, Answered, Refused
<1>10. CASE Take \/ Lose
  BY <1>10 DEF Take, Lose, AskNothing, files, Answered
<1>11. CASE UNCHANGED vars
  BY <1>11 DEF vars, Answered
<1> QED
  BY <1>2, <1>3, <1>4, <1>5, <1>6, <1>7, <1>8, <1>9, <1>10, <1>11 DEF Next

\* What is read of main is text of main, and what is answered after that is
\* answered from it (authenticate_request hands its database on).
THEOREM AlwaysAnswered == Spec => []Answered
<1>1. Init => Answered
  BY DEF Init, Answered
<1>2. FilesKept /\ Answered /\ [Next]_vars => Answered'
  BY AnsweredStays
<1> QED BY <1>1, <1>2, AlwaysFilesKept, PTL DEF Spec

\* Bounds hold, main is not gone again once there is one, and every request is one.
LEMMA CountedStays ==
  ASSUME Underway, FilesKept, Counted, [Next]_vars
  PROVE  Counted'
<1>1. ASSUME NEW file, GoodFile(file), Upload(file) PROVE Counted'
  <2> DEFINE text == Serialized(ToStorage(file))
  <2>1. text # NoDatabase
    BY <1>1, SavedText, NoneIsNoDatabase DEF GoodText
  <2>2. main' = text /\ (IF text = main THEN commits' = commits ELSE commits' = commits + 1)
    BY <1>1 DEF Upload
  <2> HIDE DEF text
  <2>3. uploads' \in 0..MaxUploads
    BY <1>1, KeeGateBounds DEF Upload, Counted
  <2>4. UNCHANGED <<wire, snapshot, faults>>
    BY <1>1 DEF Upload, request
  <2> QED BY <2>1, <2>2, <2>3, <2>4 DEF Counted
<1>2. CASE (\E file \in FirstFiles : Create(file)) \/ Save
  <2>1. ~UNCHANGED files
    BY <1>2, KeeGateBounds DEF Create, Save, Upload, files, Counted
  <2> QED BY <1>1, <2>1, FilesOrUpload
<1>3. CASE \E s \in Strings : Build(s)
  BY <1>3 DEF Build, files, request, Counted
<1>4. ASSUME NEW s \in Strings, NEW ask \in Asks, Send(s, ask) PROVE Counted'
  <2>1. wire' \in Wires
    BY <1>4, SendSends
  <2> QED BY <1>4, <2>1 DEF Send, files, Counted
<1>5. CASE \E ask \in Asks, s \in Strings : Resolve(s, ask)
  BY <1>4, <1>5 DEF Resolve, Underway
<1>6. CASE \E ask \in Asks : Query(ask)
  BY <1>4, <1>6 DEF Query, Underway
<1>7. CASE \E ask \in Asks : Stranger(ask)
  <2>1. PICK ask \in Asks : Stranger(ask)
    BY <1>7
  <2>2. wire' \in Wires
    BY <2>1, StrangerSends
  <2> QED BY <2>1, <2>2 DEF Stranger, Send, files, Counted
<1>8. ASSUME Fault \/ UNCHANGED faults PROVE faults' \in 0..MaxFaults
  BY <1>8, KeeGateBounds DEF Fault, Counted
<1>9. CASE Receive \/ Evaluate \/ Elsewhere
  BY <1>9 DEF Receive, Evaluate, Elsewhere, files, Counted
<1>10. CASE Load
  BY <1>8, <1>10 DEF Load, files, Counted
<1>11. CASE Take \/ Lose
  BY <1>8, <1>11 DEF Take, Lose, AskNothing, files, Counted
<1>12. CASE UNCHANGED vars
  BY <1>12 DEF vars, Counted
<1> QED
  BY <1>2, <1>3, <1>5, <1>6, <1>7, <1>9, <1>10, <1>11, <1>12 DEF Next

\* The types, and that main is never gone again.
THEOREM TypeCorrect == Spec => []TypeOK
<1>1. Init => Counted
  BY KeeGateBounds DEF Init, Counted
<1>2. Underway /\ FilesKept /\ Counted /\ [Next]_vars => Counted'
  BY CountedStays
<1>3. Underway /\ FilesKept /\ Answered /\ Counted => TypeOK
  <2> SUFFICES ASSUME Underway, FilesKept, Answered, Counted PROVE TypeOK
    OBVIOUS
  <2>1. /\ main \in StorageDatabases \cup {NoDatabase}
        /\ snapshot \in StorageDatabases \cup {NoDatabase}
    BY DEF FilesKept, Answered, GoodText
  <2>2. pc = "replied" => reply # Unanswered
    <3> SUFFICES ASSUME pc = "replied" PROVE reply \in Answers
      BY NoneIsNoAnswer
    <3>1. wire \in Wires
      BY DEF Underway, Counted
    <3>2. CASE snapshot # NoDatabase /\ reply = AnswerFrom(snapshot, wire)
      BY <3>1, <3>2, AnswersFrom DEF Answered
    <3>3. CASE reply \in Refused
      <4>1. \A s \in Nat : Refusal(s) \in Answers
        BY DEF Refusal, Answers
      <4> QED BY <3>3, <4>1 DEF Refused
    <3> QED BY <3>2, <3>3 DEF Answered
  <2> QED BY <2>1, <2>2 DEF TypeOK, Underway, Answered, Counted
<1> QED BY <1>1, <1>2, <1>3, AlwaysUnderway, AlwaysFilesKept, AlwaysAnswered, PTL DEF Spec

\* An answer with entries is one of this server, from one database.
LEMMA AnswersOf200 ==
  ASSUME TypeOK, Answered, pc = "replied", reply.status = 200
  PROVE  /\ GoodText(snapshot) /\ wire \in Wires
         /\ reply.entries = EntriesFor(snapshot, wire)
<1>1. wire \in Wires
  BY DEF TypeOK
<1>2. reply \notin Refused
  BY DEF Refused, Refusal
<1>3. GoodText(snapshot) /\ reply = AnswerFrom(snapshot, wire)
  BY <1>2 DEF Answered
<1> QED BY <1>1, <1>3, AnswersFrom

\* query_entries answers no entry of a users group, and none without a tag of the user's.
THEOREM Allowed == Spec => []AnswersAreAllowed
<1>1. TypeOK /\ Answered => AnswersAreAllowed
  <2> SUFFICES ASSUME TypeOK, Answered, pc = "replied", reply.status = 200,
                      NEW i \in DOMAIN reply.entries
               PROVE  \E e \in EntriesOf(snapshot) :
                        /\ e.uuid = reply.entries[i].uuid
                        /\ e.root \in DOMAIN snapshot.groups =>
                             snapshot.groups[e.root] # UsersGroupName
                        /\ \E u \in UserEntries(snapshot) :
                             u.user = wire.user /\ ToSet(u.tags) \cap ToSet(e.tags) # {}
    BY DEF AnswersAreAllowed
  <2>1. /\ GoodText(snapshot) /\ wire \in Wires
        /\ reply.entries = EntriesFor(snapshot, wire)
    BY AnswersOf200
  <2>2. PICK e \in Found(snapshot, TagsOf(snapshot, wire.user), FilterOf(wire.ask)) :
          reply.entries[i] = Payload(e)
    BY <2>1, AnsweredEntry
  <2>3. e \in Searchable(snapshot) /\ IsAuthorized(e, TagsOf(snapshot, wire.user))
    BY DEF Found
  <2>4. e.uuid = reply.entries[i].uuid
    BY <2>2 DEF Payload
  <2>5. /\ e \in EntriesOf(snapshot)
        /\ e.root \in DOMAIN snapshot.groups => snapshot.groups[e.root] # UsersGroupName
    BY <2>3 DEF Searchable, UsersGroups
  <2>6. \E u \in Candidates(snapshot, wire.user) : ToSet(u.tags) \cap ToSet(e.tags) # {}
    BY <2>3 DEF IsAuthorized, TagsOf
  <2> QED BY <2>4, <2>5, <2>6 DEF Candidates
<1> QED BY <1>1, TypeCorrect, AlwaysAnswered, PTL

\* query_entries sorts before it cuts off: what the limit drops comes after what is
\* answered.
THEOREM FirstCome == Spec => []FirstComeFirst
<1>1. TypeOK /\ Answered => FirstComeFirst
  <2> SUFFICES ASSUME TypeOK, Answered, pc = "replied", reply.status = 200,
                      NEW i \in DOMAIN reply.entries, NEW e \in EntriesOf(snapshot),
                      e.root \notin UsersGroups(snapshot), FilterOf(wire.ask) \in Matching(e),
                      ToSet(e.tags) \cap TagsOf(snapshot, wire.user) # {},
                      e.uuid \notin {reply.entries[j].uuid : j \in DOMAIN reply.entries}
               PROVE  reply.entries[i].title <= e.title
    BY DEF FirstComeFirst
  <2>1. /\ GoodText(snapshot) /\ wire \in Wires
        /\ reply.entries = EntriesFor(snapshot, wire)
    BY AnswersOf200
  <2>2. e \in Found(snapshot, TagsOf(snapshot, wire.user), FilterOf(wire.ask))
    BY DEF Found, Searchable, IsAuthorized
  <2> QED BY <2>1, <2>2, CutOffLater
<1> QED BY <1>1, TypeCorrect, AlwaysAnswered, PTL

\* Where names and passwords need no encoding, a user whose entry is in order, and about
\* whom startup_warnings has nothing to say, gets in with the name and the password.
THEOREM GetIn == ASSUME Reserved = {} PROVE Spec => []ConfiguredUsersGetIn
<1>1. TypeOK /\ Answered /\ AsWritten => ConfiguredUsersGetIn
  <2> SUFFICES ASSUME TypeOK, Answered, AsWritten, pc = "replied", reply.status = 401,
                      snapshot # NoDatabase, StartupWarnings(snapshot) = {},
                      NEW e \in UserEntries(snapshot),
                      e.user = wire.written.user, e.password = wire.written.password
               PROVE  FALSE
    BY DEF ConfiguredUsersGetIn
  <2>1. GoodText(snapshot) /\ wire \in Wires /\ wire # Nobody
    BY NobodyIsNoRequest DEF TypeOK, Answered
  <2>2. ~Authenticates(snapshot, wire.user, wire.password)
    BY <2>1, AnswersFrom DEF Answered
  <2>3. wire.user = e.user /\ wire.password = e.password
    BY <2>1, Reserved = {} DEF AsWritten, Encoded
  <2>4. UsersGroups(snapshot) # {} /\ ValidUserEntry(e) /\ AmbiguousNames(snapshot) = {}
    BY DEF StartupWarnings
  <2> DEFINE found == Candidates(snapshot, e.user)
  <2>5. e \in found
    BY <2>4 DEF Candidates
  <2>6. ~(Cardinality(found) > 1)
    BY <2>4 DEF AmbiguousNames
  <2>7. IsFiniteSet(found)
    <3>1. IsFiniteSet(EntriesOf(snapshot))
      BY <2>1, EntriesAreFinite DEF GoodText
    <3>2. found \subseteq EntriesOf(snapshot)
      BY DEF Candidates, UserEntries
    <3> QED BY <3>1, <3>2, FS_Subset
  <2> HIDE DEF found
  <2>8. Cardinality(found) = 1
    <3>1. Cardinality(found) \in Nat /\ Cardinality(found) # 0
      BY <2>5, <2>7, FS_CardinalityType, FS_EmptySet
    <3> QED BY <2>6, <3>1
  <2> QED BY <2>2, <2>3, <2>5, <2>8 DEF Authenticates, found
<1> QED BY <1>1, TypeCorrect, AlwaysAnswered, AlwaysAsWritten, PTL

--------------------------------------------------------------------------------
(* The refinement mapping, step by step.                                   *)

USE DEF AskedHere, AnsweredHere

\* An upload writes main or changes nothing that the service knows of.
LEMMA UploadIsWrite ==
  ASSUME NEW file, Upload(file)
  PROVE  Service!WriteMain \/ UNCHANGED <<main, AskedHere, AnsweredHere>>
BY DEF Upload, request, Service!WriteMain

\* A request sent is one asked of this server, or of no concern to it.
LEMMA SendIsAsk ==
  ASSUME Underway, pc = "idle", wire' # Nobody, pc' = "sent",
         UNCHANGED <<main, snapshot, reply>>
  PROVE  Service!Ask \/ UNCHANGED <<main, AskedHere, AnsweredHere>>
BY DEF Underway, Service!Ask

\* The handler that refuses at once answers from main as it is.
LEMMA ReceiveIsAnswer ==
  ASSUME Underway, Receive
  PROVE  Service!Answer \/ UNCHANGED <<main, AskedHere, AnsweredHere>>
<1>1. /\ wire # Nobody /\ wire.host = Home /\ reply = Unanswered
      /\ UNCHANGED <<main, wire, snapshot>>
  BY DEF Underway, Receive, files
<1>2. CASE Malformed(wire) /\ reply' = Refusal(400) /\ pc' = "replied"
  <2>1. Respond(main, wire) = Refusal(400)
    BY <1>2 DEF Respond
  <2> QED BY <1>1, <1>2, <2>1 DEF Service!Answer, Receive
<1>3. CASE ~Malformed(wire) /\ Anonymous(wire) /\ reply' = Refusal(401) /\ pc' = "replied"
  <2>1. Respond(main, wire) = Refusal(401)
    BY <1>3 DEF Respond
  <2> QED BY <1>1, <1>3, <2>1 DEF Service!Answer, Receive
<1>4. CASE pc' = "load" /\ UNCHANGED reply
  BY <1>1, <1>4 DEF Receive
<1> QED BY <1>2, <1>3, <1>4 DEF Receive

\* The read of main is the moment that the answer belongs to.
LEMMA LoadIsAnswer ==
  ASSUME Underway, Load
  PROVE  Service!Answer
<1>1. /\ wire # Nobody /\ wire.host = Home /\ reply = Unanswered
      /\ ~Malformed(wire) /\ ~Anonymous(wire)
      /\ UNCHANGED <<main, wire>>
  BY DEF Underway, Load, files
<1>2. CASE main # NoDatabase /\ snapshot' = main /\ pc' = "loaded"
  <2>1. Respond(main, wire) = AnswerFrom(main, wire)
    BY <1>1, <1>2 DEF Respond
  <2>2. AnsweredHere' = AnswerFrom(main, wire)
    BY <1>1, <1>2
  <2> QED BY <1>1, <2>1, <2>2 DEF Service!Answer, Load
<1>3. CASE reply' = Refusal(500) /\ pc' = "replied"
  BY <1>1, <1>3 DEF Service!Answer, Load
<1> QED BY <1>2, <1>3 DEF Load

\* A caller that has its answer, or gave up, asks nothing.
LEMMA AskNothingIsLeave ==
  ASSUME Underway, pc # "idle", AskNothing, UNCHANGED main
  PROVE  Service!Leave \/ UNCHANGED <<main, AskedHere, AnsweredHere>>
BY DEF Underway, AskNothing, Service!Leave

\* Every step is a step of the service or none.
LEMMA StepKeepsService ==
  ASSUME Underway, [Next]_vars
  PROVE  Service!ServiceNext \/ UNCHANGED <<main, AskedHere, AnsweredHere>>
<1>1. CASE \E file \in FirstFiles : Create(file)
  BY <1>1, UploadIsWrite DEF Create, Service!ServiceNext
<1>2. CASE Save
  BY <1>2, UploadIsWrite DEF Save, Service!ServiceNext
<1>3. CASE \E s \in Strings : Build(s)
  BY <1>3 DEF Build, files, request
<1>4. ASSUME NEW s \in Strings, NEW ask \in Asks, Send(s, ask)
      PROVE  Service!Ask \/ UNCHANGED <<main, AskedHere, AnsweredHere>>
  <2>1. wire' # Nobody
    BY <1>4, SendSends
  <2>2. pc = "idle" /\ pc' = "sent" /\ UNCHANGED <<main, snapshot, reply>>
    BY <1>4 DEF Send, files
  <2> QED BY <2>1, <2>2, SendIsAsk
<1>5. CASE \E ask \in Asks, s \in Strings : Resolve(s, ask)
  BY <1>4, <1>5 DEF Resolve, Underway, Service!ServiceNext
<1>6. CASE \E ask \in Asks : Query(ask)
  BY <1>4, <1>6 DEF Query, Underway, Service!ServiceNext
<1>7. CASE \E ask \in Asks : Stranger(ask)
  <2>1. PICK ask \in Asks : Stranger(ask)
    BY <1>7
  <2>2. wire' # Nobody
    BY <2>1, StrangerSends
  <2>3. pc = "idle" /\ pc' = "sent" /\ UNCHANGED <<main, snapshot, reply>>
    BY <2>1 DEF Stranger, Send, files
  <2> QED BY <2>2, <2>3, SendIsAsk DEF Service!ServiceNext
<1>8. CASE Receive
  BY <1>8, ReceiveIsAnswer DEF Service!ServiceNext
<1>9. CASE Load
  BY <1>9, LoadIsAnswer DEF Service!ServiceNext
<1>10. CASE Evaluate
  BY <1>10 DEF Evaluate, Underway, files
<1>11. CASE Elsewhere
  BY <1>11 DEF Elsewhere, files
<1>12. CASE Take
  BY <1>12, AskNothingIsLeave DEF Take, files, Service!ServiceNext
<1>13. CASE Lose
  BY <1>13, AskNothingIsLeave DEF Lose, files, Service!ServiceNext
<1>14. CASE UNCHANGED vars
  BY <1>14 DEF vars
<1> QED
  BY <1>1, <1>2, <1>3, <1>5, <1>6, <1>7, <1>8, <1>9, <1>10, <1>11, <1>12, <1>13, <1>14
  DEF Next

(* Every answer of this server is the answer of one version of main that   *)
(* was current between question and answer, or an error and nothing else.  *)
THEOREM Implements == Spec => KeepsService
<1>1. Init => Service!ServiceInit
  BY DEF Init, Service!ServiceInit
<1>2. Underway /\ [Next]_vars => [Service!ServiceNext]_(Service!serviceVars)
  BY StepKeepsService DEF Service!serviceVars
<1>3. Spec => []Underway
  BY AlwaysUnderway
<1> QED BY <1>1, <1>2, <1>3, PTL DEF Spec, KeepsService, Service!ServiceSpec
================================================================================
