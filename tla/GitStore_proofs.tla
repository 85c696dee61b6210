---------------------------- MODULE GitStore_proofs ----------------------------
(***************************************************************************)
(* Proofs about GitStore, for every number of clients, requests and        *)
(* faults.                                                                 *)
(***************************************************************************)
EXTENDS GitStore, CommitGraph_proofs

--------------------------------------------------------------------------------
(* Requests and the commits they name.                                     *)

\* What a request knows stays true when commits and offers are added.
LEMMA RequestGrows ==
  ASSUME NEW cs \in Seq(Commits), NEW cs2 \in Seq(Commits), Grows(cs, cs2),
         NEW hs, NEW hs2, \A b \in Branches : hs[b] # None => hs2[b] # None,
         NEW os, NEW os2, os \subseteq os2,
         NEW r, RequestOK(cs, hs, os, r)
  PROVE  RequestOK(cs2, hs2, os2, r)
<1>1. Ids(cs) \subseteq Ids(cs2) /\ Tips(cs) \subseteq Tips(cs2)
  BY DEF Grows, Ids, Tips
<1>2. \A a : \A d \in Ids(cs) : Forward(cs, a, d) => Forward(cs2, a, d)
  BY ForwardGrows
<1>3. Main \in Branches /\ r.client \in Branches /\ From(r) \in Branches /\ Into(r) \in Branches
  BY DEF RequestOK, RequestType, Branches, From, Into
<1>. QED
  BY <1>1, <1>2, <1>3 DEF RequestOK

\* A slot without a request is in order, whatever the repository holds.
LEMMA IdleOK ==
  ASSUME NEW cs, NEW hs, NEW os
  PROVE  RequestOK(cs, hs, os, Idle)
<1>1. Idle \in RequestType
  BY NoDbType DEF Idle, RequestType, Ops, Stages, Pcs, Results, Branches, None
<1>. QED
  BY <1>1 DEF RequestOK, Idle

\* The end of a task leaves a request that waits for its handler, or none.
LEMMA FinishOK ==
  ASSUME NEW cs, NEW hs, NEW os, NEW r, RequestOK(cs, hs, os, r), NEW res \in Results,
         (r.stage = "create" /\ res = "ok") => r.new \in Ids(cs) /\ Forward(cs, r.old, r.new)
  PROVE  RequestOK(cs, hs, os, IF r.attached
                           THEN [r EXCEPT !.pc = "ret", !.res = res, !.tries = 0]
                           ELSE Idle)
<1> DEFINE d == [r EXCEPT !.pc = "ret", !.res = res, !.tries = 0]
<1>1. r \in RequestType
  BY DEF RequestOK
<1>2. d \in RequestType
  BY <1>1 DEF RequestType, Pcs
<1>3. /\ d.stage = r.stage /\ d.pc = "ret" /\ d.res = res /\ d.client = r.client
      /\ d.new = r.new /\ d.old = r.old
  BY <1>1 DEF RequestType
<1>4. Offer(d) = Offer(r)
  BY <1>3 DEF Offer
<1>5. RequestOK(cs, hs, os, d)
  BY <1>2, <1>3, <1>4 DEF RequestOK
<1>. QED
  BY <1>5, IdleOK

\* A fresh request of a client.
LEMMA NewRequestOK ==
  ASSUME NEW cs, NEW hs, NEW os, NEW c \in Clients,
         NEW op \in Ops, NEW stage \in {"ensure", "create", "read"}
  PROVE  RequestOK(cs, hs, os, Request(op, stage, c))
<1>1. Idle \in RequestType
  BY IdleOK DEF RequestOK
<1>2. Request(op, stage, c) \in RequestType
  BY <1>1 DEF Request, RequestType, Stages, Pcs, Branches
<1>3. Request(op, stage, c).stage = stage /\ Request(op, stage, c).pc = "lock"
      /\ Request(op, stage, c).client = c
  BY <1>1 DEF Request, RequestType
<1>. QED
  BY <1>2, <1>3 DEF RequestOK

\* The tips stay tips when commits are written.
LEMMA TipsGrow ==
  ASSUME NEW cs \in Seq(Commits), NEW cs2 \in Seq(Commits), Grows(cs, cs2)
  PROVE  /\ Ids(cs) \subseteq Ids(cs2) /\ Tips(cs) \subseteq Tips(cs2)
         /\ \A S, f : f \in [S -> Tips(cs)] => f \in [S -> Tips(cs2)]
BY DEF Grows, Ids, Tips

\* The parts of the state other than the requests.
StoreTypeOK ==
  /\ commits \in Seq(Commits) /\ WellFormed(commits)
  /\ heads \in [Branches -> Tips(commits)]
  /\ temp \in [Clients -> Tips(commits)]
  /\ lock \in Procs \cup {NoProc}
  /\ announced \in [Branches -> Tips(commits)]
  /\ offers \subseteq Offers
  /\ \A o \in offers : o.commit \in Ids(commits)
  /\ acked \subseteq [client: Clients, commit: Nat]
  /\ {started, faults, hangups} \subseteq Nat

\* A step of one request keeps the types if it keeps those of the store and
\* leaves a request in order.
LEMMA StepKeepsTypes ==
  ASSUME TypeOK, StoreTypeOK', Grows(commits, commits'), offers \subseteq offers',
         \A b \in Branches : heads[b] # None => heads'[b] # None,
         NEW p \in Procs, NEW r, Step(p, r), RequestOK(commits', heads', offers', r)
  PROVE  TypeOK'
<1>1. \A q \in Procs : RequestOK(commits', heads', offers', req[q])
  BY RequestGrows DEF TypeOK, StoreTypeOK
<1>2. req' = [req EXCEPT ![p] = r]
  BY DEF Step
<1>3. \A q \in Procs : req'[q] = IF q = p THEN r ELSE req[q]
  BY <1>2 DEF TypeOK
<1>4. \A q \in Procs : RequestOK(commits', heads', offers', req'[q])
  BY <1>1, <1>3
<1>5. req' \in [Procs -> RequestType]
  BY <1>2 DEF TypeOK, RequestOK
<1>. QED
  BY <1>4, <1>5 DEF TypeOK, StoreTypeOK

\* The common case: nothing that is typed by the commits changes.
LEMMA QuietKeepsTypes ==
  ASSUME TypeOK, UNCHANGED <<repo, announced, offers>>,
         lock' \in Procs \cup {NoProc},
         acked' \subseteq [client: Clients, commit: Nat],
         {started, faults, hangups}' \subseteq Nat,
         NEW p \in Procs, NEW r, Step(p, r), RequestOK(commits, heads, offers, r)
  PROVE  TypeOK'
<1>1. Grows(commits, commits')
  BY DEF TypeOK, Grows, repo, Ids
<1>2. StoreTypeOK'
  BY DEF TypeOK, StoreTypeOK, repo
<1>3. RequestOK(commits', heads', offers', r)
  BY DEF repo
<1>4. offers \subseteq offers' /\ heads' = heads
  BY DEF repo
<1>. QED
  BY <1>1, <1>2, <1>3, <1>4, StepKeepsTypes

--------------------------------------------------------------------------------
(* Type correctness, whoever bypasses the mutex.                           *)

\* Requests that arrive.
LEMMA StartTypes ==
  ASSUME TypeOK, NEW p \in Procs, Start(p)
  PROVE  TypeOK'
<1>1. ASSUME NEW r, Open(p, r), RequestOK(commits, heads, offers, r)
      PROVE  TypeOK'
  <2>1. UNCHANGED <<repo, announced, offers, lock, acked>> /\ Step(p, r)
        /\ started' = started + 1 /\ UNCHANGED <<faults, hangups>>
    BY <1>1 DEF Open
  <2>2. {started, faults, hangups}' \subseteq Nat
    BY <2>1 DEF TypeOK
  <2>. QED
    BY <1>1, <2>1, <2>2, QuietKeepsTypes DEF TypeOK
<1>2. ASSUME NEW c \in Clients, StartGet(p, c) \/ StartProbe(p, c) \/ StartCreate(p, c)
      PROVE  TypeOK'
  BY <1>1, <1>2, NewRequestOK DEF StartGet, StartProbe, StartCreate, Ops
<1>3. ASSUME NEW c \in Clients, NEW db \in Databases, StartPut(p, c, db)
      PROVE  TypeOK'
  <2> DEFINE r == Request("put", "ensure", c)
  <2>1. RequestOK(commits, heads, offers, r)
    BY NewRequestOK DEF Ops
  <2>. HIDE DEF r
  <2>2. RequestOK(commits, heads, offers, [r EXCEPT !.db = db])
    BY <2>1 DEF RequestOK, RequestType, Offer, From, Into
  <2>. QED
    BY <1>1, <1>3, <2>2 DEF StartPut, r
<1>4. ASSUME NEW o \in offers, StartPromote(p, o)
      PROVE  TypeOK'
  <2>1. o \in Offers
    BY DEF TypeOK
  <2> DEFINE r == [Request("promote", "promote", o.client)
                     EXCEPT !.new = o.commit, !.old = o.expected]
  <2>2. /\ r \in RequestType /\ r.stage = "promote" /\ r.pc = "lock" /\ r.client = o.client
        /\ r.new = o.commit /\ r.old = o.expected
    BY <2>1, IdleOK DEF RequestOK, Request, RequestType, Offers, Ops, Stages, Pcs, Branches
  <2>3. Offer(r) = o
    BY <2>1, <2>2 DEF Offer, Offers
  <2>4. RequestOK(commits, heads, offers, r)
    BY <2>1, <2>2, <2>3 DEF RequestOK, Offers
  <2>. QED
    BY <1>1, <1>4, <2>4 DEF StartPromote
<1>5. ASSUME NEW db \in Databases, StartBootstrap(p, db)
      PROVE  TypeOK'
  <2> DEFINE r == [Idle EXCEPT !.op = "bootstrap", !.stage = "bootstrap",
                               !.pc = IF Tip(Main) = None THEN "commitRead" ELSE "ret",
                               !.res = "err", !.db = db]
  <2>1. Idle \in RequestType
    BY IdleOK DEF RequestOK
  <2>2. r \in RequestType /\ r.stage = "bootstrap" /\ r.pc \in {"commitRead", "ret"}
    BY <2>1 DEF RequestType, Ops, Stages, Pcs, Results, WritingTask
  <2>. HIDE DEF r
  <2>3. RequestOK(commits, heads, offers, r)
    BY <2>2 DEF RequestOK
  <2>. QED
    BY <1>1, <1>5, <2>3 DEF StartBootstrap, r
<1>. QED
  BY <1>2, <1>3, <1>4, <1>5 DEF Start

\* The mutex is granted, or a reading step chooses the next task.
LEMMA ReadTypes ==
  ASSUME TypeOK, NEW p \in Procs,
         Acquire(p) \/ Ensure(p) \/ Write(p) \/ Merge(p) \/ MergeDbs(p) \/ ReadBranch(p)
           \/ FfRead(p) \/ CreateTips(p) \/ PromoteCheck(p)
  PROVE  TypeOK'
<1> DEFINE r == req[p]
<1>1. RequestOK(commits, heads, offers, r) /\ r \in RequestType
  BY DEF TypeOK
<1>2. \A b \in Branches : Tip(b) \in Tips(commits)
  BY DEF TypeOK, Tip
<1>3. Main \in Branches /\ r.client \in Branches /\ Into(r) \in Branches /\ From(r) \in Branches
  BY <1>1 DEF Branches, RequestType, Into, From
<1>4. \A t \in Tips(commits) : t \in Nat /\ (t # None => t \in Ids(commits))
  BY DEF TypeOK, Tips, Ids, None
<1>5. ASSUME NEW x, RequestOK(commits, heads, offers, x), Step(p, x),
             UNCHANGED <<repo, announced, offers, acked, counters>>,
             lock' \in Procs \cup {NoProc}
      PROVE  TypeOK'
  BY <1>5, QuietKeepsTypes DEF TypeOK, counters
<1>6. ASSUME NEW x, RequestOK(commits, heads, offers, x), NEW res \in Results, Finish(p, x, res), Quiet,
             (x.stage = "create" /\ res = "ok") => x.new \in Ids(commits) /\ Forward(commits, x.old, x.new)
      PROVE  TypeOK'
  BY <1>5, <1>6, FinishOK DEF Finish, Quiet, TypeOK
<1>7. ASSUME NEW x, RequestOK(commits, heads, offers, x), Step(p, x), Quiet PROVE TypeOK'
  BY <1>5, <1>7 DEF Quiet, TypeOK
<1>8. {"ok", "err", "unchanged", "skipped", "nothing", "conflict"} \subseteq Results
  BY DEF Results
<1>9. CASE Acquire(p)
  <2>1. RequestOK(commits, heads, offers, [r EXCEPT !.pc = r.stage])
    BY <1>1, <1>9 DEF Acquire, RequestOK, RequestType, Pcs, WritingTask, ReadingTask, Offer
  <2>. QED
    BY <1>5, <1>9, <2>1 DEF Acquire
<1>10. CASE Ensure(p)
  <2>1. CASE Tip(r.client) # None \/ Tip(Main) = None
    BY <1>1, <1>6, <1>8, <1>10, <2>1 DEF Ensure, At
  <2>2. CASE ~(Tip(r.client) # None \/ Tip(Main) = None)
    <3>1. RequestOK(commits, heads, offers, [r EXCEPT !.pc = "ffRead", !.new = Tip(Main)])
      BY <1>1, <1>2, <1>3, <1>4, <1>10, <2>2
         DEF Ensure, At, RequestOK, RequestType, Pcs, WritingTask, Offer
    <3>. QED
      BY <1>7, <1>10, <2>2, <3>1 DEF Ensure
  <2>. QED
    BY <2>1, <2>2
<1>11. CASE Write(p)
  <2>1. CASE Tip(r.client) # None /\ Db(r.client) = r.db
    BY <1>1, <1>6, <1>8, <1>11, <2>1 DEF Write, At
  <2>2. CASE ~(Tip(r.client) # None /\ Db(r.client) = r.db)
    <3>1. RequestOK(commits, heads, offers, [r EXCEPT !.pc = "commitRead"])
      BY <1>1, <1>11 DEF Write, At, RequestOK, RequestType, Pcs, WritingTask, Offer
    <3>. QED
      BY <1>7, <1>11, <2>2, <3>1 DEF Write
  <2>. QED
    BY <2>1, <2>2
<1>12. CASE Merge(p)
  <2> DEFINE from == Tip(From(r))
             into == Tip(Into(r))
  <2>1. CASE from = None
    BY <1>1, <1>6, <1>8, <1>12, <2>1 DEF Merge, At
  <2>2. CASE from # None /\ Forward(commits, into, from)
    <3>1. RequestOK(commits, heads, offers, [r EXCEPT !.pc = "ffRead", !.new = from])
      BY <1>1, <1>2, <1>3, <1>4, <1>12, <2>2
         DEF Merge, At, RequestOK, RequestType, Pcs, WritingTask, Offer
    <3>. QED
      BY <1>7, <1>12, <2>2, <3>1 DEF Merge
  <2>3. CASE from # None /\ ~Forward(commits, into, from) /\ IsAncestor(commits, from, into)
    BY <1>1, <1>6, <1>8, <1>12, <2>3 DEF Merge, At
  <2>4. CASE from # None /\ ~Forward(commits, into, from) /\ ~IsAncestor(commits, from, into)
    <3>1. /\ From([r EXCEPT !.pc = "mergeDbs"]) = From(r)
          /\ Into([r EXCEPT !.pc = "mergeDbs"]) = Into(r)
      BY <1>1 DEF From, Into, RequestType
    <3>2. into # None
      BY <2>4 DEF Forward
    <3>3. RequestOK(commits, heads, offers, [r EXCEPT !.pc = "mergeDbs"])
      BY <1>1, <1>12, <2>4, <3>1, <3>2
         DEF Merge, At, RequestOK, RequestType, Pcs, WritingTask, ReadingTask, Offer, Tip
    <3>. QED
      BY <1>7, <1>12, <2>4, <3>3 DEF Merge
  <2>. QED
    BY <2>1, <2>2, <2>3, <2>4
<1>13. CASE MergeDbs(p)
  <2>1. Tip(From(r)) \in Ids(commits) /\ Tip(Into(r)) \in Ids(commits)
    BY <1>1, <1>2, <1>3, <1>4, <1>13 DEF MergeDbs, At, RequestOK, Tip
  <2>. HIDE DEF r
  <2>2. \A i \in Ids(commits) : commits[i].db \in Databases
    <3>1. \A i \in Ids(commits) : commits[i] \in Commits
      BY DEF TypeOK, Ids
    <3>. QED
      BY <3>1 DEF Commits
  <2>3. Db(From(r)) \in Databases /\ Db(Into(r)) \in Databases
    BY <2>1, <2>2 DEF Db, Tip
  <2>. USE DEF r
  <2>4. MergeDatabases(Db(Into(r)), Db(From(r))) \in Databases
    BY <2>3, MergeType
  <2> DEFINE m == MergeDatabases(Db(Into(r)), Db(From(r)))
  <2>. HIDE DEF m
  <2>5. RequestOK(commits, heads, offers, [r EXCEPT !.pc = "commitRead", !.db = m])
    BY <1>1, <1>13, <2>4
       DEF m, MergeDbs, At, RequestOK, RequestType, Pcs, WritingTask, Offer
  <2>. QED
    BY <1>7, <1>13, <2>5 DEF MergeDbs, m
<1>14. CASE ReadBranch(p)
  BY <1>5, <1>14, IdleOK DEF ReadBranch
<1>15. CASE FfRead(p)
  <2> DEFINE x == [r EXCEPT !.old = Tip(Into(r))]
  <2>1. /\ x \in RequestType /\ x.pc = "ffRead" /\ x.stage \in {"ensure", "merge"}
        /\ x.new = r.new /\ x.new \in Ids(commits) /\ x.client = r.client /\ x.stage = r.stage
    BY <1>1, <1>2, <1>3, <1>4, <1>15 DEF FfRead, RequestOK, RequestType
  <2>2. RequestOK(commits, heads, offers, x)
    BY <1>1, <2>1 DEF RequestOK
  <2>. HIDE DEF x
  <2>3. CASE x.old = x.new
    BY <1>6, <1>8, <1>15, <2>1, <2>2, <2>3 DEF FfRead, x
  <2>4. CASE x.old # x.new
    <3>1. RequestOK(commits, heads, offers, [x EXCEPT !.pc = "ffSet"])
      BY <2>1, <2>2 DEF RequestOK, RequestType, Pcs, WritingTask
    <3>. QED
      BY <1>7, <1>15, <2>4, <3>1 DEF FfRead, x
  <2>. QED
    BY <2>3, <2>4
<1>16. CASE CreateTips(p)
  <2> DEFINE main == Tip(Main)
             tip == Tip(r.client)
             stop == main = None \/ (tip # None /\ IsAncestor(commits, main, tip))
  <2>1. CASE stop
    BY <1>1, <1>6, <1>8, <1>16, <2>1 DEF CreateTips
  <2>2. CASE ~stop
    <3>1. RequestOK(commits, heads, offers,
                    [r EXCEPT !.pc = "createStore", !.new = main, !.old = tip])
      BY <1>1, <1>2, <1>3, <1>4, <1>16, <2>2
         DEF CreateTips, At, RequestOK, RequestType, Pcs, WritingTask, Tip
    <3>. QED
      BY <1>7, <1>16, <2>2, <3>1 DEF CreateTips
  <2>. QED
    BY <2>1, <2>2
<1>17. CASE PromoteCheck(p)
  <2>1. r.stage = "promote"
    BY <1>17 DEF PromoteCheck, At
  <2>2. CASE temp[r.client] # r.new
    BY <1>1, <1>6, <1>8, <1>17, <2>1, <2>2 DEF PromoteCheck
  <2>3. CASE temp[r.client] = r.new /\ Tip(r.client) # r.old
    BY <1>1, <1>6, <1>8, <1>17, <2>1, <2>3 DEF PromoteCheck
  <2>4. CASE temp[r.client] = r.new /\ Tip(r.client) = r.old
    <3>1. RequestOK(commits, heads, offers, [r EXCEPT !.pc = "promoteSet"])
      BY <1>1, <2>1 DEF RequestOK, RequestType, Pcs, WritingTask, Offer
    <3>. QED
      BY <1>7, <1>17, <2>4, <3>1 DEF PromoteCheck
  <2>. QED
    BY <2>2, <2>3, <2>4
<1>. QED
  BY <1>9, <1>10, <1>11, <1>12, <1>13, <1>14, <1>15, <1>16, <1>17

\* The tasks that write commits and refs.
LEMMA WriteTypes ==
  ASSUME TypeOK, NEW p \in Procs,
         CommitRead(p) \/ CommitSet(p) \/ FfSet(p) \/ CreateStore(p)
           \/ PromoteSet(p) \/ PromoteClean(p)
  PROVE  TypeOK'
<1> DEFINE r == req[p]
<1>1. RequestOK(commits, heads, offers, r) /\ r \in RequestType
  BY DEF TypeOK
<1>2. \A b \in Branches : Tip(b) \in Tips(commits)
  BY DEF TypeOK, Tip
<1>3. Main \in Branches /\ r.client \in Branches /\ Into(r) \in Branches
  BY <1>1 DEF Branches, RequestType, Into
<1>4. \A t \in Tips(commits) : t \in Nat /\ (t # None => t \in Ids(commits))
  BY DEF TypeOK, Tips, Ids, None
<1>5. StoreTypeOK
  BY DEF TypeOK, StoreTypeOK
<1>6. {"ok", "err"} \subseteq Results
  BY DEF Results
\* A ref moves to a commit that exists.
<1>7. ASSUME NEW b \in Branches, NEW d \in Ids(commits), heads' = [heads EXCEPT ![b] = d],
             UNCHANGED <<commits, temp, lock, announced, offers, acked, counters>>,
             NEW x, Step(p, x), RequestOK(commits, heads, offers, x)
      PROVE  TypeOK'
  <2>1. \A c \in Branches : heads[c] # None => heads'[c] # None
    BY <1>7 DEF TypeOK, Ids, None
  <2>2. StoreTypeOK' /\ Grows(commits, commits')
    BY <1>5, <1>7 DEF StoreTypeOK, Grows, counters, Ids, Tips
  <2>3. RequestOK(commits', heads', offers', x)
    BY <1>7, <2>1, <2>2, RequestGrows DEF TypeOK
  <2>. QED
    BY <1>7, <2>1, <2>2, <2>3, StepKeepsTypes
\* A commit is written on parents that exist.
<1>8. ASSUME NEW ps \in SUBSET Ids(commits), NEW db \in Databases,
             commits' = AddCommit(commits, ps, db),
             \/ UNCHANGED temp
             \/ r.client \in Clients /\ temp' = [temp EXCEPT ![r.client] = Len(commits) + 1],
             UNCHANGED <<heads, lock, announced, offers, acked, counters>>,
             NEW x, Step(p, x), RequestOK(commits', heads, offers, x)
      PROVE  TypeOK'
  <2>1. /\ commits' \in Seq(Commits) /\ WellFormed(commits') /\ Grows(commits, commits')
        /\ Len(commits') = Len(commits) + 1
    <3>1. commits \in Seq(Commits) /\ WellFormed(commits)
      BY DEF TypeOK
    <3>. QED
      BY <1>8, <3>1, AddCommitFacts
  <2>2. Len(commits) + 1 \in Tips(commits') /\ Ids(commits) \subseteq Ids(commits')
    BY <2>1 DEF Tips, Ids, TypeOK
  <2>3. /\ heads \in [Branches -> Tips(commits')] /\ temp \in [Clients -> Tips(commits')]
        /\ announced \in [Branches -> Tips(commits')]
    BY <2>1, TipsGrow DEF TypeOK
  <2>4. temp' \in [Clients -> Tips(commits')]
    BY <1>8, <2>2, <2>3
  <2>5. StoreTypeOK'
    BY <1>5, <1>8, <2>1, <2>2, <2>3, <2>4 DEF StoreTypeOK, counters
  <2>. QED
    BY <1>8, <2>1, <2>5, StepKeepsTypes
<1>9. ASSUME NEW x, RequestOK(commits, heads, offers, x), NEW res \in Results, Finish(p, x, res),
             (x.stage = "create" /\ res = "ok")
               => x.new \in Ids(commits) /\ Forward(commits, x.old, x.new)
      PROVE  \E y : Step(p, y) /\ RequestOK(commits, heads, offers, y)
  BY <1>9, FinishOK DEF Finish
\* The pending merge of a client changes.
<1>9b. ASSUME NEW c \in Clients, NEW d \in Tips(commits), temp' = [temp EXCEPT ![c] = d],
              UNCHANGED <<commits, heads, lock, announced, offers, acked, counters>>,
              NEW y, Step(p, y), RequestOK(commits, heads, offers, y)
       PROVE  TypeOK'
  <2>1. commits' = commits /\ heads' = heads /\ offers' = offers
    BY <1>9b
  <2>2. temp' \in [Clients -> Tips(commits)]
    BY <1>9b DEF TypeOK
  <2>3. StoreTypeOK'
    BY <1>5, <1>9b, <2>2 DEF StoreTypeOK, counters
  <2>4. Grows(commits, commits')
    BY <2>1 DEF Grows, Ids, TypeOK
  <2>5. RequestOK(commits', heads', offers', y)
    BY <1>9b, <2>1
  <2>. QED
    BY <1>9b, <2>1, <2>3, <2>4, <2>5, StepKeepsTypes
<1>10. CASE CommitRead(p)
  <2> DEFINE tip == Tip(Into(r))
             ps == {tip} \ {None}
             x == [r EXCEPT !.pc = "commitSet", !.old = tip, !.new = Len(commits) + 1]
  <2>1. ps \in SUBSET Ids(commits) /\ tip \in Nat /\ r.db \in Databases
    BY <1>1, <1>2, <1>3, <1>4 DEF RequestType
  <2>2. /\ commits' = AddCommit(commits, ps, r.db) /\ Step(p, x)
        /\ UNCHANGED <<heads, temp, lock, announced, offers, acked, counters>>
    BY <1>10 DEF CommitRead
  <2>3. /\ commits' \in Seq(Commits) /\ Len(commits') = Len(commits) + 1
        /\ Grows(commits, commits') /\ \A q \in ps : IsAncestor(commits', q, Len(commits) + 1)
    <3>1. commits \in Seq(Commits) /\ WellFormed(commits)
      BY DEF TypeOK
    <3>2. ps \in SUBSET Ids(commits) /\ r.db \in Databases /\ commits' = AddCommit(commits, ps, r.db)
      BY <2>1, <2>2
    <3>. HIDE DEF ps, tip, r
    <3>. QED
      BY <3>1, <3>2, AddCommitFacts
  <2>4. Forward(commits', tip, Len(commits) + 1)
    BY <2>3 DEF Forward
  <2>5. Len(commits) + 1 \in Ids(commits') /\ Len(commits) + 1 \in Nat
    BY <2>3 DEF Ids, TypeOK
  <2>6. RequestOK(commits', heads, offers, r)
    BY <1>1, <2>3, RequestGrows DEF TypeOK
  <2>7. /\ x \in RequestType /\ x.stage = r.stage /\ x.client = r.client /\ x.pc = "commitSet"
        /\ x.new = Len(commits) + 1 /\ x.old = tip
    BY <1>1, <2>1, <2>5 DEF RequestType, Pcs, WritingTask
  <2>8. r.stage \in {"write", "merge", "bootstrap"}
    BY <1>1, <1>10 DEF CommitRead, RequestOK
  <2>. HIDE DEF x, tip, ps
  <2>9. RequestOK(commits', heads, offers, x)
    BY <2>4, <2>5, <2>6, <2>7, <2>8 DEF RequestOK
  <2>. QED
    BY <1>8, <2>1, <2>2, <2>9
<1>11. CASE CommitSet(p) \/ FfSet(p)
  <2>1. PICK again \in {"commitRead", "ffRead"} :
          /\ SetRef(p, again)
          /\ r.pc = IF again = "commitRead" THEN "commitSet" ELSE "ffSet"
    BY <1>11 DEF CommitSet, FfSet
  <2>2. r.new \in Ids(commits) /\ r.stage \in {"ensure", "merge", "write", "bootstrap"}
    BY <1>1, <2>1 DEF RequestOK
  <2>3. CASE Tip(Into(r)) = r.old /\ heads' = [heads EXCEPT ![Into(r)] = r.new] /\ Finish(p, r, "ok")
    BY <1>1, <1>3, <1>6, <1>7, <1>9, <2>1, <2>2, <2>3 DEF SetRef
  <2>4. CASE UNCHANGED heads /\ Finish(p, r, "err")
    <3>1. UNCHANGED <<repo, announced, offers, acked, counters, lock>>
      BY <2>1, <2>4 DEF SetRef, repo
    <3>. QED
      BY <1>1, <1>6, <1>9, <2>2, <2>4, <3>1, QuietKeepsTypes DEF TypeOK, counters
  <2>5. CASE UNCHANGED heads /\ Step(p, [r EXCEPT !.pc = again, !.tries = @ + 1])
    <3>1. UNCHANGED <<repo, announced, offers, acked, counters, lock>>
      BY <2>1, <2>5 DEF SetRef, repo
    <3> DEFINE x == [r EXCEPT !.pc = again, !.tries = @ + 1]
    <3>2. /\ x \in RequestType /\ x.stage = r.stage /\ x.client = r.client /\ x.pc = again
          /\ x.new = r.new
      <4>1. again \in Pcs
        BY DEF Pcs, WritingTask
      <4>2. r.tries + 1 \in Nat
        BY <1>1 DEF RequestType
      <4>. QED
        BY <1>1, <4>1, <4>2 DEF RequestType
    <3>3. /\ again = "ffRead" => r.stage \in {"ensure", "merge"}
          /\ again = "commitRead" => r.stage \in {"write", "merge", "bootstrap"}
      BY <1>1, <2>1 DEF RequestOK
    <3>. HIDE DEF x
    <3>4. RequestOK(commits, heads, offers, x)
      BY <1>1, <2>1, <2>2, <3>2, <3>3 DEF RequestOK
    <3>. QED
      BY <2>5, <3>1, <3>4, QuietKeepsTypes DEF TypeOK, counters, x
  <2>. QED
    BY <2>1, <2>3, <2>4, <2>5 DEF SetRef
<1>12. CASE CreateStore(p)
  <2> DEFINE c == r.client
             m == MergeDatabases(Db(c), Db(Main))
             new == Len(commits) + 1
             x == [r EXCEPT !.new = new]
  <2>1. /\ r.stage = "create" /\ r.pc = "createStore" /\ c \in Clients
        /\ r.new \in Ids(commits) /\ r.old \in Tips(commits)
        /\ heads[Main] # None /\ (r.old # None => heads[c] # None)
    BY <1>1, <1>12 DEF CreateStore, At, RequestOK
  <2>2. CASE Forward(commits, r.old, r.new)
    <3>1. /\ temp' = [temp EXCEPT ![c] = r.new] /\ Finish(p, r, "ok")
          /\ UNCHANGED <<commits, heads, lock, announced, offers, acked, counters>>
      BY <1>12, <2>2 DEF CreateStore
    <3>2. PICK y : Step(p, y) /\ RequestOK(commits, heads, offers, y)
      BY <1>1, <1>6, <1>9, <2>1, <2>2, <3>1
    <3>3. r.new \in Tips(commits)
      BY <2>1 DEF Ids, Tips
    <3>. QED
      BY <1>9b, <3>1, <3>2, <3>3, <2>1
  <2>3. CASE ~Forward(commits, r.old, r.new)
    <3>1. /\ commits' = AddCommit(commits, {r.old, r.new}, m)
          /\ temp' = [temp EXCEPT ![c] = new] /\ Finish(p, x, "ok")
          /\ UNCHANGED <<heads, lock, announced, offers, acked, counters>>
      BY <1>12, <2>3 DEF CreateStore
    <3>2. r.old \in Ids(commits) /\ heads[c] # None
      BY <1>4, <2>1, <2>3 DEF Forward
    <3>3. Tip(c) \in Ids(commits) /\ Tip(Main) \in Ids(commits)
      BY <1>2, <1>3, <1>4, <2>1, <3>2 DEF Tip
    <3>4. \A i \in Ids(commits) : commits[i].db \in Databases
      <4>1. \A i \in Ids(commits) : commits[i] \in Commits
        BY DEF TypeOK, Ids
      <4>. QED
        BY <4>1 DEF Commits
    <3>5. m \in Databases
      <4>1. Db(c) \in Databases /\ Db(Main) \in Databases
        BY <3>3, <3>4 DEF Db, Tip
      <4>. QED
        BY <4>1, MergeType
    <3>. HIDE DEF m
    <3>6. {r.old, r.new} \in SUBSET Ids(commits)
      BY <2>1, <3>2
    <3>7. /\ commits' \in Seq(Commits) /\ Len(commits') = new
          /\ Grows(commits, commits') /\ IsAncestor(commits', r.old, new)
      <4>1. commits \in Seq(Commits) /\ WellFormed(commits)
        BY DEF TypeOK
      <4>. QED
        BY <3>1, <3>5, <3>6, <4>1, AddCommitFacts
    <3>8. new \in Ids(commits') /\ new \in Nat /\ Forward(commits', r.old, new)
      BY <3>7 DEF Ids, TypeOK, Forward
    <3>9. RequestOK(commits', heads, offers, r)
      BY <1>1, <3>7, RequestGrows DEF TypeOK
    <3>10. /\ x \in RequestType /\ x.stage = "create" /\ x.client = r.client
           /\ x.pc = "createStore" /\ x.new = new /\ x.old = r.old
      BY <1>1, <2>1, <3>8 DEF RequestType
    <3>. HIDE DEF x, new
    <3>11. RequestOK(commits', heads, offers, x)
      BY <3>8, <3>9, <3>10, <2>1 DEF RequestOK
    <3>12. PICK y : Step(p, y) /\ RequestOK(commits', heads, offers, y)
      BY <1>6, <3>1, <3>8, <3>10, <3>11, FinishOK DEF Finish
    <3>. QED
      BY <1>8, <2>1, <3>1, <3>5, <3>6, <3>12 DEF new
  <2>. QED
    BY <2>2, <2>3
<1>13. CASE PromoteSet(p)
  <2>1. r.stage = "promote" /\ r.client \in Clients /\ Offer(r) \in offers
    BY <1>1, <1>13 DEF PromoteSet, At, RequestOK
  <2>2. r.new \in Ids(commits)
    BY <2>1 DEF TypeOK, Offer
  <2>3. CASE Tip(r.client) = r.old
    <3> DEFINE x == [r EXCEPT !.pc = "promoteClean"]
    <3>1. x \in RequestType /\ x.stage = "promote" /\ x.client = r.client
          /\ x.pc = "promoteClean" /\ x.new = r.new /\ x.old = r.old
      BY <1>1, <2>1 DEF RequestType, Pcs, WritingTask
    <3>2. Offer(x) = Offer(r)
      BY <3>1 DEF Offer
    <3>3. heads' = [heads EXCEPT ![r.client] = r.new] /\ Step(p, x)
          /\ UNCHANGED <<commits, temp, lock, announced, offers, acked, counters>>
      BY <1>13, <2>3 DEF PromoteSet
    <3>. HIDE DEF x
    <3>4. RequestOK(commits, heads, offers, x)
      BY <2>1, <3>1, <3>2 DEF RequestOK
    <3>. QED
      BY <1>3, <1>7, <2>2, <3>3, <3>4
  <2>4. CASE Tip(r.client) # r.old
    <3>1. UNCHANGED <<repo, lock, announced, offers, acked, counters>> /\ Finish(p, r, "err")
      BY <1>13, <2>4 DEF PromoteSet, repo
    <3>. QED
      BY <1>1, <1>6, <1>9, <2>1, <3>1, QuietKeepsTypes DEF TypeOK, counters
  <2>. QED
    BY <2>3, <2>4
<1>14. CASE PromoteClean(p)
  <2>1. r.stage = "promote" /\ r.client \in Clients
    BY <1>1, <1>14 DEF PromoteClean, At, RequestOK
  <2>2. /\ temp' = [temp EXCEPT ![r.client] = None] /\ Finish(p, r, "ok")
        /\ UNCHANGED <<commits, heads, lock, announced, offers, acked, counters>>
    BY <1>14 DEF PromoteClean
  <2>3. PICK y : Step(p, y) /\ RequestOK(commits, heads, offers, y)
    BY <1>1, <1>6, <1>9, <2>1, <2>2
  <2>4. None \in Tips(commits)
    BY DEF TypeOK, Tips, None
  <2>. QED
    BY <1>9b, <2>1, <2>2, <2>3, <2>4
<1>. QED
  BY <1>10, <1>11, <1>12, <1>13, <1>14

\* The handlers take the results of their store calls.
LEMMA HandlerTypes ==
  ASSUME TypeOK, NEW p \in Procs, Handler(p)
  PROVE  TypeOK'
<1> DEFINE r == req[p]
<1>1. RequestOK(commits, heads, offers, r) /\ r \in RequestType
  BY DEF TypeOK
\* Nothing changes but the lock and what is announced and acknowledged.
<1>2. ASSUME NEW x, RequestOK(commits, heads, offers, x), Step(p, x),
             UNCHANGED <<commits, heads, temp, offers, counters>>,
             lock' \in Procs \cup {NoProc},
             announced' \in [Branches -> Tips(commits)],
             acked' \subseteq [client: Clients, commit: Nat]
      PROVE  TypeOK'
  <2>1. commits' = commits /\ heads' = heads /\ offers' = offers /\ temp' = temp
    BY <1>2
  <2>2. StoreTypeOK'
    BY <1>2, <2>1 DEF TypeOK, StoreTypeOK, counters
  <2>3. Grows(commits, commits') /\ RequestOK(commits', heads', offers', x)
    BY <1>2, <2>1 DEF Grows, Ids, TypeOK
  <2>. QED
    BY <1>2, <2>1, <2>2, <2>3, StepKeepsTypes
<1>3. ASSUME NEW bs, Announce(bs) PROVE announced' \in [Branches -> Tips(commits)]
  BY <1>3 DEF Announce, TypeOK, Tip
<1>4. ASSUME NEW x, Release(p, x) PROVE Step(p, x) /\ lock' \in Procs \cup {NoProc}
  BY <1>4 DEF Release, TypeOK
<1>5. announced \in [Branches -> Tips(commits)] /\ acked \subseteq [client: Clients, commit: Nat]
      /\ lock \in Procs \cup {NoProc}
  BY DEF TypeOK
<1>6. CASE EnsureReturns(p)
  <2> DEFINE next(stage) == [r EXCEPT !.stage = stage, !.pc = "lock", !.old = None,
                                      !.new = None, !.res = "none"]
  <2>1. ASSUME NEW stage \in {"merge", "write"}
        PROVE  RequestOK(commits, heads, offers, next(stage))
    <3> DEFINE x == next(stage)
    <3>1. r.client \in Clients
      BY <1>1, <1>6 DEF EnsureReturns, Returned, At, RequestOK
    <3>2. stage \in Stages /\ "lock" \in Pcs /\ "none" \in Results /\ None \in Nat
      BY DEF Stages, Pcs, Results, None
    <3>3. x \in RequestType /\ x.stage = stage /\ x.pc = "lock" /\ x.client = r.client
      BY <1>1, <3>2 DEF RequestType
    <3>. HIDE DEF x
    <3>4. RequestOK(commits, heads, offers, x)
      BY <3>1, <3>3 DEF RequestOK
    <3>. QED
      BY <3>4 DEF x
  <2>2. PICK x \in {next("merge"), next("write"), Idle} : Release(p, x)
    BY <1>6 DEF EnsureReturns
  <2>3. RequestOK(commits, heads, offers, x)
    BY <2>1, <2>2, IdleOK
  <2>. QED
    BY <1>2, <1>4, <1>5, <1>6, <2>2, <2>3 DEF EnsureReturns, repo
<1>7. CASE WriteReturns(p)
  <2>1. CASE r.res = "ok"
    <3> DEFINE x == [r EXCEPT !.stage = "merge", !.pc = "merge", !.wrote = r.new,
                              !.old = None, !.new = None, !.res = "none"]
    <3>1. r.client \in Clients
      BY <1>1, <1>7 DEF WriteReturns, Returned, At, RequestOK
    <3>2. "merge" \in Stages /\ "merge" \in Pcs /\ "none" \in Results /\ None \in Nat
      BY DEF Stages, Pcs, Results, None, ReadingTask
    <3>3. x \in RequestType /\ x.stage = "merge" /\ x.pc = "merge" /\ x.client = r.client
      BY <1>1, <3>2 DEF RequestType
    <3>4. Step(p, x) /\ lock' = lock /\ UNCHANGED <<repo, announced, offers, acked, counters>>
      BY <1>7, <2>1 DEF WriteReturns
    <3>. HIDE DEF x
    <3>5. RequestOK(commits, heads, offers, x)
      BY <3>1, <3>3 DEF RequestOK
    <3>. QED
      BY <1>2, <1>5, <3>4, <3>5 DEF repo
  <2>2. CASE r.res # "ok"
    BY <1>2, <1>4, <1>5, <1>7, <2>2, IdleOK DEF WriteReturns, repo
  <2>. QED
    BY <2>1, <2>2
<1>8. CASE PutReturns(p)
  <2>1. r.client \in Clients /\ r.wrote \in Nat
    BY <1>1, <1>8 DEF PutReturns, Returned, At, RequestOK, RequestType
  <2>2. acked' \subseteq [client: Clients, commit: Nat]
    BY <1>5, <1>8, <2>1 DEF PutReturns
  <2>. QED
    BY <1>2, <1>3, <1>4, <1>8, <2>2, IdleOK DEF PutReturns, repo
<1>9. CASE GetReturns(p)
  <2> DEFINE x == [Request("get", "read", r.client) EXCEPT !.pc = "lock"]
  <2>1. r.client \in Clients
    BY <1>1, <1>9 DEF GetReturns, Returned, At, RequestOK
  <2>2. RequestOK(commits, heads, offers, Request("get", "read", r.client))
    BY <2>1, NewRequestOK DEF Ops
  <2>3. x = Request("get", "read", r.client)
    BY DEF Request, Idle
  <2>4. Release(p, x)
    BY <1>9 DEF GetReturns
  <2>. QED
    BY <1>2, <1>3, <1>4, <1>5, <1>9, <2>2, <2>3, <2>4 DEF GetReturns, repo
<1>10. CASE CreateReturns(p)
  <2>1. r.stage = "create" /\ r.pc = "ret" /\ r.client \in Clients
    BY <1>1, <1>10 DEF CreateReturns, Returned, At, RequestOK
  <2>2. offers \subseteq offers' /\ offers' \subseteq offers \cup {Offer(r)}
        /\ (r.res # "ok" => offers' = offers)
    BY <1>10 DEF CreateReturns, Offer
  <2>3. r.res = "ok" => Offer(r) \in Offers /\ Offer(r).commit \in Ids(commits)
    BY <1>1, <2>1 DEF RequestOK, RequestType, Offer, Offers
  <2>4. offers' \subseteq Offers /\ \A o \in offers' : o.commit \in Ids(commits)
    BY <2>2, <2>3 DEF TypeOK
  <2>5. /\ commits' = commits /\ heads' = heads /\ temp' = temp /\ announced' = announced
        /\ acked' = acked /\ UNCHANGED counters
        /\ Step(p, Idle) /\ lock' \in Procs \cup {NoProc}
    BY <1>4, <1>10 DEF CreateReturns, repo
  <2>6. StoreTypeOK'
    BY <2>4, <2>5 DEF TypeOK, StoreTypeOK, counters
  <2>7. Grows(commits, commits')
    BY <2>5 DEF Grows, Ids, TypeOK
  <2>. QED
    BY <2>2, <2>5, <2>6, <2>7, IdleOK, StepKeepsTypes
<1>11. CASE PromoteReturns(p)
  BY <1>2, <1>3, <1>4, <1>5, <1>11, IdleOK DEF PromoteReturns, repo
<1>12. CASE BootstrapReturns(p)
  BY <1>2, <1>5, <1>12, IdleOK DEF BootstrapReturns, Quiet, repo
<1>. QED
  BY <1>6, <1>7, <1>8, <1>9, <1>10, <1>11, <1>12 DEF Handler

\* Failing tasks, clients that hang up, crashes.
LEMMA FaultTypes ==
  ASSUME TypeOK, (\E p \in Procs : TaskFails(p) \/ HangUp(p)) \/ Crash
  PROVE  TypeOK'
<1>1. CASE \E p \in Procs : TaskFails(p)
  <2>1. PICK p \in Procs : TaskFails(p)
    BY <1>1
  <2>2. RequestOK(commits, heads, offers, req[p]) /\ "err" \in Results
    BY DEF TypeOK, Results
  <2>3. PICK y : Step(p, y) /\ RequestOK(commits, heads, offers, y)
    BY <2>1, <2>2, FinishOK DEF TaskFails, Finish
  <2>4. faults' \in Nat /\ UNCHANGED <<repo, lock, announced, offers, acked, started, hangups>>
    BY <2>1 DEF TaskFails, Fault, TypeOK
  <2>5. {started, faults, hangups}' \subseteq Nat
    BY <2>4 DEF TypeOK
  <2>. QED
    BY <2>3, <2>4, <2>5, QuietKeepsTypes DEF TypeOK
<1>2. CASE \E p \in Procs : HangUp(p)
  <2>1. PICK p \in Procs : HangUp(p)
    BY <1>2
  <2> DEFINE x == [req[p] EXCEPT !.attached = FALSE]
  <2>2. RequestOK(commits, heads, offers, req[p]) /\ req[p] \in RequestType
    BY DEF TypeOK
  <2>3. /\ x \in RequestType /\ x.stage = req[p].stage /\ x.pc = req[p].pc
        /\ x.client = req[p].client /\ x.new = req[p].new /\ x.old = req[p].old
        /\ x.res = req[p].res /\ x.op = req[p].op
    BY <2>2 DEF RequestType
  <2>. HIDE DEF x
  <2>4. From(x) = From(req[p]) /\ Into(x) = Into(req[p]) /\ Offer(x) = Offer(req[p])
    BY <2>3 DEF From, Into, Offer
  <2>5. RequestOK(commits, heads, offers, x)
    BY <2>2, <2>3, <2>4 DEF RequestOK
  <2>6. PICK y : Release(p, y) /\ RequestOK(commits, heads, offers, y)
    BY <2>1, <2>5, IdleOK DEF HangUp, x
  <2>7. hangups' \in Nat /\ UNCHANGED <<repo, announced, offers, acked, started, faults>>
    BY <2>1 DEF HangUp, TypeOK
  <2>8. {started, faults, hangups}' \subseteq Nat
    BY <2>7 DEF TypeOK
  <2>. QED
    BY <2>6, <2>7, <2>8, QuietKeepsTypes DEF TypeOK, Release
<1>3. CASE Crash
  <2>1. /\ commits' = commits /\ heads' = heads /\ temp' = temp /\ offers' = offers
        /\ acked' = acked /\ announced' = heads /\ lock' = NoProc
        /\ started' = started /\ hangups' = hangups /\ faults' = faults + 1
    BY <1>3 DEF Crash, Fault, repo
  <2>2. req' = [p \in Procs |-> IF req[p].op = "bootstrap" THEN req[p] ELSE Idle]
    BY <1>3 DEF Crash
  <2>3. \A p \in Procs : RequestOK(commits, heads, offers, req'[p])
    BY <2>2, IdleOK DEF TypeOK
  <2>4. req' \in [Procs -> RequestType]
    BY <2>2, <2>3 DEF RequestOK
  <2>5. \A p \in Procs : RequestOK(commits', heads', offers', req'[p])
    BY <2>1, <2>3
  <2>6. {started, faults, hangups}' \subseteq Nat
    BY <2>1 DEF TypeOK
  <2>. QED
    BY <2>1, <2>4, <2>5, <2>6 DEF TypeOK
<1>. QED
  BY <1>1, <1>2, <1>3

\* A fresh or imported repository is well typed.
LEMMA InitTypes == Init => TypeOK
<1> SUFFICES ASSUME Init PROVE TypeOK
  OBVIOUS
<1>1. PICK db \in Databases, known \in SUBSET Clients, imported \in BOOLEAN :
        /\ commits = IF imported THEN AddCommit(<<>>, {}, db) ELSE <<>>
        /\ heads = [b \in Branches |-> IF imported /\ b \in known \cup {Main} THEN 1 ELSE None]
        /\ temp = [c \in Clients |-> None]
        /\ lock = NoProc
        /\ req = [p \in Procs |-> Idle]
        /\ announced = heads
        /\ offers = {} /\ acked = {}
        /\ started = 0 /\ faults = 0 /\ hangups = 0
  BY DEF Init
<1>2. <<>> \in Seq(Commits) /\ WellFormed(<<>>) /\ Len(<<>>) = 0
  BY DEF WellFormed, Ids
<1>3. /\ AddCommit(<<>>, {}, db) \in Seq(Commits) /\ WellFormed(AddCommit(<<>>, {}, db))
      /\ Len(AddCommit(<<>>, {}, db)) = 1
  <2> DEFINE cs == <<>>
  <2>1. cs \in Seq(Commits) /\ WellFormed(cs) /\ {} \in SUBSET Ids(cs) /\ Len(cs) = 0
    BY <1>2
  <2>. HIDE DEF cs
  <2>2. /\ AddCommit(cs, {}, db) \in Seq(Commits) /\ WellFormed(AddCommit(cs, {}, db))
        /\ Len(AddCommit(cs, {}, db)) = Len(cs) + 1
    BY <2>1, AddCommitFacts
  <2>. QED
    BY <2>1, <2>2 DEF cs
<1>4. commits \in Seq(Commits) /\ WellFormed(commits) /\ (imported => Len(commits) = 1)
  BY <1>1, <1>2, <1>3
<1>5. None \in Tips(commits) /\ (imported => 1 \in Tips(commits))
  BY <1>4 DEF Tips, None
<1>6. heads \in [Branches -> Tips(commits)] /\ temp \in [Clients -> Tips(commits)]
  BY <1>1, <1>5
<1>7. req \in [Procs -> RequestType] /\ \A p \in Procs : RequestOK(commits, heads, offers, req[p])
  <2>1. RequestOK(commits, heads, offers, Idle) /\ Idle \in RequestType
    BY IdleOK DEF RequestOK
  <2>. QED
    BY <1>1, <2>1
<1>. QED
  BY <1>1, <1>4, <1>6, <1>7 DEF TypeOK

\* Every step of a handler, a task or the world keeps the types.
LEMMA NextTypes == TypeOK /\ [Next]_vars => TypeOK'
<1> SUFFICES ASSUME TypeOK, [Next]_vars PROVE TypeOK'
  OBVIOUS
<1>1. CASE UNCHANGED vars
  BY <1>1 DEF vars, TypeOK
<1>2. CASE Rest
  BY <1>1, <1>2 DEF Rest
<1>3. ASSUME NEW p \in Procs, Start(p) \/ Acquire(p) \/ Task(p) \/ Handler(p)
      PROVE  TypeOK'
  BY <1>3, StartTypes, ReadTypes, WriteTypes, HandlerTypes DEF Task
<1>. QED
  BY <1>1, <1>2, <1>3, FaultTypes DEF Next

\* Every ref and every local of a request names a commit that was written, for
\* any clients, requests, faults, hang-ups and writers that bypass the mutex.
THEOREM TypeCorrect == Spec => []TypeOK
<1>. QED
  BY InitTypes, NextTypes, PTL DEF Spec
================================================================================
