------------------------------ MODULE GitStore_acks ------------------------------
(***************************************************************************)
(* What the clients are told stays true.  A PUT that was answered with     *)
(* success is never lost from its client's branch: since branches only     *)
(* move forward, what a branch reaches it goes on reaching, from the       *)
(* commit of the upload to the answer and on.  And the subscribers of main *)
(* are told of its tip, by the request that moved it.                      *)
(***************************************************************************)
EXTENDS GitStore_safety

--------------------------------------------------------------------------------
(* Ancestry stays transitive, so that a branch keeps what it reaches.      *)

\* Every step keeps it so.
LEMMA ClosedStep ==
  ASSUME TypeOK, TypeOK', ReachClosed(commits), [Next]_vars
  PROVE  ReachClosed(commits')
<1>1. /\ commits \in Seq(Commits) /\ commits' \in Seq(Commits) /\ Len(commits) \in Nat
      /\ WellFormed(commits) /\ WellFormed(commits')
  BY DEF TypeOK
<1>2. \/ commits' = commits
      \/ \E c : commits' = Append(commits, c)
  BY WhoWrites DEF CommitRead, CreateStore, AddCommit
<1>3. Len(commits') \in {Len(commits), Len(commits) + 1}
  BY <1>1, <1>2
<1>. QED
  BY <1>1, <1>3, CommitsGrow, ClosedGrows

\* What a branch reaches, it goes on reaching when it moves forward.
LEMMA AncestorStays ==
  ASSUME TypeOK, TypeOK', Grows(commits, commits'), ReachClosed(commits'), NEW b \in Branches,
         Forward(commits', heads[b], heads'[b]), NEW a, IsAncestor(commits, a, heads[b])
  PROVE  IsAncestor(commits', a, heads'[b])
<1>1. heads[b] # None /\ a \in commits[heads[b]].reach
  BY DEF IsAncestor
<1>2. heads[b] \in Ids(commits)
  BY <1>1 DEF TypeOK, Tips, Ids, None
<1>3. a \in commits'[heads[b]].reach
  BY <1>1, <1>2 DEF Grows
<1>4. heads'[b] # None /\ heads[b] \in commits'[heads'[b]].reach
  BY <1>1 DEF Forward, IsAncestor
<1>5. heads'[b] \in Ids(commits')
  BY <1>4 DEF TypeOK, Tips, Ids, None
<1>6. commits'[heads[b]].reach \subseteq commits'[heads'[b]].reach
  BY <1>4, <1>5 DEF ReachClosed
<1>. QED
  BY <1>3, <1>4, <1>6 DEF IsAncestor

--------------------------------------------------------------------------------
(* An upload on its way from the commit to the answer.                     *)

Committed(r) == r.stage = "write" /\ r.pc = "ret" /\ r.res = "ok"
Merging(r) == r.stage = "merge" /\ r.op = "put"

\* Its commit is in the history of its branch from the compare-and-swap on.
UploadKept(r) ==
  /\ Committed(r) => IsAncestor(commits, r.new, heads[r.client])
  /\ Merging(r) => IsAncestor(commits, r.wrote, heads[r.client])

\* How a request comes to carry a commit: a compare-and-swap that succeeded
\* installed it, or it carried it before.
Carries(r, s) ==
  /\ Committed(s) => \/ Committed(r) /\ s.new = r.new /\ s.client = r.client
                     \/ s.new # None /\ heads'[s.client] = s.new
  /\ Merging(s) => /\ s.client = r.client
                   /\ \/ Merging(r) /\ s.wrote = r.wrote
                      \/ Committed(r) /\ s.wrote = r.new

\* A task ends, or goes on.
LEMMA TaskCarries ==
  ASSUME NEW p \in Procs, NEW r \in RequestType, NEW x \in RequestType,
         x.op = r.op, x.stage = r.stage, x.client = r.client, x.wrote = r.wrote,
         \/ \E res \in Results : Finish(p, x, res) /\ (res # "ok" \/ x.stage # "write")
         \/ Step(p, x) /\ x.pc # "ret",
         req' = [req EXCEPT ![p] = req'[p]], req \in [Procs -> RequestType]
  PROVE  Carries(r, req'[p])
<1>1. CASE Step(p, x) /\ x.pc # "ret"
  <2>1. req'[p] = x
    BY <1>1 DEF Step
  <2>. QED
    BY <1>1, <2>1 DEF Carries, Committed, Merging
<1>2. CASE \E res \in Results : Finish(p, x, res) /\ (res # "ok" \/ x.stage # "write")
  <2>1. PICK res \in Results : Finish(p, x, res) /\ (res # "ok" \/ x.stage # "write")
    BY <1>2
  <2> DEFINE y == [x EXCEPT !.pc = "ret", !.res = res, !.tries = 0]
  <2>2. req'[p] = y \/ req'[p] = Idle
    BY <2>1 DEF Finish, Step
  <2>3. y.op = r.op /\ y.stage = r.stage /\ y.client = r.client /\ y.wrote = r.wrote /\ y.res = res
    BY DEF RequestType
  <2>4. Idle.stage = "none"
    BY DEF Idle
  <2>. HIDE DEF y, Idle
  <2>. QED
    BY <2>1, <2>2, <2>3, <2>4 DEF Carries, Committed, Merging
<1>. QED
  BY <1>1, <1>2

\* A step of a task carries the commit of an upload on towards its answer.
LEMMA TasksCarry ==
  ASSUME TypeOK, NEW p \in Procs, Task(p)
  PROVE  Carries(req[p], req'[p])
<1> DEFINE r == req[p]
<1>1. RequestOK(commits, heads, offers, r) /\ r \in RequestType /\ req \in [Procs -> RequestType]
  BY DEF TypeOK
<1>2. \A x : Step(p, x) => req' = [req EXCEPT ![p] = req'[p]]
  BY <1>1 DEF Step
<1>3. {"ok", "err", "unchanged", "skipped", "nothing", "conflict"} \subseteq Results
  BY DEF Results
<1>4. /\ Len(commits) + 1 \in Nat /\ r.tries + 1 \in Nat /\ r.client \in Branches
      /\ Into(r) \in Branches /\ From(r) \in Branches /\ Main \in Branches
      /\ \A b \in Branches : Tip(b) \in Nat
  BY <1>1 DEF TypeOK, RequestType, Into, From, Branches, Tip, Tips
<1>5. ASSUME NEW x \in RequestType, x.op = r.op, x.stage = r.stage, x.client = r.client,
             x.wrote = r.wrote, NEW res \in Results, Finish(p, x, res),
             res # "ok" \/ x.stage # "write"
      PROVE  Carries(r, req'[p])
  <2>1. req' = [req EXCEPT ![p] = req'[p]]
    BY <1>2, <1>5 DEF Finish
  <2>. QED
    BY <1>1, <1>5, <2>1, TaskCarries
<1>6. ASSUME NEW x, Step(p, x), x.pc # "ret", x.stage = r.stage, x.op = r.op,
             x.client = r.client, x.wrote = r.wrote
      PROVE  Carries(r, req'[p])
  BY <1>1, <1>6 DEF Step, Carries, Committed, Merging
<1>7. CASE Ensure(p) \/ Write(p) \/ Merge(p) \/ PromoteCheck(p) \/ MergeDbs(p)
  <2> DEFINE t(pc) == [r EXCEPT !.pc = pc]
             n(pc, new) == [r EXCEPT !.pc = pc, !.new = new]
             d(pc, db) == [r EXCEPT !.pc = pc, !.db = db]
  <2>1. ASSUME NEW pc, pc # "ret", NEW new, NEW db,
               Step(p, t(pc)) \/ Step(p, n(pc, new)) \/ Step(p, d(pc, db))
        PROVE  Carries(r, req'[p])
    <3>1. /\ t(pc).pc = pc /\ t(pc).stage = r.stage /\ t(pc).op = r.op
          /\ t(pc).client = r.client /\ t(pc).wrote = r.wrote
          /\ n(pc, new).pc = pc /\ n(pc, new).stage = r.stage /\ n(pc, new).op = r.op
          /\ n(pc, new).client = r.client /\ n(pc, new).wrote = r.wrote
          /\ d(pc, db).pc = pc /\ d(pc, db).stage = r.stage /\ d(pc, db).op = r.op
          /\ d(pc, db).client = r.client /\ d(pc, db).wrote = r.wrote
      BY <1>1 DEF RequestType
    <3>. HIDE DEF t, n, d
    <3>. QED
      BY <1>6, <2>1, <3>1
  <2>2. CASE \E res \in {"ok", "unchanged", "skipped", "err", "conflict"} :
               Finish(p, r, res) /\ (res # "ok" \/ r.stage # "write")
    BY <1>1, <1>3, <1>5, <2>2
  <2>3. CASE \E pc, new, db : /\ pc # "ret"
                              /\ Step(p, t(pc)) \/ Step(p, n(pc, new)) \/ Step(p, d(pc, db))
    BY <2>1, <2>3
  <2>4. CASE Ensure(p)
    BY <2>2, <2>3, <2>4 DEF Ensure, At
  <2>5. CASE Write(p)
    BY <2>2, <2>3, <2>5 DEF Write, At
  <2>6. CASE Merge(p)
    BY <2>2, <2>3, <2>6 DEF Merge, At
  <2>7. CASE PromoteCheck(p)
    BY <2>2, <2>3, <2>7 DEF PromoteCheck, At
  <2>8. CASE MergeDbs(p)
    BY <2>3, <2>8 DEF MergeDbs
  <2>. QED
    BY <1>7, <2>4, <2>5, <2>6, <2>7, <2>8
<1>8. CASE ReadBranch(p)
  <2>1. req'[p] = Idle /\ Idle.stage = "none"
    BY <1>1, <1>8 DEF ReadBranch, Step, Idle
  <2>. HIDE DEF Idle
  <2>. QED
    BY <2>1 DEF Carries, Committed, Merging
<1>9. CASE CommitRead(p)
  <2> DEFINE x == [r EXCEPT !.pc = "commitSet", !.old = Tip(Into(r)), !.new = Len(commits) + 1]
  <2>1. Step(p, x)
    BY <1>9 DEF CommitRead
  <2>2. x.pc = "commitSet" /\ x.stage = r.stage /\ x.op = r.op /\ x.client = r.client
        /\ x.wrote = r.wrote
    BY <1>1 DEF RequestType
  <2>. HIDE DEF x
  <2>. QED
    BY <1>6, <2>1, <2>2
<1>10. CASE CommitSet(p)
  <2> DEFINE x == [r EXCEPT !.pc = "commitRead", !.tries = @ + 1]
             y == [r EXCEPT !.pc = "ret", !.res = "ok", !.tries = 0]
  <2>1. \/ heads' = [heads EXCEPT ![Into(r)] = r.new] /\ Finish(p, r, "ok")
        \/ Finish(p, r, "err")
        \/ Step(p, x)
    BY <1>10 DEF CommitSet, SetRef
  <2>2. CASE Step(p, x)
    <3>1. x.pc = "commitRead" /\ x.stage = r.stage /\ x.op = r.op /\ x.client = r.client
          /\ x.wrote = r.wrote
      BY <1>1 DEF RequestType
    <3>. HIDE DEF x
    <3>. QED
      BY <1>6, <2>2, <3>1
  <2>3. CASE Finish(p, r, "err")
    BY <1>1, <1>3, <1>5, <2>3
  <2>4. CASE heads' = [heads EXCEPT ![Into(r)] = r.new] /\ Finish(p, r, "ok")
    <3>1. CASE r.stage # "write"
      BY <1>1, <1>3, <1>5, <2>4, <3>1
    <3>2. CASE r.stage = "write"
      <4>1. req'[p] = y \/ req'[p] = Idle
        BY <1>1, <2>4 DEF Finish, Step
      <4>2. y.stage = "write" /\ y.client = r.client /\ y.new = r.new
        BY <1>1, <3>2 DEF RequestType
      <4>3. Idle.stage = "none"
        BY DEF Idle
      <4>4. Into(r) = r.client /\ r.new # None
        BY <1>1, <1>10, <3>2 DEF CommitSet, RequestOK, Into, Ids, None
      <4>5. heads'[r.client] = r.new
        BY <1>4, <2>4, <4>4 DEF TypeOK
      <4>. HIDE DEF y, Idle
      <4>. QED
        BY <4>1, <4>2, <4>3, <4>4, <4>5 DEF Carries, Committed, Merging
    <3>. QED
      BY <3>1, <3>2
  <2>. QED
    BY <2>1, <2>2, <2>3, <2>4
<1>11. CASE FfRead(p)
  <2> DEFINE x == [r EXCEPT !.old = Tip(Into(r))]
             y == [x EXCEPT !.pc = "ffSet"]
  <2>1. (Finish(p, x, "ok") \/ Step(p, y)) /\ r.stage # "write"
    BY <1>1, <1>11 DEF FfRead, RequestOK
  <2>2. /\ x \in RequestType /\ x.stage = r.stage /\ x.op = r.op /\ x.client = r.client
        /\ x.wrote = r.wrote
        /\ y.pc = "ffSet" /\ y.stage = r.stage /\ y.op = r.op /\ y.client = r.client
        /\ y.wrote = r.wrote
    BY <1>1, <1>4 DEF RequestType
  <2>. HIDE DEF x, y
  <2>. QED
    BY <1>3, <1>5, <1>6, <2>1, <2>2
<1>12. CASE FfSet(p)
  <2> DEFINE x == [r EXCEPT !.pc = "ffRead", !.tries = @ + 1]
  <2>1. (Finish(p, r, "ok") \/ Finish(p, r, "err") \/ Step(p, x)) /\ r.stage # "write"
    BY <1>1, <1>12 DEF FfSet, SetRef, RequestOK
  <2>2. x.pc = "ffRead" /\ x.stage = r.stage /\ x.op = r.op /\ x.client = r.client
        /\ x.wrote = r.wrote
    BY <1>1 DEF RequestType
  <2>. HIDE DEF x
  <2>. QED
    BY <1>1, <1>3, <1>5, <1>6, <2>1, <2>2
<1>13. CASE CreateTips(p)
  <2> DEFINE x == [r EXCEPT !.pc = "createStore", !.new = Tip(Main), !.old = Tip(r.client)]
  <2>1. Finish(p, r, "nothing") \/ Step(p, x)
    BY <1>13 DEF CreateTips
  <2>2. x.pc = "createStore" /\ x.stage = r.stage /\ x.op = r.op /\ x.client = r.client
        /\ x.wrote = r.wrote
    BY <1>1 DEF RequestType
  <2>. HIDE DEF x
  <2>. QED
    BY <1>1, <1>3, <1>5, <1>6, <2>1, <2>2
<1>14. CASE CreateStore(p)
  <2> DEFINE x == [r EXCEPT !.new = Len(commits) + 1]
  <2>1. (Finish(p, r, "ok") \/ Finish(p, x, "ok")) /\ r.stage = "create"
    BY <1>14 DEF CreateStore, At
  <2>2. x \in RequestType /\ x.stage = r.stage /\ x.op = r.op /\ x.client = r.client
        /\ x.wrote = r.wrote
    BY <1>1, <1>4 DEF RequestType
  <2>. HIDE DEF x
  <2>. QED
    BY <1>1, <1>3, <1>5, <2>1, <2>2
<1>15. CASE PromoteSet(p) \/ PromoteClean(p)
  <2> DEFINE x == [r EXCEPT !.pc = "promoteClean"]
  <2>1. (Finish(p, r, "ok") \/ Finish(p, r, "err") \/ Step(p, x)) /\ r.stage = "promote"
    BY <1>15 DEF PromoteSet, PromoteClean, At
  <2>2. x.pc = "promoteClean" /\ x.stage = r.stage /\ x.op = r.op /\ x.client = r.client
        /\ x.wrote = r.wrote
    BY <1>1 DEF RequestType
  <2>. HIDE DEF x
  <2>. QED
    BY <1>1, <1>3, <1>5, <1>6, <2>1, <2>2
<1>. QED
  BY <1>7, <1>8, <1>9, <1>10, <1>11, <1>12, <1>13, <1>14, <1>15 DEF Task

\* A step of a handler does too.
LEMMA HandlersCarry ==
  ASSUME TypeOK, NEW p \in Procs, Handler(p)
  PROVE  Carries(req[p], req'[p])
<1> DEFINE r == req[p]
<1>1. r \in RequestType /\ \A x : Step(p, x) => req'[p] = x
  BY DEF TypeOK, Step
<1>2. ASSUME NEW x, Step(p, x) \/ Release(p, x), x.stage \notin {"write", "merge"}
      PROVE  Carries(r, req'[p])
  BY <1>1, <1>2 DEF Release, Carries, Committed, Merging
<1>3. Idle.stage = "none"
  BY DEF Idle
<1>4. CASE EnsureReturns(p)
  <2> DEFINE next(stage) == [r EXCEPT !.stage = stage, !.pc = "lock", !.old = None,
                                      !.new = None, !.res = "none"]
  <2>1. \/ r.op = "get" /\ Release(p, next("merge"))
        \/ Release(p, next("write"))
        \/ Release(p, Idle)
    BY <1>4 DEF EnsureReturns
  <2>2. /\ next("merge").stage = "merge" /\ next("merge").op = r.op
        /\ next("write").stage = "write" /\ next("write").pc = "lock"
    BY <1>1 DEF RequestType
  <2>. HIDE DEF next, Idle
  <2>. QED
    BY <1>1, <1>2, <1>3, <2>1, <2>2 DEF Release, Carries, Committed, Merging
<1>5. CASE WriteReturns(p)
  <2> DEFINE x == [r EXCEPT !.stage = "merge", !.pc = "merge", !.wrote = r.new,
                            !.old = None, !.new = None, !.res = "none"]
  <2>1. (Step(p, x) /\ Committed(r)) \/ Release(p, Idle)
    BY <1>5 DEF WriteReturns, Returned, At, Committed
  <2>2. x.stage = "merge" /\ x.client = r.client /\ x.wrote = r.new
    BY <1>1 DEF RequestType
  <2>. HIDE DEF x, Idle
  <2>. QED
    BY <1>1, <1>2, <1>3, <2>1, <2>2 DEF Carries, Committed, Merging
<1>6. CASE GetReturns(p)
  <2> DEFINE x == [Request("get", "read", r.client) EXCEPT !.pc = "lock"]
  <2>1. Release(p, x) /\ x.stage = "read"
    BY <1>6 DEF GetReturns, Request, Idle
  <2>. HIDE DEF x
  <2>. QED
    BY <1>2, <2>1
<1>7. CASE PutReturns(p) \/ CreateReturns(p) \/ PromoteReturns(p) \/ BootstrapReturns(p)
  BY <1>2, <1>3, <1>7 DEF PutReturns, CreateReturns, PromoteReturns, BootstrapReturns
<1>. QED
  BY <1>4, <1>5, <1>6, <1>7 DEF Handler

\* And so does every step.
LEMMA NextCarries ==
  ASSUME TypeOK, [Next]_vars, NEW q \in Procs
  PROVE  Carries(req[q], req'[q])
<1>1. CASE req'[q] = req[q]
  BY <1>1 DEF Carries, Committed, Merging
<1>2. ASSUME NEW x, req'[q] = x, x.stage \notin {"write", "merge"}
      PROVE  Carries(req[q], req'[q])
  BY <1>2 DEF Carries, Committed, Merging
<1>3. Idle.stage = "none"
  BY DEF Idle
<1>4. \A p \in Procs : \A x : Step(p, x) => req'[q] = IF q = p THEN x ELSE req[q]
  BY DEF TypeOK, Step
<1>5. CASE Crash
  <2>1. req'[q] \in {req[q], Idle}
    BY <1>5 DEF Crash
  <2>. QED
    BY <1>1, <1>2, <1>3, <2>1
<1>6. ASSUME NEW p \in Procs, Start(p) PROVE Carries(req[q], req'[q])
  <2>1. ASSUME NEW x, Open(p, x), x.stage \notin {"write", "merge"}
        PROVE  Carries(req[q], req'[q])
    BY <1>1, <1>2, <1>4, <2>1 DEF Open
  <2>2. \A op, stage, c : Request(op, stage, c).stage = stage
    BY DEF Request, Idle
  <2>3. CASE \E c \in Clients : StartGet(p, c) \/ StartProbe(p, c) \/ StartCreate(p, c)
    BY <2>1, <2>2, <2>3 DEF StartGet, StartProbe, StartCreate
  <2>4. CASE \E c \in Clients, db \in Databases : StartPut(p, c, db)
    <3>1. PICK c \in Clients, db \in Databases : StartPut(p, c, db)
      BY <2>4
    <3> DEFINE x == [Request("put", "ensure", c) EXCEPT !.db = db]
    <3>2. Open(p, x) /\ x.stage = "ensure"
      BY <3>1 DEF StartPut, Request, Idle
    <3>. HIDE DEF x
    <3>. QED
      BY <2>1, <3>2
  <2>5. CASE \E o \in offers : StartPromote(p, o)
    <3>1. PICK o \in offers : StartPromote(p, o)
      BY <2>5
    <3> DEFINE x == [Request("promote", "promote", o.client)
                       EXCEPT !.new = o.commit, !.old = o.expected]
    <3>2. Open(p, x) /\ x.stage = "promote"
      BY <3>1 DEF StartPromote, Request, Idle
    <3>. HIDE DEF x
    <3>. QED
      BY <2>1, <3>2
  <2>6. CASE \E db \in Databases : StartBootstrap(p, db)
    <3>1. PICK db \in Databases : StartBootstrap(p, db)
      BY <2>6
    <3> DEFINE x == [Idle EXCEPT !.op = "bootstrap", !.stage = "bootstrap",
                                 !.pc = IF Tip(Main) = None THEN "commitRead" ELSE "ret",
                                 !.res = "err", !.db = db]
    <3>2. Open(p, x) /\ x.stage = "bootstrap"
      BY <3>1 DEF StartBootstrap, Idle
    <3>. HIDE DEF x
    <3>. QED
      BY <2>1, <3>2
  <2>. QED
    BY <1>6, <2>3, <2>4, <2>5, <2>6 DEF Start
<1>7. ASSUME NEW p \in Procs, Acquire(p) \/ TaskFails(p) \/ HangUp(p)
      PROVE  Carries(req[q], req'[q])
  <2> DEFINE r == req[p]
             x == [r EXCEPT !.pc = r.stage]
             y == [r EXCEPT !.pc = "ret", !.res = "err", !.tries = 0]
             z == [r EXCEPT !.attached = FALSE]
  <2>1. r \in RequestType /\ RequestOK(commits, heads, offers, r)
    BY DEF TypeOK
  <2>2. \/ Step(p, x) /\ r.stage # "ret"
        \/ Step(p, y)
        \/ Step(p, z) /\ r.pc # "ret"
        \/ Step(p, Idle)
    BY <1>7, <2>1 DEF Acquire, TaskFails, HangUp, Finish, Release, RequestOK, WritingTask
  <2>3. /\ x.pc = r.stage /\ x.stage = r.stage /\ x.op = r.op /\ x.client = r.client
        /\ x.wrote = r.wrote
        /\ y.res = "err" /\ y.stage = r.stage /\ y.op = r.op /\ y.client = r.client
        /\ y.wrote = r.wrote
        /\ z.pc = r.pc /\ z.stage = r.stage /\ z.op = r.op /\ z.client = r.client
        /\ z.wrote = r.wrote
    BY <2>1 DEF RequestType
  <2>. HIDE DEF x, y, z
  <2>4. CASE q = p
    BY <1>2, <1>3, <1>4, <2>2, <2>3, <2>4 DEF Carries, Committed, Merging
  <2>5. CASE q # p
    BY <1>1, <1>4, <2>2, <2>5
  <2>. QED
    BY <2>4, <2>5
<1>8. ASSUME NEW p \in Procs, Task(p) \/ Handler(p) PROVE Carries(req[q], req'[q])
  <2>1. CASE q = p
    BY <1>8, <2>1, TasksCarry, HandlersCarry
  <2>2. CASE q # p
    <3>1. \E x : Step(p, x)
      BY <1>8 DEF Task, Ensure, Write, Merge, MergeDbs, ReadBranch, CommitRead, CommitSet,
                  FfRead, FfSet, SetRef, CreateTips, CreateStore, PromoteCheck, PromoteSet,
                  PromoteClean, Finish, Handler, EnsureReturns, WriteReturns, PutReturns,
                  GetReturns, CreateReturns, PromoteReturns, BootstrapReturns, Release
    <3>. QED
      BY <1>1, <1>4, <2>2, <3>1
  <2>. QED
    BY <2>1, <2>2
<1>9. CASE UNCHANGED vars \/ Rest
  BY <1>1, <1>9 DEF Rest, vars
<1>. QED
  BY <1>5, <1>6, <1>7, <1>8, <1>9 DEF Next

--------------------------------------------------------------------------------
(* What was acknowledged stays.                                            *)

\* Where acknowledgements come from: a PUT that has been through its merge.
LEMMA WhoAcks ==
  ASSUME TypeOK, [Next]_vars, NEW a \in acked', a \notin acked
  PROVE  \E p \in Procs : /\ Merging(req[p]) /\ UNCHANGED <<commits, heads>>
                          /\ a = [client |-> req[p].client, commit |-> req[p].wrote]
<1>1. ASSUME acked' = acked PROVE FALSE
  BY <1>1
<1>2. PICK p \in Procs : PutReturns(p)
  <2>1. CASE UNCHANGED vars \/ Rest \/ Crash \/ \E p \in Procs : TaskFails(p) \/ HangUp(p)
    BY <1>1, <2>1 DEF vars, Rest, Crash, TaskFails, HangUp
  <2>2. ASSUME NEW p \in Procs, Start(p) \/ Acquire(p) PROVE FALSE
    <3>1. CASE Start(p)
      <4>1. \E x : Open(p, x)
        BY <3>1 DEF Start, StartGet, StartPut, StartProbe, StartCreate, StartPromote,
                    StartBootstrap
      <4>. QED
        BY <1>1, <4>1 DEF Open
    <3>. QED
      BY <1>1, <2>2, <3>1 DEF Acquire
  <2>3. ASSUME NEW p \in Procs, Task(p) PROVE FALSE
    BY <1>1, <2>3 DEF Task, Ensure, Write, Merge, MergeDbs, ReadBranch, CommitRead, CommitSet,
                      FfRead, FfSet, SetRef, CreateTips, CreateStore, PromoteCheck, PromoteSet,
                      PromoteClean, Quiet
  <2>4. ASSUME NEW p \in Procs, Handler(p) PROVE PutReturns(p)
    BY <1>1, <2>4 DEF Handler, EnsureReturns, WriteReturns, GetReturns, CreateReturns,
                      PromoteReturns, BootstrapReturns, Quiet
  <2>. QED
    BY <2>1, <2>2, <2>3, <2>4 DEF Next
<1>3. Merging(req[p]) /\ UNCHANGED <<commits, heads>>
  BY <1>2 DEF PutReturns, Returned, At, Merging, repo
<1>4. acked' = acked \cup {[client |-> req[p].client, commit |-> req[p].wrote]}
  BY <1>2 DEF PutReturns
<1>. QED
  BY <1>3, <1>4

AckedInv ==
  /\ ReachClosed(commits)
  /\ \A p \in Procs : UploadKept(req[p])
  /\ AckedWritesKept

\* A step keeps what was acknowledged, and what is about to be.
LEMMA AckedStep ==
  ASSUME TypeOK, TypeOK', OffersAreForward, SerialInv, Bypass = {}, AckedInv, [Next]_vars
  PROVE  AckedInv'
<1>1. ReachClosed(commits') /\ Grows(commits, commits')
  BY ClosedStep, CommitsGrow DEF AckedInv
<1>2. ASSUME NEW b \in Branches PROVE Forward(commits', heads[b], heads'[b])
  BY AdvanceStep
<1>3. ASSUME NEW b \in Branches, NEW c, IsAncestor(commits, c, heads[b])
      PROVE  IsAncestor(commits', c, heads'[b])
  BY <1>1, <1>2, <1>3, AncestorStays
<1>4. ASSUME NEW p \in Procs PROVE UploadKept(req[p])'
  <2> DEFINE r == req[p]
             s == req'[p]
  <2>1. Carries(r, s) /\ UploadKept(r) /\ r.client \in Branches /\ s.client \in Branches
    BY NextCarries DEF AckedInv, TypeOK, RequestType
  <2>2. ASSUME s.new # None, heads'[s.client] = s.new
        PROVE  IsAncestor(commits', s.new, heads'[s.client])
    <3>1. commits' \in Seq(Commits) /\ WellFormed(commits') /\ s.new \in Tips(commits')
      BY <2>1, <2>2 DEF TypeOK
    <3>2. Forward(commits', s.new, s.new)
      BY <3>1, ForwardStays
    <3>. QED
      BY <2>2, <3>2 DEF Forward
  <2>3. Committed(s) => IsAncestor(commits', s.new, heads'[s.client])
    BY <1>3, <2>1, <2>2 DEF Carries, UploadKept
  <2>4. Merging(s) => IsAncestor(commits', s.wrote, heads'[s.client])
    BY <1>3, <2>1 DEF Carries, UploadKept
  <2>. QED
    BY <2>3, <2>4 DEF UploadKept, Committed, Merging
<1>5. ASSUME NEW a \in acked' PROVE IsAncestor(commits', a.commit, heads'[a.client])
  <2>1. CASE a \in acked
    <3>1. a.client \in Branches /\ IsAncestor(commits, a.commit, heads[a.client])
      BY <2>1 DEF AckedInv, AckedWritesKept, TypeOK, Branches
    <3>. QED
      BY <1>3, <3>1
  <2>2. CASE a \notin acked
    <3>1. PICK p \in Procs : /\ Merging(req[p]) /\ UNCHANGED <<commits, heads>>
                             /\ a = [client |-> req[p].client, commit |-> req[p].wrote]
      BY <2>2, WhoAcks
    <3>2. IsAncestor(commits, req[p].wrote, heads[req[p].client])
      BY <3>1 DEF AckedInv, UploadKept
    <3>. QED
      BY <3>1, <3>2
  <2>. QED
    BY <2>1, <2>2
<1>. QED
  BY <1>1, <1>4, <1>5 DEF AckedInv, AckedWritesKept

\* A PUT that was answered with success stays in the history of its client's
\* branch for ever, through failures, hang-ups and crashes, while the mutex is
\* not bypassed: process_client_write and every later writer of the branch.
THEOREM AckedKept == ASSUME Bypass = {} PROVE Spec => []AckedWritesKept
<1>1. Init => AckedInv
  <2> SUFFICES ASSUME Init PROVE AckedInv
    OBVIOUS
  <2>1. TypeOK /\ Len(commits) \in {0, 1}
    <3>1. TypeOK
      BY InitTypes
    <3>2. \E db : commits \in {<<>>, AddCommit(<<>>, {}, db)}
      BY DEF Init
    <3>. QED
      BY <3>1, <3>2 DEF AddCommit
  <2>2. ReachClosed(commits)
    <3>1. ASSUME NEW d \in Ids(commits), NEW a \in commits[d].reach PROVE a = d
      <4>1. d = 1 /\ commits[d].reach \subseteq 1..d
        BY <2>1 DEF Ids, TypeOK, WellFormed
      <4>. QED
        BY <3>1, <4>1
    <3>. QED
      BY <3>1 DEF ReachClosed
  <2>3. \A p \in Procs : UploadKept(req[p])
    BY DEF Init, UploadKept, Committed, Merging, Idle
  <2>. QED
    BY <2>2, <2>3 DEF AckedInv, AckedWritesKept, Init
<1>2. TypeOK /\ TypeOK' /\ OffersAreForward /\ SerialInv /\ AckedInv /\ [Next]_vars => AckedInv'
  BY AckedStep
<1>3. AckedInv => AckedWritesKept
  BY DEF AckedInv
<1>. QED
  BY <1>1, <1>2, <1>3, TypeCorrect, OffersForward, Serialized, PTL DEF Spec

--------------------------------------------------------------------------------
(* Subscribers of main are told of its tip.                                *)

\* A request that has merged into main and is about to say so.
Announces(r) == r.op = "put" /\ r.stage = "merge" /\ r.pc = "ret" /\ r.res = "ok"

\* Unless a client hung up, main's tip was announced or is about to be.
ToldInv == hangups = 0 => announced[Main] = heads[Main] \/ \E p \in Procs : Announces(req[p])

\* A step that moves main leaves a request behind that will announce it.
LEMMA MainMoves ==
  ASSUME TypeOK, TypeOK', SerialInv, [Next]_vars, heads'[Main] # heads[Main]
  PROVE  \E p \in Procs : Announces(req'[p])
<1>1. Main \in Branches /\ Main \notin Clients
  BY MainIsNoClient DEF Branches
<1>2. PICK p \in Procs : CommitSet(p) \/ FfSet(p) \/ PromoteSet(p)
  BY WhoWrites
<1> DEFINE r == req[p]
           y == [r EXCEPT !.pc = "ret", !.res = "ok", !.tries = 0]
<1>3. /\ r \in RequestType /\ RequestOK(commits, heads, offers, r)
      /\ r.attached /\ r.op # "bootstrap" /\ r.stage # "bootstrap"
  BY <1>2, SerialHolds DEF TypeOK, CommitSet, FfSet, PromoteSet, At
<1>4. ~PromoteSet(p)
  BY <1>1, <1>3 DEF PromoteSet, At, RequestOK, TypeOK
<1>5. heads' = [heads EXCEPT ![Into(r)] = r.new] /\ Finish(p, r, "ok")
  BY <1>2, <1>4 DEF CommitSet, FfSet, SetRef
<1>6. Into(r) = Main
  BY <1>1, <1>5 DEF TypeOK
<1>7. r.stage = "merge" /\ r.op = "put"
  BY <1>1, <1>2, <1>3, <1>4, <1>6 DEF Into, RequestOK, CommitSet, FfSet
<1>8. req'[p] = y
  BY <1>3, <1>5 DEF Finish, Step, TypeOK
<1>9. y.pc = "ret" /\ y.res = "ok" /\ y.stage = r.stage /\ y.op = r.op
  BY <1>3 DEF RequestType
<1>. HIDE DEF y
<1>. QED
  BY <1>7, <1>8, <1>9 DEF Announces

\* A request that is about to announce main does so, or its client hangs up, or
\* the server dies, which makes fresh channels.
LEMMA Announced ==
  ASSUME TypeOK, SerialInv, [Next]_vars, NEW p \in Procs, Announces(req[p])
  PROVE  Announces(req'[p]) \/ announced'[Main] = heads'[Main] \/ hangups' # 0
<1>1. Main \in Branches /\ req \in [Procs -> RequestType] /\ req[p].pc = "ret"
      /\ req[p].stage = "merge" /\ req[p].op = "put" /\ req[p].res = "ok"
  BY DEF Branches, TypeOK, Announces
<1>2. CASE UNCHANGED vars \/ Rest
  BY <1>2 DEF vars, Rest
<1>3. CASE Crash
  BY <1>3 DEF Crash, repo
<1>4. ASSUME NEW q \in Procs, Start(q) \/ Acquire(q) \/ Task(q) \/ TaskFails(q)
      PROVE  req'[p] = req[p]
  <2>1. q # p
    <3>1. req[q].pc # "ret" \/ req[q] = Idle
      <4>1. CASE Start(q)
        <5>1. \E x : Open(q, x)
          BY <4>1 DEF Start, StartGet, StartPut, StartProbe, StartCreate, StartPromote,
                      StartBootstrap
        <5>. QED
          BY <5>1 DEF Open
      <4>2. CASE Acquire(q) \/ Task(q)
        BY <4>2 DEF Acquire, Task, Ensure, Write, Merge, MergeDbs, ReadBranch, CommitRead,
                    CommitSet, FfRead, FfSet, CreateTips, CreateStore, PromoteCheck, PromoteSet,
                    PromoteClean, At
      <4>3. CASE TaskFails(q)
        BY <4>3 DEF TaskFails, WritingTask, ReadingTask
      <4>. QED
        BY <1>4, <4>1, <4>2, <4>3
    <3>. QED
      BY <1>1, <3>1 DEF Idle
  <2>2. PICK x : Step(q, x)
    <3>1. CASE Start(q)
      <4>1. \E x : Open(q, x)
        BY <3>1 DEF Start, StartGet, StartPut, StartProbe, StartCreate, StartPromote,
                    StartBootstrap
      <4>. QED
        BY <4>1 DEF Open
    <3>2. CASE Acquire(q) \/ Task(q) \/ TaskFails(q)
      BY <3>2 DEF Acquire, TaskFails, Task, Ensure, Write, Merge, MergeDbs, ReadBranch,
                  CommitRead, CommitSet, FfRead, FfSet, SetRef, CreateTips, CreateStore,
                  PromoteCheck, PromoteSet, PromoteClean, Finish
    <3>. QED
      BY <1>4, <3>1, <3>2
  <2>. QED
    BY <1>1, <2>1, <2>2 DEF Step
<1>5. ASSUME NEW q \in Procs, HangUp(q)
      PROVE  hangups' # 0
  BY <1>5 DEF HangUp, TypeOK
<1>6. ASSUME NEW q \in Procs, Handler(q)
      PROVE  Announces(req'[p]) \/ announced'[Main] = heads'[Main]
  <2>1. CASE q # p
    <3>1. \E x : Step(q, x)
      BY <1>6 DEF Handler, EnsureReturns, WriteReturns, PutReturns, GetReturns, CreateReturns,
                  PromoteReturns, BootstrapReturns, Release
    <3>2. req'[p] = req[p]
      BY <1>1, <2>1, <3>1 DEF Step
    <3>. QED
      BY <3>2
  <2>2. CASE q = p
    <3>1. PutReturns(p)
      BY <1>1, <1>6, <2>2 DEF Handler, EnsureReturns, WriteReturns, GetReturns, CreateReturns,
                              PromoteReturns, BootstrapReturns, Returned, At
    <3>2. Announce({req[p].client} \cup {Main}) /\ UNCHANGED heads
      BY <1>1, <3>1 DEF PutReturns, repo
    <3>. QED
      BY <1>1, <3>2 DEF Announce, Tip
  <2>. QED
    BY <2>1, <2>2
<1>. QED
  BY <1>2, <1>3, <1>4, <1>5, <1>6 DEF Next

\* What was announced of main is not taken back.
LEMMA AnnouncedStays ==
  ASSUME TypeOK, [Next]_vars, heads'[Main] = heads[Main], announced[Main] = heads[Main]
  PROVE  announced'[Main] = heads'[Main]
<1>1. Main \in Branches
  BY DEF Branches
<1>2. \A bs : Announce(bs) => announced'[Main] \in {heads[Main], announced[Main]}
  BY <1>1 DEF Announce, Tip
<1>3. CASE UNCHANGED vars \/ Rest
  BY <1>3 DEF vars, Rest
<1>4. CASE Crash \/ \E p \in Procs : TaskFails(p) \/ HangUp(p)
  BY <1>4 DEF Crash, TaskFails, HangUp
<1>5. CASE \E p \in Procs : Start(p) \/ Acquire(p)
  <2>1. PICK p \in Procs : Start(p) \/ Acquire(p)
    BY <1>5
  <2>2. CASE Start(p)
    <3>1. \E x : Open(p, x)
      BY <2>2 DEF Start, StartGet, StartPut, StartProbe, StartCreate, StartPromote,
                  StartBootstrap
    <3>. QED
      BY <3>1 DEF Open
  <2>. QED
    BY <2>1, <2>2 DEF Acquire
<1>6. CASE \E p \in Procs : Task(p)
  BY <1>6 DEF Task, Ensure, Write, Merge, MergeDbs, ReadBranch, CommitRead, CommitSet,
              FfRead, FfSet, SetRef, CreateTips, CreateStore, PromoteCheck, PromoteSet,
              PromoteClean, Quiet
<1>7. CASE \E p \in Procs : Handler(p)
  <2>1. announced' = announced \/ \E bs : Announce(bs)
    BY <1>7 DEF Handler, EnsureReturns, WriteReturns, PutReturns, GetReturns, CreateReturns,
                PromoteReturns, BootstrapReturns, Quiet
  <2>. QED
    BY <1>2, <2>1
<1>. QED
  BY <1>3, <1>4, <1>5, <1>6, <1>7 DEF Next

\* The ghost that counts the clients who hung up only grows.
LEMMA HangUpsCount == ASSUME TypeOK, [Next]_vars PROVE hangups' \in {hangups, hangups + 1}
<1>1. CASE UNCHANGED vars \/ Rest
  BY <1>1 DEF vars, Rest
<1>2. CASE Crash \/ \E p \in Procs : TaskFails(p) \/ HangUp(p)
  BY <1>2 DEF Crash, Fault, TaskFails, HangUp
<1>3. CASE \E p \in Procs : Start(p) \/ Acquire(p)
  <2>1. PICK p \in Procs : Start(p) \/ Acquire(p)
    BY <1>3
  <2>2. CASE Start(p)
    <3>1. \E x : Open(p, x)
      BY <2>2 DEF Start, StartGet, StartPut, StartProbe, StartCreate, StartPromote,
                  StartBootstrap
    <3>. QED
      BY <3>1 DEF Open
  <2>. QED
    BY <2>1, <2>2 DEF Acquire, counters
<1>4. CASE \E p \in Procs : Task(p)
  BY <1>4 DEF Task, Ensure, Write, Merge, MergeDbs, ReadBranch, CommitRead, CommitSet,
              FfRead, FfSet, SetRef, CreateTips, CreateStore, PromoteCheck, PromoteSet,
              PromoteClean, Quiet, counters
<1>5. CASE \E p \in Procs : Handler(p)
  BY <1>5 DEF Handler, EnsureReturns, WriteReturns, PutReturns, GetReturns, CreateReturns,
              PromoteReturns, BootstrapReturns, Quiet, counters
<1>. QED
  BY <1>1, <1>2, <1>3, <1>4, <1>5 DEF Next

\* Between requests, the subscribers of main have been told of its tip, through
\* failing tasks and crashes, as long as no client hangs up half-way.
THEOREM MainTold == ASSUME Bypass = {} PROVE Spec => []MainAnnounced
<1>1. Init => ToldInv
  BY DEF Init, ToldInv
<1>2. TypeOK /\ TypeOK' /\ SerialInv /\ ToldInv /\ [Next]_vars => ToldInv'
  <2>. SUFFICES ASSUME TypeOK, TypeOK', SerialInv, ToldInv, [Next]_vars, hangups' = 0
                PROVE  announced'[Main] = heads'[Main] \/ \E p \in Procs : Announces(req'[p])
    BY DEF ToldInv, Announces
  <2>1. hangups = 0
    <3>1. hangups' \in {hangups, hangups + 1} /\ hangups \in Nat
      BY HangUpsCount DEF TypeOK
    <3>. QED
      BY <3>1
  <2>2. CASE heads'[Main] # heads[Main]
    BY <2>2, MainMoves
  <2>3. CASE heads'[Main] = heads[Main] /\ announced[Main] = heads[Main]
    BY <2>3, AnnouncedStays
  <2>4. CASE \E p \in Procs : Announces(req[p])
    BY <2>4, Announced
  <2>. QED
    BY <2>1, <2>2, <2>3, <2>4 DEF ToldInv
<1>3. ToldInv => MainAnnounced
  BY DEF ToldInv, MainAnnounced, Announces, Idle
<1>. QED
  BY <1>1, <1>2, <1>3, TypeCorrect, Serialized, PTL DEF Spec
================================================================================
