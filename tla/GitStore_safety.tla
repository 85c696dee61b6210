---------------------------- MODULE GitStore_safety ----------------------------
(***************************************************************************)
(* The safety properties of GitStore, from the type invariant: what holds  *)
(* whoever bypasses the mutex, and what holds because nobody does.         *)
(***************************************************************************)
EXTENDS GitStore_proofs

--------------------------------------------------------------------------------
(* Which steps write what.                                                 *)

\* Commits are written by two tasks, refs by three, offers by one handler.
LEMMA WhoWrites ==
  ASSUME [Next]_vars
  PROVE  /\ commits' = commits \/ \E p \in Procs : CommitRead(p) \/ CreateStore(p)
         /\ heads' = heads \/ \E p \in Procs : CommitSet(p) \/ FfSet(p) \/ PromoteSet(p)
         /\ offers' = offers \/ \E p \in Procs : CreateReturns(p)
<1>1. CASE UNCHANGED vars \/ Rest
  BY <1>1 DEF vars, Rest
<1>2. CASE Crash \/ \E p \in Procs : TaskFails(p) \/ HangUp(p)
  BY <1>2 DEF Crash, TaskFails, HangUp, repo
<1>3. CASE \E p \in Procs : Start(p) \/ Acquire(p)
  <2>1. PICK p \in Procs : Start(p) \/ Acquire(p)
    BY <1>3
  <2>2. CASE Start(p)
    <3>1. \E r : Open(p, r)
      BY <2>2 DEF Start, StartGet, StartPut, StartProbe, StartCreate, StartPromote, StartBootstrap
    <3>. QED
      BY <3>1 DEF Open, repo
  <2>. QED
    BY <2>1, <2>2 DEF Acquire, repo
<1>4. CASE \E p \in Procs : Task(p)
  <2>1. PICK p \in Procs : Task(p)
    BY <1>4
  <2>2. CASE Ensure(p) \/ Write(p) \/ Merge(p) \/ MergeDbs(p) \/ ReadBranch(p)
               \/ FfRead(p) \/ CreateTips(p) \/ PromoteCheck(p) \/ PromoteClean(p)
    BY <2>2 DEF Ensure, Write, Merge, MergeDbs, ReadBranch, FfRead, CreateTips, PromoteCheck,
                PromoteClean, Quiet, repo
  <2>3. CASE CommitRead(p) \/ CreateStore(p)
    BY <2>3 DEF CommitRead, CreateStore
  <2>4. CASE CommitSet(p) \/ FfSet(p) \/ PromoteSet(p)
    BY <2>4 DEF CommitSet, FfSet, SetRef, PromoteSet
  <2>. QED
    BY <2>1, <2>2, <2>3, <2>4 DEF Task
<1>5. CASE \E p \in Procs : Handler(p)
  BY <1>5 DEF Handler, EnsureReturns, WriteReturns, PutReturns, GetReturns, CreateReturns,
              PromoteReturns, BootstrapReturns, Quiet, repo
<1>. QED
  BY <1>1, <1>2, <1>3, <1>4, <1>5 DEF Next

\* Commits are only ever added, and keep their contents.
LEMMA CommitsGrow ==
  ASSUME TypeOK, [Next]_vars
  PROVE  Grows(commits, commits')
<1>1. CASE commits' = commits
  BY <1>1 DEF Grows, Ids, TypeOK
<1>2. ASSUME NEW p \in Procs, CommitRead(p) \/ CreateStore(p)
      PROVE  Grows(commits, commits')
  <2>1. commits \in Seq(Commits) /\ Len(commits) \in Nat
    BY DEF TypeOK
  <2>2. \/ commits' = commits
        \/ \E c : commits' = Append(commits, c)
    BY <1>2 DEF CommitRead, CreateStore, AddCommit
  <2>. QED
    BY <2>1, <2>2 DEF Grows, Ids
<1>. QED
  BY <1>1, <1>2, WhoWrites

--------------------------------------------------------------------------------
(* Whoever races.                                                          *)

\* Offers stay forward over a step: commits do not change, new ones come from CreateStore.
LEMMA OffersStep ==
  ASSUME TypeOK, OffersAreForward, [Next]_vars
  PROVE  OffersAreForward'
<1>1. ASSUME NEW o \in offers PROVE Forward(commits', o.expected, o.commit)
  <2>1. o.commit \in Ids(commits) /\ Forward(commits, o.expected, o.commit)
    BY DEF TypeOK, OffersAreForward
  <2>. QED
    BY <2>1, CommitsGrow, ForwardGrows
<1>2. ASSUME NEW p \in Procs, CreateReturns(p), NEW o \in offers', o \notin offers
      PROVE  Forward(commits', o.expected, o.commit)
  <2>1. req[p].stage = "create" /\ req[p].pc = "ret" /\ req[p].res = "ok" /\ commits' = commits
        /\ o.expected = req[p].old /\ o.commit = req[p].new
    BY <1>2 DEF CreateReturns, Returned, At, repo
  <2>. QED
    BY <2>1 DEF TypeOK, RequestOK
<1>. QED
  BY <1>1, <1>2, WhoWrites DEF OffersAreForward

\* Every offer that merge-from-main ever made contains the tip it was made for,
\* so that a promote never drops history, however late: for any bypass.
THEOREM OffersForward == Spec => []OffersAreForward
<1>1. Init => OffersAreForward
  BY DEF Init, OffersAreForward
<1>2. TypeOK /\ OffersAreForward /\ [Next]_vars => OffersAreForward'
  BY OffersStep
<1>. QED
  BY <1>1, <1>2, TypeCorrect, PTL DEF Spec

\* A step that writes one ref loses no history if it writes this one forward.
LEMMA OneRefForward ==
  ASSUME TypeOK, NEW c \in Branches, NEW d, heads' = [heads EXCEPT ![c] = d],
         commits' = commits, Forward(commits, heads[c], d), NEW b \in Branches
  PROVE  Forward(commits', heads[b], heads'[b])
<1>1. heads'[b] = IF b = c THEN d ELSE heads[b]
  BY DEF TypeOK
<1>2. Forward(commits, heads[b], heads[b])
  BY ForwardStays DEF TypeOK
<1>. QED
  BY <1>1, <1>2

\* A step moves a branch forward, or is the fast-forward's ref update.
LEMMA RewindStep ==
  ASSUME TypeOK, OffersAreForward, [Next]_vars, NEW b \in Branches
  PROVE  \/ Forward(commits', heads[b], heads'[b])
         \/ \E p \in Procs : FfSet(p) /\ Into(req[p]) = b
<1>1. CASE heads' = heads
  <2>1. Forward(commits, heads[b], heads[b]) /\ heads[b] \in Tips(commits)
    BY ForwardStays DEF TypeOK
  <2>2. CASE heads[b] = None
    BY <2>2 DEF Forward
  <2>3. CASE heads[b] # None
    <3>1. heads[b] \in Ids(commits)
      BY <2>1, <2>3 DEF Tips, Ids, None
    <3>2. Forward(commits', heads[b], heads[b])
      BY <2>1, <3>1, CommitsGrow, ForwardGrows
    <3>. QED
      BY <1>1, <3>2
  <2>. QED
    BY <2>2, <2>3
<1>2. ASSUME NEW p \in Procs, CommitSet(p), heads' # heads
      PROVE  Forward(commits', heads[b], heads'[b])
  <2>1. Forward(commits, req[p].old, req[p].new) /\ Into(req[p]) \in Branches
    BY <1>2 DEF TypeOK, RequestOK, RequestType, CommitSet, Into, Branches
  <2>2. /\ heads[Into(req[p])] = req[p].old /\ commits' = commits
        /\ heads' = [heads EXCEPT ![Into(req[p])] = req[p].new]
    BY <1>2 DEF CommitSet, SetRef, Tip
  <2>. QED
    BY <2>1, <2>2, OneRefForward
<1>3. ASSUME NEW p \in Procs, PromoteSet(p), heads' # heads
      PROVE  Forward(commits', heads[b], heads'[b])
  <2>1. Offer(req[p]) \in offers /\ req[p].client \in Branches
    BY <1>3 DEF TypeOK, RequestOK, RequestType, PromoteSet, At
  <2>2. Forward(commits, req[p].old, req[p].new)
    BY <2>1 DEF OffersAreForward, Offer
  <2>3. /\ heads[req[p].client] = req[p].old /\ commits' = commits
        /\ heads' = [heads EXCEPT ![req[p].client] = req[p].new]
    BY <1>3 DEF PromoteSet, Tip
  <2>. QED
    BY <2>1, <2>2, <2>3, OneRefForward
<1>4. ASSUME NEW p \in Procs, FfSet(p), Into(req[p]) # b, heads' # heads
      PROVE  Forward(commits', heads[b], heads'[b])
  <2>1. /\ heads' = [heads EXCEPT ![Into(req[p])] = req[p].new] /\ commits' = commits
    BY <1>4 DEF FfSet, SetRef
  <2>2. heads'[b] = heads[b]
    BY <1>4, <2>1 DEF TypeOK
  <2>. QED
    BY <2>1, <2>2, ForwardStays DEF TypeOK
<1>. QED
  BY <1>1, <1>2, <1>3, <1>4, WhoWrites

\* Beside orphan tasks and init, for any number of them, commits and promotions
\* drop no history; only fast_forward_branch, which re-reads the tip, can.
THEOREM OnlyFastForward == Spec => OnlyFastForwardRewinds
<1>1. TypeOK /\ OffersAreForward /\ [Next]_vars =>
        [\A b \in Branches :
           \/ Forward(commits', heads[b], heads'[b])
           \/ \E p \in Procs : FfSet(p) /\ Into(req[p]) = b]_vars
  BY RewindStep
<1>. QED
  BY <1>1, TypeCorrect, OffersForward, PTL DEF Spec, OnlyFastForwardRewinds

--------------------------------------------------------------------------------
(* Without a bypass.                                                       *)

\* What a request leaves for the other ones: it ran a store call only as the
\* holder of the mutex, and what it goes on to do, it does as the holder too.
LEMMA SerialStep ==
  ASSUME TypeOK, SerialInv, NEW p \in Procs, NEW x, Step(p, x),
         UNCHANGED <<commits, heads>> \/ lock = p,
         lock' = lock \/ lock \in {p, NoProc},
         x.attached, x.op # "bootstrap", x.stage # "bootstrap",
         x.pc \notin {"idle", "lock"} => lock' = p,
         x.pc \in {"ffRead", "ffSet"} => Forward(commits', heads'[Into(x)], x.new)
  PROVE  SerialInv'
<1>1. \A q \in Procs : req'[q] = IF q = p THEN x ELSE req[q]
  BY DEF Step, TypeOK
<1>2. Serial(p)'
  BY <1>1 DEF Serial
<1>3. ASSUME NEW q \in Procs, q # p PROVE Serial(q)'
  <2>1. req'[q] = req[q] /\ Serial(q)
    BY <1>1, <1>3 DEF SerialInv
  <2>2. CASE req[q].pc \in {"idle", "lock"}
    BY <2>1, <2>2 DEF Serial
  <2>3. CASE req[q].pc \notin {"idle", "lock"}
    <3>1. lock = q /\ lock # NoProc
      BY <2>1, <2>3, NoProcIsNoSlot DEF Serial
    <3>2. lock' = q /\ UNCHANGED <<commits, heads>>
      BY <1>3, <3>1
    <3>. QED
      BY <2>1, <3>2 DEF Serial
  <2>. QED
    BY <2>2, <2>3
<1>. QED
  BY <1>2, <1>3 DEF SerialInv

\* The same for a task that ends, or that goes on to another point of its call.
LEMMA SerialTask ==
  ASSUME TypeOK, SerialInv, NEW p \in Procs, lock = p, lock' = lock,
         NEW x \in RequestType, x.attached, x.op # "bootstrap", x.stage # "bootstrap",
         \/ \E res \in Results : Finish(p, x, res)
         \/ Step(p, x) /\ (x.pc \in {"ffRead", "ffSet"} =>
                             Forward(commits', heads'[Into(x)], x.new))
  PROVE  SerialInv'
<1>1. CASE \E res \in Results : Finish(p, x, res)
  <2>1. PICK res \in Results : Finish(p, x, res)
    BY <1>1
  <2> DEFINE y == [x EXCEPT !.pc = "ret", !.res = res, !.tries = 0]
  <2>2. Step(p, y)
    BY <2>1 DEF Finish
  <2>3. y.pc = "ret" /\ y.attached /\ y.op = x.op /\ y.stage = x.stage
    BY DEF RequestType
  <2>. HIDE DEF y
  <2>. QED
    BY <2>2, <2>3, SerialStep
<1>2. CASE Step(p, x) /\ (x.pc \in {"ffRead", "ffSet"} =>
                             Forward(commits', heads'[Into(x)], x.new))
  BY <1>2, SerialStep
<1>. QED
  BY <1>1, <1>2

\* A request that starts, ends, or queues for the mutex again.
LEMMA SerialQueues ==
  ASSUME TypeOK, SerialInv, NEW p \in Procs, NEW x, Step(p, x), UNCHANGED <<commits, heads>>,
         lock' = lock \/ lock \in {p, NoProc}, x.pc \in {"idle", "lock"},
         x.attached, x.op # "bootstrap", x.stage # "bootstrap"
  PROVE  SerialInv'
BY SerialStep

\* Every task belongs to the holder of the mutex.
LEMMA SerialHolds ==
  ASSUME TypeOK, SerialInv, NEW p \in Procs, req[p].pc \notin {"idle", "lock"}
  PROVE  /\ lock = p /\ req[p] \in RequestType /\ Into(req[p]) \in Branches
         /\ req[p].attached /\ req[p].op # "bootstrap" /\ req[p].stage # "bootstrap"
<1>1. Serial(p) /\ req[p] \in RequestType
  BY DEF SerialInv, TypeOK
<1>2. Into(req[p]) \in Branches
  BY <1>1 DEF Into, RequestType, Branches
<1>. QED
  BY <1>1, <1>2 DEF Serial

\* A step of a task leaves the others idle or waiting, and its own check true.
LEMMA SerialTasks ==
  ASSUME TypeOK, SerialInv, NEW p \in Procs, Task(p)
  PROVE  SerialInv'
<1> DEFINE r == req[p]
<1>1. r.pc \notin {"idle", "lock"}
  BY DEF Task, Ensure, Write, Merge, MergeDbs, ReadBranch, CommitRead, CommitSet, FfRead, FfSet,
         CreateTips, CreateStore, PromoteCheck, PromoteSet, PromoteClean, At
<1>2. /\ lock = p /\ r \in RequestType /\ Into(r) \in Branches
      /\ r.attached /\ r.op # "bootstrap" /\ r.stage # "bootstrap"
  BY <1>1, SerialHolds
<1>3. {"ok", "err", "unchanged", "skipped", "nothing", "conflict"} \subseteq Results
  BY DEF Results
<1>4. ASSUME NEW res \in Results, Finish(p, r, res), lock' = lock PROVE SerialInv'
  BY <1>2, <1>4, SerialTask
<1>5. ASSUME NEW x, x \in RequestType, x.attached = r.attached, x.op = r.op, x.stage = r.stage,
             lock' = lock, Step(p, x), x.pc \notin {"ffRead", "ffSet"}
      PROVE  SerialInv'
  BY <1>2, <1>5, SerialTask
<1>6. \A b \in Branches : Tip(b) \in Nat /\ heads[b] = Tip(b)
  BY DEF Tip, TypeOK, Tips
<1>7. r.client \in Branches /\ Main \in Branches /\ From(r) \in Branches
  BY <1>2 DEF RequestType, Branches, From
<1>21. Len(commits) + 1 \in Nat /\ r.tries + 1 \in Nat
  BY <1>2 DEF TypeOK, RequestType
<1>8. CASE Ensure(p)
  <2> DEFINE x == [r EXCEPT !.pc = "ffRead", !.new = Tip(Main)]
  <2>1. CASE Tip(r.client) # None \/ Tip(Main) = None
    BY <1>3, <1>4, <1>8, <2>1 DEF Ensure, Quiet
  <2>2. CASE ~(Tip(r.client) # None \/ Tip(Main) = None)
    <3>1. /\ x \in RequestType /\ x.attached /\ x.op = r.op /\ x.stage = "ensure"
          /\ x.client = r.client
      BY <1>2, <1>6, <1>7, <1>8 DEF Ensure, At, RequestType, Pcs, WritingTask
    <3>2. Step(p, x) /\ lock' = lock /\ heads' = heads
      BY <1>8, <2>2 DEF Ensure, Quiet, repo
    <3>. HIDE DEF x
    <3>3. Into(x) = r.client
      BY <3>1 DEF Into
    <3>4. Forward(commits', heads'[Into(x)], x.new)
      BY <1>6, <1>7, <2>2, <3>2, <3>3 DEF Forward
    <3>. QED
      BY <1>2, <3>1, <3>2, <3>4, SerialTask
  <2>. QED
    BY <2>1, <2>2
<1>9. CASE Write(p)
  <2> DEFINE x == [r EXCEPT !.pc = "commitRead"]
  <2>1. x \in RequestType /\ x.attached = r.attached /\ x.op = r.op /\ x.stage = r.stage
        /\ x.pc = "commitRead"
    BY <1>2 DEF RequestType, Pcs, WritingTask
  <2>2. Finish(p, r, "unchanged") \/ Step(p, x)
    BY <1>9 DEF Write
  <2>3. lock' = lock
    BY <1>9 DEF Write, Quiet
  <2>. QED
    BY <1>3, <1>4, <1>5, <2>1, <2>2, <2>3
<1>10. CASE Merge(p)
  <2> DEFINE from == Tip(From(r))
             into == Tip(Into(r))
             x == [r EXCEPT !.pc = "ffRead", !.new = from]
             y == [r EXCEPT !.pc = "mergeDbs"]
  <2>1. /\ lock' = lock /\ commits' = commits /\ heads' = heads
        /\ \/ Finish(p, r, "skipped")
           \/ Forward(commits, into, from) /\ Step(p, x)
           \/ Step(p, y)
    BY <1>10 DEF Merge, Quiet, repo
  <2>2. CASE Finish(p, r, "skipped")
    BY <1>3, <1>4, <2>1, <2>2
  <2>3. CASE Forward(commits, into, from) /\ Step(p, x)
    <3>1. /\ x \in RequestType /\ x.attached /\ x.op = r.op /\ x.stage = r.stage
          /\ x.client = r.client /\ x.new = from
      BY <1>2, <1>6, <1>7 DEF RequestType, Pcs, WritingTask
    <3>. HIDE DEF x
    <3>2. Into(x) = Into(r)
      BY <3>1 DEF Into
    <3>3. Forward(commits', heads'[Into(x)], x.new)
      BY <1>2, <1>6, <2>1, <2>3, <3>1, <3>2
    <3>. QED
      BY <1>2, <2>1, <2>3, <3>1, <3>3, SerialTask
  <2>4. CASE Step(p, y)
    <3>1. y \in RequestType /\ y.attached = r.attached /\ y.op = r.op /\ y.stage = r.stage
          /\ y.pc = "mergeDbs"
      BY <1>2 DEF RequestType, Pcs, ReadingTask
    <3>. QED
      BY <1>5, <2>1, <2>4, <3>1
  <2>. QED
    BY <2>1, <2>2, <2>3, <2>4
<1>11. CASE MergeDbs(p)
  <2> DEFINE db == MergeDatabases(Db(Into(r)), Db(From(r)))
             x == [r EXCEPT !.pc = "commitRead", !.db = db]
  <2>1. Step(p, x) /\ lock' = lock
    BY <1>11 DEF MergeDbs, Quiet
  <2>2. x.pc = "commitRead" /\ x.attached = r.attached /\ x.op = r.op /\ x.stage = r.stage
    BY <1>2 DEF RequestType
  <2>. HIDE DEF x
  <2>. QED
    BY <1>2, <2>1, <2>2, SerialStep
<1>12. CASE ReadBranch(p)
  <2>1. /\ Step(p, Idle) /\ UNCHANGED <<commits, heads>>
        /\ Idle.pc = "idle" /\ Idle.attached /\ Idle.op = "none" /\ Idle.stage = "none"
    BY <1>12 DEF ReadBranch, repo, Idle
  <2>. HIDE DEF Idle
  <2>. QED
    BY <1>2, <2>1, SerialQueues
<1>13. CASE CommitRead(p)
  <2> DEFINE x == [r EXCEPT !.pc = "commitSet", !.old = Tip(Into(r)), !.new = Len(commits) + 1]
  <2>1. Step(p, x) /\ lock' = lock
    BY <1>13 DEF CommitRead
  <2>2. x \in RequestType /\ x.attached = r.attached /\ x.op = r.op /\ x.stage = r.stage
        /\ x.pc = "commitSet"
    BY <1>2, <1>6, <1>21 DEF RequestType, Pcs, WritingTask
  <2>. QED
    BY <1>5, <2>1, <2>2
<1>14. CASE CommitSet(p)
  <2> DEFINE x == [r EXCEPT !.pc = "commitRead", !.tries = @ + 1]
  <2>1. lock' = lock /\ (Finish(p, r, "ok") \/ Finish(p, r, "err") \/ Step(p, x))
    BY <1>14 DEF CommitSet, SetRef
  <2>2. x \in RequestType /\ x.attached = r.attached /\ x.op = r.op /\ x.stage = r.stage
        /\ x.pc = "commitRead"
    BY <1>2, <1>21 DEF RequestType, Pcs, WritingTask
  <2>. QED
    BY <1>3, <1>4, <1>5, <2>1, <2>2
<1>15. CASE FfRead(p)
  <2> DEFINE old == Tip(Into(r))
             x == [r EXCEPT !.old = old]
             y == [x EXCEPT !.pc = "ffSet"]
  <2>1. /\ lock' = lock /\ commits' = commits /\ heads' = heads /\ r.pc = "ffRead"
        /\ Finish(p, x, "ok") \/ Step(p, y)
    BY <1>15 DEF FfRead, Quiet, repo
  <2>2. /\ x \in RequestType /\ x.attached /\ x.op = r.op /\ x.stage = r.stage
        /\ y \in RequestType /\ y.attached /\ y.op = r.op /\ y.stage = r.stage
        /\ y.client = r.client /\ y.new = r.new
    BY <1>2, <1>6 DEF RequestType, Pcs, WritingTask
  <2>. HIDE DEF x, y
  <2>3. Into(y) = Into(r)
    BY <2>2 DEF Into
  <2>4. Forward(commits, heads[Into(r)], r.new)
    BY <2>1 DEF SerialInv, Serial
  <2>. QED
    BY <1>2, <1>3, <2>1, <2>2, <2>3, <2>4, SerialTask
<1>16. CASE FfSet(p)
  <2> DEFINE x == [r EXCEPT !.pc = "ffRead", !.tries = @ + 1]
  <2>1. CASE Finish(p, r, "ok") \/ Finish(p, r, "err")
    BY <1>3, <1>4, <1>16, <2>1 DEF FfSet, SetRef
  <2>2. CASE Step(p, x) /\ commits' = commits /\ heads' = heads
    <3>1. /\ x \in RequestType /\ x.attached /\ x.op = r.op /\ x.stage = r.stage
          /\ x.client = r.client /\ x.new = r.new
      BY <1>2, <1>21 DEF RequestType, Pcs, WritingTask
    <3>. HIDE DEF x
    <3>2. Into(x) = Into(r)
      BY <3>1 DEF Into
    <3>3. Forward(commits, heads[Into(r)], r.new) /\ lock' = lock
      BY <1>16 DEF FfSet, SerialInv, Serial, SetRef
    <3>. QED
      BY <1>2, <2>2, <3>1, <3>2, <3>3, SerialTask
  <2>. QED
    BY <1>16, <2>1, <2>2 DEF FfSet, SetRef
<1>17. CASE CreateTips(p)
  <2> DEFINE x == [r EXCEPT !.pc = "createStore", !.new = Tip(Main), !.old = Tip(r.client)]
  <2>1. lock' = lock /\ (Finish(p, r, "nothing") \/ Step(p, x))
    BY <1>17 DEF CreateTips, Quiet
  <2>2. x \in RequestType /\ x.attached = r.attached /\ x.op = r.op /\ x.stage = r.stage
        /\ x.pc = "createStore"
    BY <1>2, <1>6, <1>7 DEF RequestType, Pcs, WritingTask
  <2>. QED
    BY <1>3, <1>4, <1>5, <2>1, <2>2
<1>18. CASE CreateStore(p)
  <2> DEFINE x == [r EXCEPT !.new = Len(commits) + 1]
  <2>1. lock' = lock /\ (Finish(p, r, "ok") \/ Finish(p, x, "ok"))
    BY <1>18 DEF CreateStore
  <2>2. x \in RequestType /\ x.attached /\ x.op = r.op /\ x.stage = r.stage
    BY <1>2, <1>21 DEF RequestType
  <2>. HIDE DEF x
  <2>. QED
    BY <1>2, <1>3, <1>4, <2>1, <2>2, SerialTask
<1>19. CASE PromoteCheck(p)
  <2> DEFINE x == [r EXCEPT !.pc = "promoteSet"]
  <2>1. lock' = lock /\ (Finish(p, r, "err") \/ Finish(p, r, "conflict") \/ Step(p, x))
    BY <1>19 DEF PromoteCheck, Quiet
  <2>2. x \in RequestType /\ x.attached = r.attached /\ x.op = r.op /\ x.stage = r.stage
        /\ x.pc = "promoteSet"
    BY <1>2 DEF RequestType, Pcs, WritingTask
  <2>. QED
    BY <1>3, <1>4, <1>5, <2>1, <2>2
<1>20. CASE PromoteSet(p) \/ PromoteClean(p)
  <2> DEFINE x == [r EXCEPT !.pc = "promoteClean"]
  <2>1. lock' = lock /\ (Finish(p, r, "ok") \/ Finish(p, r, "err") \/ Step(p, x))
    BY <1>20 DEF PromoteSet, PromoteClean
  <2>2. x \in RequestType /\ x.attached = r.attached /\ x.op = r.op /\ x.stage = r.stage
        /\ x.pc = "promoteClean"
    BY <1>2 DEF RequestType, Pcs, WritingTask
  <2>. QED
    BY <1>3, <1>4, <1>5, <2>1, <2>2
<1>. QED
  BY <1>8, <1>9, <1>10, <1>11, <1>12, <1>13, <1>14, <1>15, <1>16, <1>17, <1>18, <1>19, <1>20
     DEF Task

\* So does a step of a handler: it hands the mutex on before anyone else has it.
LEMMA SerialHandlers ==
  ASSUME TypeOK, SerialInv, NEW p \in Procs, Handler(p)
  PROVE  SerialInv'
<1> DEFINE r == req[p]
<1>1. r.pc = "ret"
  BY DEF Handler, EnsureReturns, WriteReturns, PutReturns, GetReturns, CreateReturns,
         PromoteReturns, BootstrapReturns, Returned, At
<1>2. /\ lock = p /\ r \in RequestType
      /\ r.attached /\ r.op # "bootstrap" /\ r.stage # "bootstrap"
  BY <1>1, SerialHolds
<1>3. Idle.pc = "idle" /\ Idle.attached /\ Idle.op = "none" /\ Idle.stage = "none"
  BY DEF Idle
<1>4. UNCHANGED <<commits, heads>>
  BY DEF Handler, EnsureReturns, WriteReturns, PutReturns, GetReturns, CreateReturns,
         PromoteReturns, BootstrapReturns, Quiet, repo
<1>5. ASSUME NEW x, Release(p, x), x.pc \in {"idle", "lock"},
             x.attached, x.op # "bootstrap", x.stage # "bootstrap"
      PROVE  SerialInv'
  BY <1>2, <1>4, <1>5, SerialQueues DEF Release
<1>6. CASE EnsureReturns(p)
  <2> DEFINE next(stage) == [r EXCEPT !.stage = stage, !.pc = "lock", !.old = None,
                                      !.new = None, !.res = "none"]
  <2>1. ASSUME NEW stage \in {"merge", "write"}
        PROVE  next(stage).pc = "lock" /\ next(stage).attached /\ next(stage).op = r.op
               /\ next(stage).stage = stage
    BY <1>2 DEF RequestType
  <2>2. PICK x \in {next("merge"), next("write"), Idle} : Release(p, x)
    BY <1>6 DEF EnsureReturns
  <2>. HIDE DEF next
  <2>3. x.pc \in {"idle", "lock"} /\ x.attached /\ x.op # "bootstrap" /\ x.stage # "bootstrap"
    BY <1>2, <1>3, <2>1, <2>2
  <2>. QED
    BY <1>5, <2>2, <2>3
<1>7. CASE WriteReturns(p)
  <2> DEFINE x == [r EXCEPT !.stage = "merge", !.pc = "merge", !.wrote = r.new,
                            !.old = None, !.new = None, !.res = "none"]
  <2>1. Release(p, Idle) \/ (Step(p, x) /\ lock' = lock)
    BY <1>7 DEF WriteReturns
  <2>2. x.pc = "merge" /\ x.attached /\ x.op = r.op /\ x.stage = "merge"
    BY <1>2 DEF RequestType
  <2>. HIDE DEF x
  <2>. QED
    BY <1>2, <1>3, <1>4, <1>5, <2>1, <2>2, SerialStep
<1>8. CASE GetReturns(p)
  <2> DEFINE x == [Request("get", "read", r.client) EXCEPT !.pc = "lock"]
  <2>1. x.pc = "lock" /\ x.attached /\ x.op = "get" /\ x.stage = "read"
    BY DEF Request, Idle
  <2>2. Release(p, x)
    BY <1>8 DEF GetReturns
  <2>. HIDE DEF x
  <2>. QED
    BY <1>5, <2>1, <2>2
<1>9. CASE PutReturns(p) \/ CreateReturns(p) \/ PromoteReturns(p)
  BY <1>3, <1>5, <1>9 DEF PutReturns, CreateReturns, PromoteReturns
<1>10. CASE BootstrapReturns(p)
  BY <1>2, <1>10 DEF BootstrapReturns, Returned, At
<1>. QED
  BY <1>6, <1>7, <1>8, <1>9, <1>10 DEF Handler

\* Every step keeps the store calls serial.
LEMMA SerialNext ==
  ASSUME TypeOK, SerialInv, Bypass = {}, [Next]_vars
  PROVE  SerialInv'
<1>1. CASE UNCHANGED vars \/ Rest
  BY <1>1 DEF Rest, vars, SerialInv, Serial, Into
<1>2. CASE Crash
  <2>1. \A p \in Procs : req'[p] = Idle
    BY <1>2 DEF Crash, SerialInv, Serial
  <2>. QED
    BY <2>1 DEF SerialInv, Serial, Idle
<1>3. ASSUME NEW p \in Procs, Start(p) PROVE SerialInv'
  <2>1. ASSUME NEW x, Open(p, x), x.pc = "lock", x.attached, x.op # "bootstrap",
               x.stage # "bootstrap"
        PROVE  SerialInv'
    BY <2>1, SerialQueues DEF Open, repo
  <2>2. ASSUME NEW op \in {"get", "put", "probe", "create", "promote"}, NEW c,
               NEW stage \in {"ensure", "create", "promote"}, NEW db, NEW new, NEW old
        PROVE  LET x == Request(op, stage, c)
                   y == [x EXCEPT !.db = db]
                   z == [x EXCEPT !.new = new, !.old = old]
               IN /\ x.pc = "lock" /\ x.attached /\ x.op = op /\ x.stage = stage
                  /\ y.pc = "lock" /\ y.attached /\ y.op = op /\ y.stage = stage
                  /\ z.pc = "lock" /\ z.attached /\ z.op = op /\ z.stage = stage
    BY DEF Request, Idle
  <2>3. CASE \E c \in Clients : StartGet(p, c) \/ StartProbe(p, c) \/ StartCreate(p, c)
    BY <2>1, <2>2, <2>3 DEF StartGet, StartProbe, StartCreate
  <2>4. CASE \E c \in Clients, db \in Databases : StartPut(p, c, db)
    <3>1. PICK c \in Clients, db \in Databases : StartPut(p, c, db)
      BY <2>4
    <3> DEFINE x == [Request("put", "ensure", c) EXCEPT !.db = db]
    <3>2. Open(p, x)
      BY <3>1 DEF StartPut
    <3>3. x.pc = "lock" /\ x.attached /\ x.op = "put" /\ x.stage = "ensure"
      BY <2>2
    <3>. HIDE DEF x
    <3>. QED
      BY <2>1, <3>2, <3>3
  <2>5. CASE \E o \in offers : StartPromote(p, o)
    <3>1. PICK o \in offers : StartPromote(p, o)
      BY <2>5
    <3> DEFINE x == [Request("promote", "promote", o.client)
                       EXCEPT !.new = o.commit, !.old = o.expected]
    <3>2. Open(p, x)
      BY <3>1 DEF StartPromote
    <3>3. x.pc = "lock" /\ x.attached /\ x.op = "promote" /\ x.stage = "promote"
      BY <2>2
    <3>. HIDE DEF x
    <3>. QED
      BY <2>1, <3>2, <3>3
  <2>. QED
    BY <1>3, <2>3, <2>4, <2>5 DEF Start, StartBootstrap
<1>4. ASSUME NEW p \in Procs, Acquire(p) PROVE SerialInv'
  <2> DEFINE x == [req[p] EXCEPT !.pc = req[p].stage]
  <2>1. /\ Step(p, x) /\ lock' = p /\ lock = NoProc /\ UNCHANGED <<commits, heads>>
        /\ req[p] \in RequestType /\ Serial(p)
        /\ req[p].stage \in {"ensure", "write", "merge", "read", "create", "promote"}
    BY <1>4 DEF Acquire, repo, TypeOK, RequestOK, SerialInv
  <2>2. x.pc = req[p].stage /\ x.attached = req[p].attached /\ x.op = req[p].op
        /\ x.stage = req[p].stage
    BY <2>1 DEF RequestType
  <2>. HIDE DEF x
  <2>. QED
    BY <2>1, <2>2, SerialStep DEF Serial
<1>5. ASSUME NEW p \in Procs, TaskFails(p) PROVE SerialInv'
  <2>1. req[p].pc \notin {"idle", "lock"} /\ Finish(p, req[p], "err") /\ lock' = lock
    BY <1>5 DEF TaskFails, WritingTask, ReadingTask
  <2>2. "err" \in Results
    BY DEF Results
  <2>. QED
    BY <2>1, <2>2, SerialHolds, SerialTask
<1>6. ASSUME NEW p \in Procs, HangUp(p) PROVE SerialInv'
  <2>1. Release(p, Idle) /\ UNCHANGED <<commits, heads>>
    BY <1>6 DEF HangUp, repo
  <2>2. Idle.pc = "idle" /\ Idle.attached /\ Idle.op = "none" /\ Idle.stage = "none"
    BY DEF Idle
  <2>. QED
    BY <2>1, <2>2, SerialQueues DEF Release
<1>. QED
  BY <1>1, <1>2, <1>3, <1>4, <1>5, <1>6, SerialTasks, SerialHandlers DEF Next

\* With the mutex and no bypass only the holder runs a store call, and what it
\* found out about a branch before a fast-forward still holds when it moves it.
THEOREM Serialized == ASSUME Bypass = {} PROVE Spec => []SerialInv
<1>1. Init => SerialInv
  BY DEF Init, SerialInv, Serial, Idle
<1>2. TypeOK /\ SerialInv /\ [Next]_vars => SerialInv'
  BY SerialNext
<1>. QED
  BY <1>1, <1>2, TypeCorrect, PTL DEF Spec

\* While they are serial, a step only moves branches forward.
LEMMA AdvanceStep ==
  ASSUME TypeOK, OffersAreForward, SerialInv, [Next]_vars, NEW b \in Branches
  PROVE  Forward(commits', heads[b], heads'[b])
<1>1. ASSUME NEW p \in Procs, FfSet(p), Into(req[p]) = b
      PROVE  Forward(commits', heads[b], heads'[b])
  <2>1. Forward(commits, heads[b], req[p].new) /\ commits' = commits
    BY <1>1 DEF FfSet, SerialInv, Serial, SetRef
  <2>2. heads'[b] = req[p].new \/ heads' = heads
    BY <1>1 DEF FfSet, SetRef, TypeOK
  <2>. QED
    BY <2>1, <2>2, ForwardStays DEF TypeOK
<1>. QED
  BY <1>1, RewindStep

\* Then no branch ever loses history: all the writers of store.rs, with the
\* re-reading fast_forward_branch among them, only move refs forward.
THEOREM NoHistoryLost == ASSUME Bypass = {} PROVE Spec => HeadsOnlyAdvance
<1>1. TypeOK /\ OffersAreForward /\ SerialInv /\ [Next]_vars =>
        [\A b \in Branches : Forward(commits', heads[b], heads'[b])]_vars
  BY AdvanceStep
<1>. QED
  BY <1>1, TypeCorrect, OffersForward, Serialized, PTL DEF Spec, HeadsOnlyAdvance

--------------------------------------------------------------------------------
(* What the holder of the mutex has read still holds, until it is done.    *)

\* The database db has every edit of the branch that r merges from.
Covers(cs, hs, r, db) == cs[hs[From(r)]].db.entries \subseteq db.entries

\* The branch that r merges into has them all.
Merged(cs, hs, r) ==
  /\ hs[From(r)] # None /\ hs[Into(r)] # None
  /\ Covers(cs, hs, r, cs[hs[Into(r)]].db)

\* What a request knows of the refs at each point of its task.
Knows(cs, hs, tm, r) ==
  /\ r.pc = "createStore" => hs[r.client] = r.old
  /\ r.pc \in {"promoteSet", "promoteClean"} => tm[r.client] = r.new
  /\ r.pc = "promoteClean" => hs[r.client] = r.new
  /\ r.stage = "merge" =>
       /\ r.pc \in {"ffRead", "ffSet"} => r.new = hs[From(r)]
       /\ r.pc \in {"commitRead", "commitSet"} => hs[From(r)] # None /\ Covers(cs, hs, r, r.db)
       /\ r.pc = "commitSet" => cs[r.new].db = r.db
       /\ r.pc = "ret" /\ r.res = "ok" => Merged(cs, hs, r)

KnowsInv == \A p \in Procs : Knows(commits, heads, temp, req[p])

\* Where a request rests or a call begins, it has read nothing yet.
Fresh == {"idle", "lock", "ensure", "write", "merge", "mergeDbs", "read", "create", "promote"}

\* There it claims nothing, whatever the repository is.
LEMMA FreshKnows ==
  ASSUME NEW cs, NEW hs, NEW tm, NEW r, r.pc \in Fresh
  PROVE  Knows(cs, hs, tm, r)
BY DEF Knows, Fresh

\* Only the holder changes the repository, and what the others wait for to know
\* they read when they hold the mutex.
LEMMA KnowsStep ==
  ASSUME TypeOK, SerialInv, KnowsInv, NEW p \in Procs, NEW x, Step(p, x),
         UNCHANGED repo \/ lock = p, Knows(commits', heads', temp', x)
  PROVE  KnowsInv'
<1>1. \A q \in Procs : req'[q] = IF q = p THEN x ELSE req[q]
  BY DEF Step, TypeOK
<1>2. ASSUME NEW q \in Procs PROVE Knows(commits', heads', temp', req'[q])
  <2>1. CASE q = p
    BY <1>1, <2>1
  <2>2. CASE q # p /\ req[q].pc \in Fresh
    BY <1>1, <2>2, FreshKnows
  <2>3. CASE q # p /\ req[q].pc \notin Fresh
    <3>1. lock = q
      BY <2>3 DEF SerialInv, Serial, Fresh
    <3>2. UNCHANGED <<commits, heads, temp>> /\ req'[q] = req[q]
      BY <1>1, <2>3, <3>1 DEF repo
    <3>. QED
      BY <3>2 DEF KnowsInv
  <2>. QED
    BY <2>1, <2>2, <2>3
<1>. QED
  BY <1>2 DEF KnowsInv

\* A task that ends has merged, if that is what it reports.
LEMMA KnowsEnd ==
  ASSUME TypeOK, SerialInv, KnowsInv, NEW p \in Procs, NEW x \in RequestType, x.attached,
         NEW res \in Results, Finish(p, x, res), UNCHANGED repo \/ lock = p,
         x.stage = "merge" /\ res = "ok" => Merged(commits', heads', x)
  PROVE  KnowsInv'
<1> DEFINE y == [x EXCEPT !.pc = "ret", !.res = res, !.tries = 0]
<1>1. Step(p, y)
  BY DEF Finish
<1>2. /\ y.pc = "ret" /\ y.res = res /\ y.stage = x.stage /\ y.op = x.op
      /\ y.client = x.client
  BY DEF RequestType
<1>. HIDE DEF y
<1>3. From(y) = From(x) /\ Into(y) = Into(x)
  BY <1>2 DEF From, Into
<1>4. Knows(commits', heads', temp', y)
  BY <1>2, <1>3 DEF Knows, Merged, Covers
<1>. QED
  BY <1>1, <1>4, KnowsStep

\* Handlers, arrivals, the mutex and hang-ups leave the repository alone, and a
\* request at a point where it has read nothing.
LEMMA Restarts ==
  ASSUME TypeOK, SerialInv, Bypass = {}, NEW p \in Procs,
         Start(p) \/ Acquire(p) \/ Handler(p) \/ HangUp(p)
  PROVE  UNCHANGED repo /\ \E x : Step(p, x) /\ x.pc \in Fresh
<1> DEFINE r == req[p]
<1>1. r \in RequestType /\ RequestOK(commits, heads, offers, r) /\ Serial(p)
  BY DEF TypeOK, SerialInv
<1>2. Idle.pc \in Fresh
  BY DEF Idle, Fresh
<1>3. CASE Start(p)
  <2>1. ASSUME NEW x, Open(p, x), x.pc \in Fresh
        PROVE  UNCHANGED repo /\ \E y : Step(p, y) /\ y.pc \in Fresh
    BY <2>1 DEF Open
  <2>2. CASE \E c \in Clients : StartGet(p, c) \/ StartProbe(p, c) \/ StartCreate(p, c)
    <3>1. \A op, stage, c : Request(op, stage, c).pc \in Fresh
      BY DEF Request, Idle, Fresh
    <3>. QED
      BY <2>1, <2>2, <3>1 DEF StartGet, StartProbe, StartCreate
  <2>3. CASE \E c \in Clients, db \in Databases : StartPut(p, c, db)
    <3>1. PICK c \in Clients, db \in Databases : StartPut(p, c, db)
      BY <2>3
    <3> DEFINE x == [Request("put", "ensure", c) EXCEPT !.db = db]
    <3>2. Open(p, x) /\ x.pc \in Fresh
      BY <3>1 DEF StartPut, Request, Idle, Fresh
    <3>. HIDE DEF x
    <3>. QED
      BY <2>1, <3>2
  <2>4. CASE \E o \in offers : StartPromote(p, o)
    <3>1. PICK o \in offers : StartPromote(p, o)
      BY <2>4
    <3> DEFINE x == [Request("promote", "promote", o.client)
                       EXCEPT !.new = o.commit, !.old = o.expected]
    <3>2. Open(p, x) /\ x.pc \in Fresh
      BY <3>1 DEF StartPromote, Request, Idle, Fresh
    <3>. HIDE DEF x
    <3>. QED
      BY <2>1, <3>2
  <2>. QED
    BY <1>3, <2>2, <2>3, <2>4 DEF Start, StartBootstrap
<1>4. CASE Acquire(p)
  <2> DEFINE x == [r EXCEPT !.pc = r.stage]
  <2>1. Step(p, x) /\ UNCHANGED repo /\ r.pc = "lock"
    BY <1>4 DEF Acquire
  <2>2. x.pc = r.stage
    BY <1>1 DEF RequestType
  <2>. HIDE DEF x
  <2>3. x.pc \in Fresh
    BY <1>1, <2>1, <2>2 DEF RequestOK, Fresh
  <2>. QED
    BY <2>1, <2>3
<1>5. CASE HangUp(p)
  <2>1. Step(p, Idle) /\ UNCHANGED repo
    BY <1>5 DEF HangUp, Release
  <2>. QED
    BY <1>2, <2>1
<1>6. CASE Handler(p)
  <2> DEFINE next(stage) == [r EXCEPT !.stage = stage, !.pc = "lock", !.old = None,
                                      !.new = None, !.res = "none"]
             merging == [r EXCEPT !.stage = "merge", !.pc = "merge", !.wrote = r.new,
                                  !.old = None, !.new = None, !.res = "none"]
             reading == [Request("get", "read", r.client) EXCEPT !.pc = "lock"]
  <2>1. UNCHANGED repo
    BY <1>6 DEF Handler, EnsureReturns, WriteReturns, PutReturns, GetReturns, CreateReturns,
                PromoteReturns, BootstrapReturns, Quiet
  <2>2. \E x \in {next("merge"), next("write"), merging, reading, Idle} : Step(p, x)
    BY <1>6 DEF Handler, EnsureReturns, WriteReturns, PutReturns, GetReturns, CreateReturns,
                PromoteReturns, BootstrapReturns, Release
  <2>3. /\ next("merge").pc = "lock" /\ next("write").pc = "lock" /\ merging.pc = "merge"
        /\ reading.pc = "lock"
    BY <1>1 DEF RequestType, Request, Idle
  <2>. HIDE DEF next, merging, reading
  <2>4. \A x \in {next("merge"), next("write"), merging, reading, Idle} : x.pc \in Fresh
    BY <1>2, <2>3 DEF Fresh
  <2>. QED
    BY <2>1, <2>2, <2>4
<1>. QED
  BY <1>3, <1>4, <1>5, <1>6

\* What the holder reads in one part of its task holds in the next.
LEMMA KnowsTasks ==
  ASSUME TypeOK, TypeOK', SerialInv, KnowsInv, NEW p \in Procs, Task(p)
  PROVE  KnowsInv'
<1> DEFINE r == req[p]
<1>1. r.pc \notin {"idle", "lock"}
  BY DEF Task, Ensure, Write, Merge, MergeDbs, ReadBranch, CommitRead, CommitSet, FfRead, FfSet,
         CreateTips, CreateStore, PromoteCheck, PromoteSet, PromoteClean, At
<1>2. /\ lock = p /\ r \in RequestType /\ Into(r) \in Branches /\ r.attached
      /\ Knows(commits, heads, temp, r) /\ RequestOK(commits, heads, offers, r)
      /\ r.client \in Branches /\ From(r) \in Branches
  BY <1>1, SerialHolds DEF KnowsInv, TypeOK, RequestType, Branches, From
<1>3. {"ok", "err", "unchanged", "skipped", "nothing", "conflict"} \subseteq Results
  BY DEF Results
<1>4. r.stage = "merge" => From(r) # Into(r)
  BY <1>2, MainIsNoClient DEF RequestOK, From, Into
<1>5. \A b \in Branches : heads[b] = Tip(b) /\ (Tip(b) # None => Tip(b) \in Ids(commits))
  BY DEF Tip, TypeOK, Tips, Ids, None
<1>22. Len(commits) + 1 \in Nat /\ \A b \in Branches : Tip(b) \in Nat
  BY DEF Tip, TypeOK, Tips
<1>6. ASSUME NEW res \in Results, Finish(p, r, res),
             r.stage = "merge" /\ res = "ok" => Merged(commits', heads', r)
      PROVE  KnowsInv'
  BY <1>2, <1>6, KnowsEnd
<1>7. ASSUME NEW x, Step(p, x), Knows(commits', heads', temp', x)
      PROVE  KnowsInv'
  BY <1>2, <1>7, KnowsStep
<1>8. CASE Ensure(p)
  <2> DEFINE x == [r EXCEPT !.pc = "ffRead", !.new = Tip(Main)]
  <2>1. (Finish(p, r, "ok") \/ Step(p, x)) /\ r.stage = "ensure"
    BY <1>8 DEF Ensure, At
  <2>2. x.pc = "ffRead" /\ x.stage = r.stage
    BY <1>2 DEF RequestType
  <2>. HIDE DEF x
  <2>3. Knows(commits', heads', temp', x)
    BY <2>1, <2>2 DEF Knows
  <2>. QED
    BY <1>3, <1>6, <1>7, <2>1, <2>3
<1>9. CASE Write(p)
  <2> DEFINE x == [r EXCEPT !.pc = "commitRead"]
  <2>1. (Finish(p, r, "unchanged") \/ Step(p, x)) /\ r.stage = "write"
    BY <1>9 DEF Write, At
  <2>2. x.pc = "commitRead" /\ x.stage = r.stage
    BY <1>2 DEF RequestType
  <2>. HIDE DEF x
  <2>3. Knows(commits', heads', temp', x)
    BY <2>1, <2>2 DEF Knows
  <2>. QED
    BY <1>3, <1>6, <1>7, <2>1, <2>3
<1>10. CASE Merge(p)
  <2> DEFINE x == [r EXCEPT !.pc = "ffRead", !.new = Tip(From(r))]
             y == [r EXCEPT !.pc = "mergeDbs"]
  <2>1. (Finish(p, r, "skipped") \/ Step(p, x) \/ Step(p, y)) /\ UNCHANGED repo
    BY <1>10 DEF Merge, Quiet
  <2>2. /\ x.pc = "ffRead" /\ x.new = Tip(From(r)) /\ x.op = r.op /\ x.client = r.client
        /\ y.pc = "mergeDbs"
    BY <1>2 DEF RequestType
  <2>. HIDE DEF x, y
  <2>3. Knows(commits', heads', temp', x)
    BY <2>1, <2>2 DEF Knows, From, Tip, repo
  <2>4. Knows(commits', heads', temp', y)
    BY <2>2, FreshKnows DEF Fresh
  <2>. QED
    BY <1>3, <1>6, <1>7, <2>1, <2>3, <2>4
<1>11. CASE MergeDbs(p)
  <2> DEFINE db == MergeDatabases(Db(Into(r)), Db(From(r)))
             x == [r EXCEPT !.pc = "commitRead", !.db = db]
  <2>1. Step(p, x) /\ UNCHANGED <<commits, heads, temp>> /\ heads[From(r)] # None
    BY <1>2, <1>11 DEF MergeDbs, Quiet, repo, RequestOK, At
  <2>2. /\ x.pc = "commitRead" /\ x.db = db /\ x.op = r.op /\ x.client = r.client
        /\ x.stage = r.stage
    BY <1>2 DEF RequestType
  <2>3. Db(From(r)).entries \subseteq db.entries
    BY DEF MergeDatabases
  <2>. HIDE DEF x, db
  <2>4. From(x) = From(r)
    BY <2>2 DEF From
  <2>5. Knows(commits', heads', temp', x)
    BY <2>1, <2>2, <2>3, <2>4 DEF Knows, Covers, Db
  <2>. QED
    BY <1>7, <2>1, <2>5
<1>12. CASE ReadBranch(p)
  <2>1. Step(p, Idle) /\ Idle.pc \in Fresh
    BY <1>12 DEF ReadBranch, Idle, Fresh
  <2>. QED
    BY <1>7, <2>1, FreshKnows
<1>13. CASE CommitRead(p)
  <2> DEFINE n == Len(commits) + 1
             x == [r EXCEPT !.pc = "commitSet", !.old = Tip(Into(r)), !.new = n]
  <2>1. Step(p, x) /\ UNCHANGED heads /\ r.pc = "commitRead"
    BY <1>13 DEF CommitRead
  <2>2. \E c : c.db = r.db /\ commits' = Append(commits, c)
    BY <1>13 DEF CommitRead, AddCommit
  <2>3. commits'[n].db = r.db /\ \A i \in Ids(commits) : commits'[i] = commits[i]
    BY <2>2 DEF TypeOK, Ids
  <2>4. /\ x.pc = "commitSet" /\ x.new = n /\ x.op = r.op /\ x.client = r.client
        /\ x.stage = r.stage /\ x.db = r.db
    BY <1>2 DEF RequestType
  <2>. HIDE DEF x, n
  <2>5. From(x) = From(r)
    BY <2>4 DEF From
  <2>6. ASSUME r.stage = "merge"
        PROVE  heads[From(r)] # None /\ Covers(commits', heads', x, x.db)
    <3>1. heads[From(r)] # None /\ Covers(commits, heads, r, r.db)
      BY <1>2, <2>1, <2>6 DEF Knows
    <3>. QED
      BY <1>2, <1>5, <2>1, <2>3, <2>4, <2>5, <3>1 DEF Covers
  <2>7. Knows(commits', heads', temp', x)
    BY <2>1, <2>3, <2>4, <2>5, <2>6 DEF Knows
  <2>. QED
    BY <1>7, <2>1, <2>7
<1>14. CASE CommitSet(p)
  <2> DEFINE x == [r EXCEPT !.pc = "commitRead", !.tries = @ + 1]
  <2>1. /\ UNCHANGED <<commits, temp>> /\ r.pc = "commitSet"
        /\ \/ heads' = [heads EXCEPT ![Into(r)] = r.new] /\ Finish(p, r, "ok")
           \/ UNCHANGED heads /\ Finish(p, r, "err")
           \/ UNCHANGED heads /\ Step(p, x)
    BY <1>14 DEF CommitSet, SetRef
  <2>2. /\ x.pc = "commitRead" /\ x.op = r.op /\ x.client = r.client
        /\ x.stage = r.stage /\ x.db = r.db
    BY <1>2 DEF RequestType
  <2>. HIDE DEF x
  <2>3. CASE UNCHANGED heads /\ Step(p, x)
    <3>1. From(x) = From(r)
      BY <2>2 DEF From
    <3>2. Knows(commits', heads', temp', x)
      BY <1>2, <2>1, <2>2, <2>3, <3>1 DEF Knows, Covers
    <3>. QED
      BY <1>7, <2>3, <3>2
  <2>4. CASE heads' = [heads EXCEPT ![Into(r)] = r.new] /\ Finish(p, r, "ok")
    <3>1. ASSUME r.stage = "merge" PROVE Merged(commits', heads', r)
      <4>1. /\ heads[From(r)] # None /\ Covers(commits, heads, r, r.db)
            /\ commits[r.new].db = r.db /\ r.new # None
        BY <1>2, <2>1, <3>1 DEF Knows, RequestOK, Ids, None
      <4>2. heads'[Into(r)] = r.new /\ heads'[From(r)] = heads[From(r)]
        BY <1>2, <1>4, <2>4, <3>1 DEF TypeOK
      <4>. QED
        BY <2>1, <4>1, <4>2 DEF Merged, Covers
    <3>. QED
      BY <1>3, <1>6, <2>4, <3>1
  <2>. QED
    BY <1>3, <1>6, <2>1, <2>3, <2>4
<1>15. CASE FfRead(p)
  <2> DEFINE x == [r EXCEPT !.old = Tip(Into(r))]
             y == [x EXCEPT !.pc = "ffSet"]
  <2>1. /\ UNCHANGED <<commits, heads, temp>> /\ r.pc = "ffRead"
        /\ \/ x.old = x.new /\ Finish(p, x, "ok")
           \/ Step(p, y)
    BY <1>15 DEF FfRead, Quiet, repo
  <2>2. /\ x \in RequestType /\ x.attached /\ x.old = Tip(Into(r)) /\ x.new = r.new
        /\ x.op = r.op /\ x.client = r.client /\ x.stage = r.stage
        /\ y.pc = "ffSet" /\ y.op = r.op /\ y.client = r.client /\ y.stage = r.stage
        /\ y.new = r.new
    BY <1>2, <1>22 DEF RequestType
  <2>. HIDE DEF x, y
  <2>3. From(x) = From(r) /\ Into(x) = Into(r) /\ From(y) = From(r)
    BY <2>2 DEF From, Into
  <2>4. Knows(commits', heads', temp', y)
    BY <1>2, <2>1, <2>2, <2>3 DEF Knows
  <2>5. ASSUME x.old = x.new, r.stage = "merge" PROVE Merged(commits', heads', x)
    <3>1. r.new = heads[From(r)] /\ r.new # None
      BY <1>2, <2>1, <2>2, <2>5 DEF Knows, RequestOK, Ids, None
    <3>2. heads[Into(r)] = r.new
      BY <1>2, <1>5, <2>2, <2>5
    <3>. QED
      BY <2>1, <2>3, <3>1, <3>2 DEF Merged, Covers
  <2>. QED
    BY <1>2, <1>3, <1>7, <2>1, <2>2, <2>4, <2>5, KnowsEnd
<1>16. CASE FfSet(p)
  <2> DEFINE x == [r EXCEPT !.pc = "ffRead", !.tries = @ + 1]
  <2>1. /\ UNCHANGED <<commits, temp>> /\ r.pc = "ffSet"
        /\ \/ heads' = [heads EXCEPT ![Into(r)] = r.new] /\ Finish(p, r, "ok")
           \/ UNCHANGED heads /\ Finish(p, r, "err")
           \/ UNCHANGED heads /\ Step(p, x)
    BY <1>16 DEF FfSet, SetRef
  <2>2. /\ x.pc = "ffRead" /\ x.op = r.op /\ x.client = r.client
        /\ x.stage = r.stage /\ x.new = r.new
    BY <1>2 DEF RequestType
  <2>. HIDE DEF x
  <2>3. CASE UNCHANGED heads /\ Step(p, x)
    <3>1. From(x) = From(r)
      BY <2>2 DEF From
    <3>2. Knows(commits', heads', temp', x)
      BY <1>2, <2>1, <2>2, <2>3, <3>1 DEF Knows
    <3>. QED
      BY <1>7, <2>3, <3>2
  <2>4. CASE heads' = [heads EXCEPT ![Into(r)] = r.new] /\ Finish(p, r, "ok")
    <3>1. ASSUME r.stage = "merge" PROVE Merged(commits', heads', r)
      <4>1. r.new = heads[From(r)] /\ r.new # None
        BY <1>2, <2>1, <3>1 DEF Knows, RequestOK, Ids, None
      <4>2. heads'[Into(r)] = r.new /\ heads'[From(r)] = heads[From(r)]
        BY <1>2, <1>4, <2>4, <3>1 DEF TypeOK
      <4>. QED
        BY <4>1, <4>2 DEF Merged, Covers
    <3>. QED
      BY <1>3, <1>6, <2>4, <3>1
  <2>. QED
    BY <1>3, <1>6, <2>1, <2>3, <2>4
<1>17. CASE CreateTips(p)
  <2> DEFINE x == [r EXCEPT !.pc = "createStore", !.new = Tip(Main), !.old = Tip(r.client)]
  <2>1. /\ UNCHANGED heads /\ r.stage = "create"
        /\ Finish(p, r, "nothing") \/ Step(p, x)
    BY <1>17 DEF CreateTips, Quiet, repo, At
  <2>2. /\ x.pc = "createStore" /\ x.stage = r.stage /\ x.client = r.client
        /\ x.old = Tip(r.client)
    BY <1>2 DEF RequestType
  <2>. HIDE DEF x
  <2>3. Knows(commits', heads', temp', x)
    BY <2>1, <2>2 DEF Knows, Tip
  <2>. QED
    BY <1>3, <1>6, <1>7, <2>1, <2>3
<1>18. CASE CreateStore(p)
  <2> DEFINE x == [r EXCEPT !.new = Len(commits) + 1]
  <2>1. (Finish(p, r, "ok") \/ Finish(p, x, "ok")) /\ r.stage = "create"
    BY <1>18 DEF CreateStore, At
  <2>2. x \in RequestType /\ x.attached /\ x.stage = r.stage
    BY <1>2, <1>22 DEF RequestType
  <2>. HIDE DEF x
  <2>. QED
    BY <1>2, <1>3, <1>6, <2>1, <2>2, KnowsEnd
<1>19. CASE PromoteCheck(p)
  <2> DEFINE x == [r EXCEPT !.pc = "promoteSet"]
  <2>1. /\ UNCHANGED temp /\ r.stage = "promote"
        /\ \/ Finish(p, r, "err") \/ Finish(p, r, "conflict")
           \/ temp[r.client] = r.new /\ Step(p, x)
    BY <1>19 DEF PromoteCheck, Quiet, repo, At
  <2>2. x.pc = "promoteSet" /\ x.stage = r.stage /\ x.client = r.client /\ x.new = r.new
    BY <1>2 DEF RequestType
  <2>. HIDE DEF x
  <2>3. temp[r.client] = r.new => Knows(commits', heads', temp', x)
    BY <2>1, <2>2 DEF Knows
  <2>. QED
    BY <1>3, <1>6, <1>7, <2>1, <2>3
<1>20. CASE PromoteSet(p)
  <2> DEFINE x == [r EXCEPT !.pc = "promoteClean"]
  <2>1. /\ UNCHANGED temp /\ r.stage = "promote" /\ r.pc = "promoteSet"
        /\ \/ Finish(p, r, "err")
           \/ heads' = [heads EXCEPT ![r.client] = r.new] /\ Step(p, x)
    BY <1>20 DEF PromoteSet, At
  <2>2. x.pc = "promoteClean" /\ x.stage = r.stage /\ x.client = r.client /\ x.new = r.new
    BY <1>2 DEF RequestType
  <2>. HIDE DEF x
  <2>3. ASSUME heads' = [heads EXCEPT ![r.client] = r.new] PROVE Knows(commits', heads', temp', x)
    <3>1. heads'[r.client] = r.new /\ temp[r.client] = r.new
      BY <1>2, <2>1, <2>3 DEF TypeOK, Knows
    <3>. QED
      BY <2>1, <2>2, <3>1 DEF Knows
  <2>. QED
    BY <1>3, <1>6, <1>7, <2>1, <2>3
<1>21. CASE PromoteClean(p)
  BY <1>3, <1>6, <1>21 DEF PromoteClean, At
<1>. QED
  BY <1>8, <1>9, <1>10, <1>11, <1>12, <1>13, <1>14, <1>15, <1>16, <1>17, <1>18, <1>19, <1>20,
     <1>21
     DEF Task

\* So it does in every step.
LEMMA KnowsNext ==
  ASSUME TypeOK, TypeOK', SerialInv, Bypass = {}, KnowsInv, [Next]_vars
  PROVE  KnowsInv'
<1>1. CASE UNCHANGED vars \/ Rest
  BY <1>1 DEF vars, Rest, KnowsInv
<1>2. CASE Crash
  <2>1. \A p \in Procs : req'[p] = Idle
    BY <1>2 DEF Crash, SerialInv, Serial
  <2>2. Idle.pc \in Fresh
    BY DEF Idle, Fresh
  <2>. QED
    BY <2>1, <2>2, FreshKnows DEF KnowsInv
<1>3. ASSUME NEW p \in Procs, Start(p) \/ Acquire(p) \/ Handler(p) \/ HangUp(p) PROVE KnowsInv'
  <2>1. PICK x : Step(p, x) /\ x.pc \in Fresh /\ UNCHANGED repo
    BY <1>3, Restarts
  <2>. QED
    BY <2>1, FreshKnows, KnowsStep
<1>4. ASSUME NEW p \in Procs, TaskFails(p) PROVE KnowsInv'
  <2>1. Finish(p, req[p], "err") /\ UNCHANGED repo /\ req[p].pc \notin {"idle", "lock"}
    BY <1>4 DEF TaskFails, WritingTask, ReadingTask
  <2>2. "err" \in Results /\ req[p] \in RequestType /\ req[p].attached
    BY <2>1, SerialHolds DEF Results
  <2>. QED
    BY <2>1, <2>2, KnowsEnd
<1>. QED
  BY <1>1, <1>2, <1>3, <1>4, KnowsTasks DEF Next

\* While nobody bypasses the mutex, what a store call read of the refs, and what
\* it is about to report of its merge, is still so when it acts on it.
THEOREM Informed == ASSUME Bypass = {} PROVE Spec => []KnowsInv
<1>1. Init => KnowsInv
  <2>1. Idle.pc \in Fresh
    BY DEF Idle, Fresh
  <2>. QED
    BY <2>1, FreshKnows DEF Init, KnowsInv
<1>2. TypeOK /\ TypeOK' /\ SerialInv /\ KnowsInv /\ [Next]_vars => KnowsInv'
  BY KnowsNext
<1>. QED
  BY <1>1, <1>2, TypeCorrect, Serialized, PTL DEF Spec

\* When merge_branch_into reports success, the branch that it merged into holds
\* every edit of the one that it merged from, by fast-forward or by a new commit.
THEOREM MergeComplete == ASSUME Bypass = {} PROVE Spec => []MergedHoldsBoth
<1>1. KnowsInv => MergedHoldsBoth
  BY DEF KnowsInv, Knows, Merged, Covers, MergedHoldsBoth, Returned, At, Db
<1>. QED
  BY <1>1, Informed, PTL

--------------------------------------------------------------------------------
(* The refinement of BranchLog.                                            *)

\* Two tasks write a pending ref.
LEMMA WhoWritesTemp ==
  ASSUME [Next]_vars
  PROVE  temp' = temp \/ \E p \in Procs : CreateStore(p) \/ PromoteClean(p)
<1>1. CASE UNCHANGED vars \/ Rest
  BY <1>1 DEF vars, Rest
<1>2. CASE Crash \/ \E p \in Procs : TaskFails(p) \/ HangUp(p)
  BY <1>2 DEF Crash, TaskFails, HangUp, repo
<1>3. CASE \E p \in Procs : Start(p) \/ Acquire(p)
  <2>1. PICK p \in Procs : Start(p) \/ Acquire(p)
    BY <1>3
  <2>2. CASE Start(p)
    <3>1. \E r : Open(p, r)
      BY <2>2 DEF Start, StartGet, StartPut, StartProbe, StartCreate, StartPromote, StartBootstrap
    <3>. QED
      BY <3>1 DEF Open, repo
  <2>. QED
    BY <2>1, <2>2 DEF Acquire, repo
<1>4. ASSUME NEW p \in Procs, Task(p)
      PROVE  temp' = temp \/ CreateStore(p) \/ PromoteClean(p)
  BY <1>4 DEF Task, Ensure, Write, Merge, MergeDbs, ReadBranch, CommitRead, CommitSet, FfRead,
              FfSet, SetRef, CreateTips, PromoteCheck, PromoteSet, Quiet, repo
<1>5. CASE \E p \in Procs : Handler(p)
  BY <1>5 DEF Handler, EnsureReturns, WriteReturns, PutReturns, GetReturns, CreateReturns,
              PromoteReturns, BootstrapReturns, Quiet, repo
<1>. QED
  BY <1>1, <1>2, <1>3, <1>4, <1>5 DEF Next

\* The commit that a promote cleans up is the tip of its branch.
LEMMA CleanKnows ==
  ASSUME TypeOK, KnowsInv, NEW p \in Procs, PromoteClean(p)
  PROVE  /\ req[p].client \in Clients /\ temp' = [temp EXCEPT ![req[p].client] = None]
         /\ UNCHANGED <<commits, heads>>
         /\ temp[req[p].client] # None => IsAncestor(commits, temp[req[p].client],
                                                     heads[req[p].client])
<1> DEFINE c == req[p].client
<1>1. /\ c \in Clients /\ temp' = [temp EXCEPT ![c] = None] /\ UNCHANGED <<commits, heads>>
      /\ temp[c] = heads[c]
  BY DEF PromoteClean, At, TypeOK, RequestOK, KnowsInv, Knows
<1>2. Forward(commits, heads[c], heads[c])
  BY <1>1, ForwardStays DEF TypeOK, Branches
<1>. QED
  BY <1>1, <1>2 DEF Forward

\* A commit object is written on top of commits that exist.
Appended ==
  \E ps \in SUBSET Ids(commits), db \in Databases : commits' = AddCommit(commits, ps, db)

\* A new offer, or the one that replaces it, contains the tip that it is made for.
LEMMA StoreKnows ==
  ASSUME TypeOK, TypeOK', KnowsInv, NEW p \in Procs, CreateStore(p)
  PROVE  /\ \E d \in Ids(commits') : /\ temp' = [temp EXCEPT ![req[p].client] = d]
                                     /\ Forward(commits', heads[req[p].client], d)
         /\ req[p].client \in Clients /\ UNCHANGED heads
         /\ UNCHANGED commits \/ Appended
<1> DEFINE r == req[p]
           c == r.client
           n == Len(commits) + 1
           db == MergeDatabases(Db(c), Db(Main))
<1>1. /\ c \in Clients /\ r.pc = "createStore" /\ r.new \in Ids(commits)
      /\ r.old \in Tips(commits) /\ heads[c] = r.old /\ UNCHANGED heads
  BY DEF CreateStore, At, TypeOK, RequestOK, KnowsInv, Knows
<1>2. CASE Forward(commits, r.old, r.new)
  BY <1>1, <1>2 DEF CreateStore
<1>3. CASE ~Forward(commits, r.old, r.new)
  <2>1. /\ commits' = AddCommit(commits, {r.old, r.new}, db) /\ temp' = [temp EXCEPT ![c] = n]
    BY <1>3 DEF CreateStore
  <2>2. r.old # None /\ {r.old, r.new} \in SUBSET Ids(commits)
    BY <1>1, <1>3 DEF Forward, Tips, Ids, None
  <2>3. db \in Databases
    <3>1. /\ heads[c] \in Ids(commits) /\ heads[Main] \in Ids(commits)
      BY <1>1, <2>2 DEF TypeOK, RequestOK, Tips, Ids, None, Branches
    <3>2. \A i \in Ids(commits) : commits[i].db \in Databases
      <4>1. commits \in Seq(Commits) /\ Ids(commits) = 1..Len(commits)
        BY DEF TypeOK, Ids
      <4>2. \A i \in Ids(commits) : commits[i] \in Commits
        BY <4>1
      <4>. QED
        BY <4>2 DEF Commits
    <3>3. Db(c) \in Databases /\ Db(Main) \in Databases
      BY <3>1, <3>2 DEF Db
    <3>. QED
      BY <3>3, MergeType
  <2> DEFINE ps == {r.old, r.new}
  <2>4. ps \in SUBSET Ids(commits) /\ r.old \in ps /\ commits' = AddCommit(commits, ps, db)
    BY <2>1, <2>2
  <2>. HIDE DEF db, ps
  <2>5. Len(commits') = n /\ IsAncestor(commits', r.old, n)
    BY <2>3, <2>4, AddCommitFacts DEF TypeOK
  <2>6. n \in Ids(commits')
    BY <2>5 DEF TypeOK, Ids
  <2>7. Appended
    BY <2>3, <2>4 DEF Appended
  <2>. QED
    BY <1>1, <2>1, <2>5, <2>6, <2>7 DEF Forward
<1>. QED
  BY <1>2, <1>3

\* A pending merge is cleared only once its branch contains it, so that whoever
\* holds the newest offer can promote it (promote_sync_merge_commit_sync).
THEOREM TempCleared == ASSUME Bypass = {} PROVE Spec => TempClearedAfterPromote
<1>1. ASSUME TypeOK, TypeOK', KnowsInv, [Next]_vars, NEW c \in Clients,
             temp[c] # None, temp'[c] = None
      PROVE  IsAncestor(commits, temp[c], heads[c])
  <2>1. ASSUME NEW p \in Procs, CreateStore(p) PROVE FALSE
    <3>1. PICK d \in Ids(commits') : temp' = [temp EXCEPT ![req[p].client] = d]
      BY <1>1, <2>1, StoreKnows
    <3>. QED
      BY <1>1, <3>1 DEF TypeOK, Ids, None
  <2>2. ASSUME NEW p \in Procs, PromoteClean(p) PROVE IsAncestor(commits, temp[c], heads[c])
    <3>1. temp' = [temp EXCEPT ![req[p].client] = None]
      BY <1>1, <2>2, CleanKnows
    <3>2. c = req[p].client
      BY <1>1, <3>1 DEF TypeOK
    <3>. QED
      BY <1>1, <2>2, <3>2, CleanKnows
  <2>. QED
    BY <1>1, <2>1, <2>2, WhoWritesTemp
<1>2. TypeOK /\ TypeOK' /\ KnowsInv /\ [Next]_vars =>
        [\A c \in Clients :
           (temp[c] # None /\ temp'[c] = None) => IsAncestor(commits, temp[c], heads[c])]_vars
  BY <1>1
<1>. QED
  BY <1>2, TypeCorrect, Informed, PTL DEF Spec, TempClearedAfterPromote

\* The operators of the instance are those of the store.
LEMMA SameGraph ==
  /\ \A cs, a, d : Log!Forward(cs, a, d) = Forward(cs, a, d)
  /\ \A cs, a, d : Log!IsAncestor(cs, a, d) = IsAncestor(cs, a, d)
  /\ \A cs, ps, db : Log!AddCommit(cs, ps, db) = AddCommit(cs, ps, db)
  /\ \A cs : Log!WellFormed(cs) = WellFormed(cs)
  /\ \A cs : Log!Ids(cs) = Ids(cs) /\ Log!Tips(cs) = Tips(cs)
  /\ Log!Commits = Commits /\ Log!Databases = Databases /\ Log!Branches = Branches
  /\ Log!None = None
BY DEF Log!Forward, Forward, Log!IsAncestor, IsAncestor, Log!AddCommit, AddCommit,
       Log!WellFormed, WellFormed, Log!Ids, Ids, Log!Tips, Tips, Log!Commits, Commits,
       Log!Databases, Databases, Log!Branches, Branches, Log!None, None

\* The store starts as the log does.
LEMMA LogInits == Init => Log!LogInit
<1>. SUFFICES ASSUME Init PROVE Log!LogInit
  OBVIOUS
<1>1. TypeOK /\ temp = [c \in Clients |-> None]
  BY InitTypes DEF Init
<1>. QED
  BY <1>1, SameGraph DEF Log!LogInit, TypeOK

\* A commit is written as the log writes it.
LEMMA LogAppends == ASSUME TypeOK, Appended PROVE Log!AppendsCommit
<1>1. PICK ps \in SUBSET Ids(commits), db \in Databases : commits' = AddCommit(commits, ps, db)
  BY DEF Appended
<1> DEFINE new == commits'[Len(commits')]
<1>2. Len(commits') = Len(commits) + 1
  BY <1>1 DEF AddCommit, TypeOK
<1>3. new.parents = ps /\ new.db = db
  BY <1>1, <1>2 DEF AddCommit, TypeOK
<1>. HIDE DEF new
<1>4. /\ new.parents \subseteq Log!Ids(commits) /\ new.db \in Log!Databases
      /\ commits' = Log!AddCommit(commits, new.parents, new.db)
  BY <1>1, <1>3, SameGraph
<1>. QED
  BY <1>2, <1>4 DEF Log!AppendsCommit, new

\* A step that installs a commit on a branch, or fails to.
LEMMA LogAdvances ==
  ASSUME TypeOK, TypeOK', OffersAreForward, SerialInv, [Next]_vars, NEW p \in Procs,
         CommitSet(p) \/ FfSet(p) \/ PromoteSet(p)
  PROVE  UNCHANGED <<commits, heads, temp>> \/ \E b \in Branches : Log!Advance(b)
<1>1. UNCHANGED <<commits, temp>>
  BY DEF CommitSet, FfSet, SetRef, PromoteSet
<1>2. CASE heads' = heads
  BY <1>1, <1>2
<1>3. CASE heads' # heads
  <2>1. Into(req[p]) \in Branches /\ req[p].client \in Branches
    BY DEF TypeOK, RequestType, Into, Branches
  <2>2. PICK b \in Branches : heads' = [heads EXCEPT ![b] = req[p].new]
    BY <1>3, <2>1 DEF CommitSet, FfSet, SetRef, PromoteSet
  <2>3. heads'[b] = req[p].new /\ req[p].new \in Tips(commits)
    BY <1>1, <2>2 DEF TypeOK
  <2>4. Forward(commits, heads[b], req[p].new)
    BY <1>1, <2>3, AdvanceStep
  <2>5. req[p].new \in Ids(commits)
    <3>1. ASSUME PromoteSet(p) PROVE req[p].new \in Ids(commits)
      BY <3>1 DEF TypeOK, RequestOK, Offer, PromoteSet, At
    <3>2. ASSUME CommitSet(p) \/ FfSet(p) PROVE req[p].new \in Ids(commits)
      BY <3>2 DEF TypeOK, RequestOK, CommitSet, FfSet
    <3>. QED
      BY <3>1, <3>2
  <2>. QED
    BY <1>1, <2>2, <2>4, <2>5, SameGraph DEF Log!Advance
<1>. QED
  BY <1>2, <1>3

\* Every step of the store is a step of the log, or changes nothing of it.
LEMMA LogSteps ==
  ASSUME TypeOK, TypeOK', OffersAreForward, SerialInv, KnowsInv, [Next]_vars
  PROVE  [Log!LogNext]_(Log!logVars)
<1>1. ASSUME UNCHANGED <<commits, heads, temp>> PROVE [Log!LogNext]_(Log!logVars)
  BY <1>1 DEF Log!logVars
<1>2. ASSUME NEW p \in Procs, CommitRead(p) PROVE Log!WriteObject
  <2> DEFINE tip == Tip(Into(req[p]))
             ps == {tip} \ {None}
  <2>1. commits' = AddCommit(commits, ps, req[p].db) /\ UNCHANGED <<heads, temp>>
    BY <1>2 DEF CommitRead
  <2>2. tip \in Tips(commits) /\ req[p].db \in Databases
    BY DEF TypeOK, RequestType, Into, Branches, Tip
  <2>3. ps \in SUBSET Ids(commits)
    BY <2>2 DEF Tips, Ids, None
  <2>. HIDE DEF ps
  <2>. QED
    BY <2>1, <2>2, <2>3, LogAppends DEF Appended, Log!WriteObject
<1>3. ASSUME NEW p \in Procs, CreateStore(p) PROVE \E c \in Clients : Log!OfferMerge(c)
  <2>1. /\ \E d \in Ids(commits') : /\ temp' = [temp EXCEPT ![req[p].client] = d]
                                    /\ Forward(commits', heads[req[p].client], d)
        /\ req[p].client \in Clients /\ UNCHANGED heads
        /\ UNCHANGED commits \/ Appended
    BY <1>3, StoreKnows
  <2>2. UNCHANGED commits \/ Log!AppendsCommit
    BY <2>1, LogAppends
  <2>. QED
    BY <2>1, <2>2, SameGraph DEF Log!OfferMerge
<1>4. ASSUME NEW p \in Procs, PromoteClean(p) PROVE \E c \in Clients : Log!ClearMerge(c)
  BY <1>4, CleanKnows, SameGraph DEF Log!ClearMerge
<1>5. ASSUME NEW p \in Procs, CommitSet(p) \/ FfSet(p) \/ PromoteSet(p)
      PROVE  UNCHANGED <<commits, heads, temp>> \/ \E b \in Branches : Log!Advance(b)
  BY <1>5, LogAdvances
<1>. QED
  BY <1>1, <1>2, <1>3, <1>4, <1>5, WhoWrites, WhoWritesTemp, SameGraph DEF Log!LogNext

\* The store refines BranchLog: whatever its requests do, fail or abandon, callers
\* see commits appended, branches advance, and pending merges offered and cleared.
THEOREM Refines == ASSUME Bypass = {} PROVE Spec => KeepsLog
<1>1. TypeOK /\ TypeOK' /\ OffersAreForward /\ SerialInv /\ KnowsInv /\ [Next]_vars
        => [Log!LogNext]_(Log!logVars)
  BY LogSteps
<1>. QED
  BY <1>1, LogInits, TypeCorrect, OffersForward, Serialized, Informed, PTL
     DEF Spec, KeepsLog, Log!LogSpec
================================================================================
