------------------------------- MODULE GitStore --------------------------------
(***************************************************************************)
(* The git store and the request handlers that drive it: core/src/store.rs *)
(* under the mutex of server/src/server/state.rs.                          *)
(*                                                                         *)
(* A handler runs on the async runtime and holds the store's mutex across  *)
(* its store calls.  A store call is a sequence of spawn_blocking tasks.   *)
(* When the client hangs up, the runtime drops the handler: the mutex is   *)
(* released and the steps that remain never run, yet a blocking task that  *)
(* already started runs on to its end, beside the next holder of the       *)
(* mutex.  `kdbx-git init` is another process on the same repository.      *)
(*                                                                         *)
(* A step of the model is a part of a task between two accesses to refs    *)
(* that another writer could separate.  Reads of two different refs in a   *)
(* row are one step: a writer changes one ref at a time, so it commutes    *)
(* with the read of the other one.                                         *)
(***************************************************************************)
EXTENDS CommitGraph

CONSTANTS
  Procs,            \* slots for requests in flight
  NoProc,           \* the mutex is free
  RefUpdateRetries, \* REF_UPDATE_RETRIES
  Bypass,           \* who may write refs without the mutex: "orphan" tasks of
                    \* dropped handlers, "init" run beside the server
  MaxRequests,      \* bound: requests ever started
  MaxFaults,        \* bound: server crashes and failing tasks
  MaxHangUps        \* bound: clients that drop their connection

ASSUME NoProcIsNoSlot == NoProc \notin Procs
ASSUME RetriesArePositive == RefUpdateRetries \in Nat \ {0}
ASSUME BypassAssumption == Bypass \subseteq {"orphan", "init"}
ASSUME BoundsAreNumbers == {MaxRequests, MaxFaults, MaxHangUps} \subseteq Nat

VARIABLES
  commits, heads, temp,  \* the repository (see BranchLog)
  lock,        \* the holder of the mutex around GitStore
  req,         \* req[p] is the request in slot p, with the locals of its code
  announced,   \* announced[b]: tip of b when b's watch channel was last bumped
  offers,      \* replies of merge-from-main that a sync-local may promote
  acked,       \* ghost: commits of the PUTs answered with success
  started, faults, hangups

vars == <<commits, heads, temp, lock, req, announced, offers, acked, started, faults, hangups>>
repo == <<commits, heads, temp>>
counters == <<started, faults, hangups>>

Idle == [op |-> "none", stage |-> "none", pc |-> "idle", client |-> Main,
         db |-> NoDb, old |-> None, new |-> None, wrote |-> None,
         tries |-> 0, res |-> "none", attached |-> TRUE]

Tip(b) == heads[b]
Db(b) == commits[heads[b]].db
Step(p, r) == req' = [req EXCEPT ![p] = r]
At(p, stage, pc) == req[p].stage = stage /\ req[p].pc = pc

(* merge_branch_into(from, into): a PUT merges its client into main, a GET *)
(* merges main into its client.  Every other call writes its own branch.   *)
From(r) == IF r.op = "put" THEN r.client ELSE Main
Into(r) == IF r.stage = "bootstrap" \/ (r.stage = "merge" /\ r.op = "put")
           THEN Main ELSE r.client

\* The task of a store call ends: its result goes to the handler, if any.
Finish(p, r, res) ==
  Step(p, IF r.attached THEN [r EXCEPT !.pc = "ret", !.res = res, !.tries = 0]
                        ELSE Idle)

--------------------------------------------------------------------------------
(* Requests arrive.  GET and PUT of database.kdbx start by ensuring that   *)
(* the client's branch exists; a probe is any other WebDAV request or the  *)
(* event stream, which write to the store only to do that.  What these     *)
(* read of it is left out: metadata locks the store once more for the tip  *)
(* of the branch (a HEAD, which opens the file, counts as a GET).          *)

Open(p, r) ==
  /\ req[p] = Idle /\ started < MaxRequests
  /\ started' = started + 1
  /\ Step(p, r)
  /\ UNCHANGED <<repo, lock, announced, offers, acked, faults, hangups>>

Request(op, stage, c) ==
  [Idle EXCEPT !.op = op, !.stage = stage, !.pc = "lock", !.client = c]

StartGet(p, c) == Open(p, Request("get", "ensure", c))
StartPut(p, c, db) == Open(p, [Request("put", "ensure", c) EXCEPT !.db = db])
StartProbe(p, c) == Open(p, Request("probe", "ensure", c))
StartCreate(p, c) == Open(p, Request("create", "create", c))

\* A sync-local promotes an offer it got: late, twice, or never.
StartPromote(p, o) ==
  Open(p, [Request("promote", "promote", o.client)
             EXCEPT !.new = o.commit, !.old = o.expected])

\* init looks for main, then commits; it knows nothing of the server's mutex.
StartBootstrap(p, db) ==
  /\ "init" \in Bypass
  /\ Open(p, [Idle EXCEPT !.op = "bootstrap", !.stage = "bootstrap",
                          !.pc = IF Tip(Main) = None THEN "commitRead" ELSE "ret",
                          !.res = "err", !.db = db])

\* store.lock().await: the call at the request's stage begins.
Acquire(p) ==
  /\ req[p].pc = "lock" /\ lock = NoProc
  /\ lock' = p
  /\ Step(p, [req[p] EXCEPT !.pc = req[p].stage])
  /\ UNCHANGED <<repo, announced, offers, acked, counters>>

--------------------------------------------------------------------------------
(* Reading steps of the store calls: they choose the next task.            *)

Quiet == UNCHANGED <<repo, lock, announced, offers, acked, counters>>

\* Mutant of Ensure: a branch that exists is reset to main.
EnsureResets(p) ==
  /\ At(p, "ensure", "ensure") /\ Tip(Main) # None
  /\ Step(p, [req[p] EXCEPT !.pc = "ffRead", !.new = Tip(Main)])
  /\ Quiet

Ensure(p) ==
  /\ At(p, "ensure", "ensure")
  /\ LET r == req[p] IN
       IF Tip(r.client) # None \/ Tip(Main) = None
       THEN Finish(p, r, "ok")
       ELSE Step(p, [r EXCEPT !.pc = "ffRead", !.new = Tip(Main)])
  /\ Quiet

\* process_client_write skips an upload equal to the tip's text.
Write(p) ==
  /\ At(p, "write", "write")
  /\ LET r == req[p] IN
       IF Tip(r.client) # None /\ Db(r.client) = r.db
       THEN Finish(p, r, "unchanged")
       ELSE Step(p, [r EXCEPT !.pc = "commitRead"])
  /\ Quiet

\* Mutant of Merge: the arguments of the first ancestor check are swapped.
MergeBackward(p) ==
  /\ At(p, "merge", "merge")
  /\ LET r == req[p]  from == Tip(From(r))  into == Tip(Into(r)) IN
       IF from = None THEN Finish(p, r, "skipped")
       ELSE IF into = None \/ IsAncestor(commits, from, into)
       THEN Step(p, [r EXCEPT !.pc = "ffRead", !.new = from])
       ELSE Step(p, [r EXCEPT !.pc = "mergeDbs"])
  /\ Quiet

Merge(p) ==
  /\ At(p, "merge", "merge")
  /\ LET r == req[p]  from == Tip(From(r))  into == Tip(Into(r)) IN
       IF from = None THEN Finish(p, r, "skipped")
       ELSE IF Forward(commits, into, from)
       THEN Step(p, [r EXCEPT !.pc = "ffRead", !.new = from])
       ELSE IF IsAncestor(commits, from, into) THEN Finish(p, r, "skipped")
       ELSE Step(p, [r EXCEPT !.pc = "mergeDbs"])
  /\ Quiet

\* Both branches are read again, by name.
MergeDbs(p) ==
  /\ At(p, "merge", "mergeDbs")
  /\ Step(p, [req[p] EXCEPT !.pc = "commitRead",
                            !.db = MergeDatabases(Db(Into(req[p])), Db(From(req[p])))])
  /\ Quiet

ReadBranch(p) ==
  /\ At(p, "read", "read")
  /\ Step(p, Idle) /\ lock' = NoProc
  /\ UNCHANGED <<repo, announced, offers, acked, counters>>

--------------------------------------------------------------------------------
(* The tasks that write refs.                                              *)

\* Mutant of CommitRead: every commit is a root.
CommitRoot(p) ==
  /\ req[p].pc = "commitRead"
  /\ commits' = AddCommit(commits, {}, req[p].db)
  /\ Step(p, [req[p] EXCEPT !.pc = "commitSet", !.old = Tip(Into(req[p])),
                            !.new = Len(commits) + 1])
  /\ UNCHANGED <<heads, temp, lock, announced, offers, acked, counters>>

\* commit_to_branch_sync: the commit's one parent is the tip read here.
CommitRead(p) ==
  /\ req[p].pc = "commitRead"
  /\ LET r == req[p]  tip == Tip(Into(r)) IN
       /\ commits' = AddCommit(commits, {tip} \ {None}, r.db)
       /\ Step(p, [r EXCEPT !.pc = "commitSet", !.old = tip, !.new = Len(commits) + 1])
  /\ UNCHANGED <<heads, temp, lock, announced, offers, acked, counters>>

\* fast_forward_branch: the previous tip is whatever the branch holds by now.
FfRead(p) ==
  /\ req[p].pc = "ffRead"
  /\ LET r == [req[p] EXCEPT !.old = Tip(Into(req[p]))] IN
       IF r.old = r.new THEN Finish(p, r, "ok") ELSE Step(p, [r EXCEPT !.pc = "ffSet"])
  /\ Quiet

\* Mutant of SetRef: PreviousValue::Any, as in force_set_ref_sync.
SetRefForced(p, again) ==
  /\ heads' = [heads EXCEPT ![Into(req[p])] = req[p].new]
  /\ Finish(p, req[p], "ok")
  /\ UNCHANGED <<commits, temp, lock, announced, offers, acked, counters>>

\* set_branch_ref_sync, tried again from the read while others win the race.
SetRef(p, again) ==
  /\ LET r == req[p]  b == Into(r) IN
       \/ /\ Tip(b) = r.old
          /\ heads' = [heads EXCEPT ![b] = r.new]
          /\ Finish(p, r, "ok")
       \/ /\ Tip(b) # r.old /\ UNCHANGED heads
          /\ IF r.tries + 1 < RefUpdateRetries
             THEN Step(p, [r EXCEPT !.pc = again, !.tries = @ + 1])
             ELSE Finish(p, r, "err")
  /\ UNCHANGED <<commits, temp, lock, announced, offers, acked, counters>>

CommitSet(p) == req[p].pc = "commitSet" /\ SetRef(p, "commitRead")
FfSet(p) == req[p].pc = "ffSet" /\ SetRef(p, "ffRead")

\* create_sync_merge_commit_sync reads the tips (new: main's, old: the client's),
CreateTips(p) ==
  /\ At(p, "create", "create")
  /\ LET r == req[p]  main == Tip(Main)  tip == Tip(r.client) IN
       IF main = None \/ (tip # None /\ IsAncestor(commits, main, tip))
       THEN Finish(p, r, "nothing")
       ELSE Step(p, [r EXCEPT !.pc = "createStore", !.new = main, !.old = tip])
  /\ Quiet

\* Mutant of CreateStore: main is the merge's only parent.
CreateStoreOnMain(p) ==
  /\ At(p, "create", "createStore")
  /\ LET r == req[p]  c == r.client
         fresh == ~Forward(commits, r.old, r.new)
         new == IF fresh THEN Len(commits) + 1 ELSE r.new
     IN /\ commits' = IF fresh THEN AddCommit(commits, {r.new}, MergeDatabases(Db(c), Db(Main)))
                               ELSE commits
        /\ temp' = [temp EXCEPT ![c] = new]
        /\ Finish(p, [r EXCEPT !.new = new], "ok")
  /\ UNCHANGED <<heads, lock, announced, offers, acked, counters>>

\* then the contents, and writes the merge commit and the sync-temp ref.
CreateStore(p) ==
  /\ At(p, "create", "createStore")
  /\ LET r == req[p]  c == r.client IN
       IF Forward(commits, r.old, r.new)
       THEN /\ temp' = [temp EXCEPT ![c] = r.new]
            /\ Finish(p, r, "ok")
            /\ UNCHANGED commits
       ELSE /\ commits' = AddCommit(commits, {r.old, r.new},
                                    MergeDatabases(Db(c), Db(Main)))
            /\ temp' = [temp EXCEPT ![c] = Len(commits) + 1]
            /\ Finish(p, [r EXCEPT !.new = Len(commits) + 1], "ok")
  /\ UNCHANGED <<heads, lock, announced, offers, acked, counters>>

\* Mutant of PromoteCheck: a conflicting offer is cleaned up as if installed.
PromoteDrops(p) ==
  /\ At(p, "promote", "promote")
  /\ LET r == req[p] IN
       IF temp[r.client] # r.new THEN Finish(p, r, "err")
       ELSE Step(p, [r EXCEPT !.pc = IF Tip(r.client) # r.old THEN "promoteClean"
                                                              ELSE "promoteSet"])
  /\ Quiet

\* promote_sync_merge_commit_sync: two checks, the ref update, the clean-up.
PromoteCheck(p) ==
  /\ At(p, "promote", "promote")
  /\ LET r == req[p] IN
       IF temp[r.client] # r.new THEN Finish(p, r, "err")
       ELSE IF Tip(r.client) # r.old THEN Finish(p, r, "conflict")
       ELSE Step(p, [r EXCEPT !.pc = "promoteSet"])
  /\ Quiet

PromoteSet(p) ==
  /\ At(p, "promote", "promoteSet")
  /\ LET r == req[p] IN
       IF Tip(r.client) = r.old
       THEN heads' = [heads EXCEPT ![r.client] = r.new]
            /\ Step(p, [r EXCEPT !.pc = "promoteClean"])
       ELSE UNCHANGED heads /\ Finish(p, r, "err")
  /\ UNCHANGED <<commits, temp, lock, announced, offers, acked, counters>>

PromoteClean(p) ==
  /\ At(p, "promote", "promoteClean")
  /\ temp' = [temp EXCEPT ![req[p].client] = None]
  /\ Finish(p, req[p], "ok")
  /\ UNCHANGED <<commits, heads, lock, announced, offers, acked, counters>>

--------------------------------------------------------------------------------
(* The handlers continue when a store call returns.                        *)

Returned(p, stage) == At(p, stage, "ret")

\* Release the mutex and queue for it again, for the next call, or be done.
Release(p, r) ==
  /\ Step(p, r)
  /\ lock' = IF lock = p THEN NoProc ELSE lock

Announce(bs) == announced' = [b \in Branches |-> IF b \in bs THEN Tip(b) ELSE announced[b]]

\* An error of ensure_client_branch is logged and ignored.
EnsureReturns(p) ==
  /\ Returned(p, "ensure")
  /\ LET next(stage) == [req[p] EXCEPT !.stage = stage, !.pc = "lock", !.old = None,
                                       !.new = None, !.res = "none"]
     IN Release(p, CASE req[p].op = "get" -> next("merge")
                     [] req[p].op = "put" -> next("write")
                     [] OTHER -> Idle)
  /\ UNCHANGED <<repo, announced, offers, acked, counters>>

\* Mutants of WriteReturns: the mutex is free between commit and merge; an
\* upload that changes nothing keeps it.
WriteUnlocks(p) ==
  /\ Returned(p, "write")
  /\ LET r == req[p] IN
       Release(p, IF r.res = "ok"
                  THEN [r EXCEPT !.stage = "merge", !.pc = "merge", !.wrote = r.new,
                                 !.old = None, !.new = None, !.res = "none"]
                  ELSE Idle)
  /\ UNCHANGED <<repo, announced, offers, acked, counters>>
WriteKeepsLock(p) ==
  /\ Returned(p, "write")
  /\ LET r == req[p] IN
       Step(p, IF r.res = "ok"
               THEN [r EXCEPT !.stage = "merge", !.pc = "merge", !.wrote = r.new,
                              !.old = None, !.new = None, !.res = "none"]
               ELSE Idle)
  /\ UNCHANGED lock
  /\ UNCHANGED <<repo, announced, offers, acked, counters>>

\* The commit step of process_client_write: merge on success, still locked.
WriteReturns(p) ==
  /\ Returned(p, "write")
  /\ LET r == req[p] IN
       IF r.res = "ok"
       THEN /\ Step(p, [r EXCEPT !.stage = "merge", !.pc = "merge", !.wrote = r.new,
                                 !.old = None, !.new = None, !.res = "none"])
            /\ UNCHANGED lock
       ELSE Release(p, Idle)
  /\ UNCHANGED <<repo, announced, offers, acked, counters>>

\* Mutant of PutReturns: only the client's own watchers are told.
PutAnnouncesClient(p) ==
  /\ Returned(p, "merge") /\ req[p].op = "put"
  /\ Announce({req[p].client})
  /\ acked' = acked \cup {[client |-> req[p].client, commit |-> req[p].wrote]}
  /\ Release(p, Idle)
  /\ UNCHANGED <<repo, offers, counters>>

\* The PUT is answered with success whether or not main took the merge.
PutReturns(p) ==
  /\ Returned(p, "merge") /\ req[p].op = "put"
  /\ LET r == req[p] IN
       /\ Announce({r.client} \cup IF r.res = "ok" THEN {Main} ELSE {})
       /\ acked' = acked \cup {[client |-> r.client, commit |-> r.wrote]}
  /\ Release(p, Idle)
  /\ UNCHANGED <<repo, offers, counters>>

\* The GET serves its branch even when the merge failed.
GetReturns(p) ==
  /\ Returned(p, "merge") /\ req[p].op = "get"
  /\ Announce(IF req[p].res = "ok" THEN {Main} ELSE {})
  /\ Release(p, [Request("get", "read", req[p].client) EXCEPT !.pc = "lock"])
  /\ UNCHANGED <<repo, offers, acked, counters>>

CreateReturns(p) ==
  /\ Returned(p, "create")
  /\ LET r == req[p] IN
       offers' = IF r.res = "ok"
                 THEN offers \cup {[client |-> r.client, commit |-> r.new,
                                 expected |-> r.old]}
                 ELSE offers
  /\ Release(p, Idle)
  /\ UNCHANGED <<repo, announced, acked, counters>>

PromoteReturns(p) ==
  /\ Returned(p, "promote")
  /\ Announce(IF req[p].res = "ok" THEN {req[p].client} ELSE {})
  /\ Release(p, Idle)
  /\ UNCHANGED <<repo, offers, acked, counters>>

BootstrapReturns(p) ==
  /\ Returned(p, "bootstrap")
  /\ Step(p, Idle)
  /\ Quiet

--------------------------------------------------------------------------------
(* What goes wrong.                                                        *)

Fault == faults < MaxFaults /\ faults' = faults + 1 /\ UNCHANGED hangups

WritingTask == {"ffRead", "ffSet", "commitRead", "commitSet", "create", "createStore",
                "promote", "promoteSet", "promoteClean"}
ReadingTask == {"ensure", "write", "merge", "mergeDbs"}

\* A task returns Err: an I/O error, a lock file, a failing keepass merge.
\* (An error of the last read of a GET changes the reply only.)
TaskFails(p) ==
  /\ Fault
  /\ req[p].pc \in WritingTask \cup ReadingTask
  /\ Finish(p, req[p], "err")
  /\ UNCHANGED <<repo, lock, announced, offers, acked, started>>

\* The client hangs up; a writing task that runs is left an orphan.
HangUp(p) ==
  /\ hangups < MaxHangUps /\ hangups' = hangups + 1
  /\ req[p].op \notin {"none", "bootstrap"} /\ req[p].attached
  /\ req[p].pc \in WritingTask => "orphan" \in Bypass
  /\ Release(p, IF req[p].pc \in WritingTask THEN [req[p] EXCEPT !.attached = FALSE]
                                             ELSE Idle)
  /\ UNCHANGED <<repo, announced, offers, acked, started, faults>>

\* The server process dies and comes back with fresh watch channels.
Crash ==
  /\ Fault
  /\ req' = [p \in Procs |-> IF req[p].op = "bootstrap" THEN req[p] ELSE Idle]
  /\ lock' = NoProc
  /\ announced' = heads
  /\ UNCHANGED <<repo, offers, acked, started>>

\* Every request is answered and no more come.
Rest == (\A p \in Procs : req[p] = Idle) /\ started = MaxRequests /\ UNCHANGED vars

--------------------------------------------------------------------------------
\* Before or after `init`, with the branches of the clients seen so far.
Init ==
  \E db \in Databases, known \in SUBSET Clients, imported \in BOOLEAN :
    /\ commits = IF imported THEN AddCommit(<<>>, {}, db) ELSE <<>>
    /\ heads = [b \in Branches |-> IF imported /\ b \in known \cup {Main} THEN 1 ELSE None]
    /\ temp = [c \in Clients |-> None]
    /\ lock = NoProc
    /\ req = [p \in Procs |-> Idle]
    /\ announced = heads
    /\ offers = {} /\ acked = {}
    /\ started = 0 /\ faults = 0 /\ hangups = 0

Start(p) ==
  \/ \E c \in Clients : StartGet(p, c) \/ StartProbe(p, c) \/ StartCreate(p, c)
  \/ \E c \in Clients, db \in Databases : StartPut(p, c, db)
  \/ \E o \in offers : StartPromote(p, o)
  \/ \E db \in Databases : StartBootstrap(p, db)

Task(p) ==
  \/ Ensure(p) \/ Write(p) \/ Merge(p) \/ MergeDbs(p) \/ ReadBranch(p)
  \/ CommitRead(p) \/ CommitSet(p) \/ FfRead(p) \/ FfSet(p)
  \/ CreateTips(p) \/ CreateStore(p)
  \/ PromoteCheck(p) \/ PromoteSet(p) \/ PromoteClean(p)

Handler(p) ==
  \/ EnsureReturns(p) \/ WriteReturns(p) \/ PutReturns(p) \/ GetReturns(p)
  \/ CreateReturns(p) \/ PromoteReturns(p) \/ BootstrapReturns(p)

Next ==
  \/ \E p \in Procs : Start(p) \/ Acquire(p) \/ Task(p) \/ Handler(p)
  \/ \E p \in Procs : TaskFails(p) \/ HangUp(p)
  \/ Crash
  \/ Rest

Spec == Init /\ [][Next]_vars

(* The runtime polls every ready future and the blocking pool runs every   *)
(* task; tokio's mutex queues its waiters first come, first served.        *)
Fairness == \A p \in Procs : WF_vars(Task(p) \/ Handler(p)) /\ SF_vars(Acquire(p))
FairSpec == Spec /\ Fairness

--------------------------------------------------------------------------------
(* Properties.                                                             *)

Ops == {"none", "get", "put", "probe", "create", "promote", "bootstrap"}
Stages == {"none", "ensure", "write", "merge", "read", "create", "promote", "bootstrap"}
Pcs == {"idle", "lock", "read", "ret"} \cup WritingTask \cup ReadingTask
Results == {"none", "ok", "err", "unchanged", "skipped", "nothing", "conflict"}

RequestType ==
  [op: Ops, stage: Stages, pc: Pcs, client: Branches, db: Databases, old: Nat, new: Nat,
   wrote: Nat, tries: Nat, res: Results, attached: BOOLEAN]

Offers == [client: Clients, commit: Nat, expected: Nat]
Offer(r) == [client |-> r.client, commit |-> r.new, expected |-> r.old]

(* What a request knows at each point of its code, with the commits cs,    *)
(* the heads hs and the offers os: the locals of a task name commits that  *)
(* exist, a branch about to be read by name exists, and a commit about to  *)
(* be installed contains the tip it was made on.                           *)
RequestOK(cs, hs, os, r) ==
  /\ r \in RequestType
  /\ r.stage \notin {"none", "bootstrap"} => r.client \in Clients
  /\ r.pc = "lock" => r.stage \in {"ensure", "write", "merge", "read", "create", "promote"}
  /\ r.pc \in {"ffRead", "ffSet"} => r.stage \in {"ensure", "merge"} /\ r.new \in Ids(cs)
  /\ r.pc \in {"commitRead", "commitSet"} => r.stage \in {"write", "merge", "bootstrap"}
  /\ r.pc = "commitSet" => r.new \in Ids(cs) /\ Forward(cs, r.old, r.new)
  /\ r.pc = "mergeDbs" => hs[From(r)] # None /\ hs[Into(r)] # None
  /\ r.pc = "createStore" =>
       /\ r.new \in Ids(cs) /\ r.old \in Tips(cs)
       /\ hs[Main] # None /\ (r.old # None => hs[r.client] # None)
  /\ (r.stage = "create" /\ r.pc = "ret" /\ r.res = "ok")
       => r.new \in Ids(cs) /\ Forward(cs, r.old, r.new)
  /\ r.stage = "promote" => Offer(r) \in os

\* Every ref, pending or installed, and every local of a request names a commit
\* that was written: refs never dangle, whoever races.
TypeOK ==
  /\ commits \in Seq(Commits) /\ WellFormed(commits)
  /\ heads \in [Branches -> Tips(commits)]
  /\ temp \in [Clients -> Tips(commits)]
  /\ lock \in Procs \cup {NoProc}
  /\ req \in [Procs -> RequestType]
  /\ \A p \in Procs : RequestOK(commits, heads, offers, req[p])
  /\ announced \in [Branches -> Tips(commits)]
  /\ offers \subseteq Offers
  /\ \A o \in offers : o.commit \in Ids(commits)
  /\ acked \subseteq [client: Clients, commit: Nat]
  /\ {started, faults, hangups} \subseteq Nat

\* No branch ever moves to a commit that lacks its old tip: nothing a client
\* wrote drops out of a branch's history.  It holds while the mutex serialises
\* the writers (every caller of set_branch_ref_sync in store.rs).
HeadsOnlyAdvance ==
  [][\A b \in Branches : Forward(commits', heads[b], heads'[b])]_vars

\* Whoever races, only the retry of fast_forward_branch can drop history: new
\* commits and promotions are compare-and-swapped against the tip they contain.
OnlyFastForwardRewinds ==
  [][\A b \in Branches :
       \/ Forward(commits', heads[b], heads'[b])
       \/ \E p \in Procs : FfSet(p) /\ Into(req[p]) = b]_vars

\* A commit whose PUT was answered with success stays in its client's history.
AckedWritesKept ==
  \A a \in acked : IsAncestor(commits, a.commit, heads[a.client])

\* When merge_branch_into reports success, the target holds every edit of the
\* source: main after a PUT, the client's branch after the merge of a GET.
MergedHoldsBoth ==
  \A p \in Procs :
    (Returned(p, "merge") /\ req[p].res = "ok")
      => Db(From(req[p])).entries \subseteq Db(Into(req[p])).entries

\* A sync-local that holds the newest offer can promote it: the pending ref is
\* cleared only once its branch contains it.
TempClearedAfterPromote ==
  [][\A c \in Clients :
       (temp[c] # None /\ temp'[c] = None) => IsAncestor(commits, temp[c], heads[c])]_vars

\* Promoting an offer, however late or often, never drops history of the branch
\* it was made for (create_sync_merge_commit makes the client's tip a parent).
OffersAreForward ==
  \A o \in offers : Forward(commits, o.expected, o.commit)

(* Without a bypass the mutex makes the locals of its holder current: only *)
(* the holder runs a store call, so a fast-forward decided on an ancestor  *)
(* check still goes forward when it is carried out.                        *)
Serial(p) ==
  /\ req[p].attached /\ req[p].op # "bootstrap" /\ req[p].stage # "bootstrap"
  /\ req[p].pc \notin {"idle", "lock"} => lock = p
  /\ req[p].pc \in {"ffRead", "ffSet"} =>
       Forward(commits, heads[Into(req[p])], req[p].new)

\* Only the holder of the mutex runs a store call, and what it found out still holds
\* (state.rs: the store is behind one tokio::sync::Mutex).
SerialInv == \A p \in Procs : Serial(p)

\* Between requests, the subscribers of main have been told of its tip, unless
\* a client hung up in the middle (dav.rs: notify_branches in flush).
MainAnnounced ==
  hangups = 0 /\ (\A p \in Procs : req[p] = Idle) => announced[Main] = heads[Main]

\* Every request is answered, or its client is gone.
RequestsEnd == \A p \in Procs : req[p] # Idle ~> req[p] = Idle

Log == INSTANCE BranchLog WITH commits <- commits, heads <- heads, temp <- temp
\* The store keeps the promise of BranchLog.
KeepsLog == Log!LogSpec
================================================================================
