------------------------------- MODULE SyncLocal -------------------------------
(***************************************************************************)
(* kdbx-git-sync-local (sync-local/src/sync.rs): a process that keeps a    *)
(* local file and the server branch of one client in step, between a user  *)
(* who edits the file and other clients who write to main.                 *)
(*                                                                         *)
(* A pull takes four steps, so that the server never believes the client   *)
(* holds what its file does not: ask the server for a merge with main,     *)
(* write it to the file, note the pending promote on disk, promote the     *)
(* merge onto the client's branch.  A push uploads the file.  The other    *)
(* clients use KeePass programs over WebDAV (DavClients).                  *)
(*                                                                         *)
(* The server runs one store call at a time (StoreOps).  A call may not    *)
(* reach it, and its answer may not come back; the process may die between *)
(* any two steps and starts again with the file and its notes.             *)
(***************************************************************************)
EXTENDS DavClients, FiniteSets

CONSTANTS
  Me,         \* the client of this sync-local
  Nothing,    \* no pending promote on disk
  Imported,   \* main exists before sync-local first starts
  MaxFaults,  \* bound: calls and disk writes that go wrong
  MaxCrashes, \* bound: deaths of the process
  MaxDrops,   \* bound: event streams cut by the network
  MaxCommits  \* bound: commits after which no peer opens its database any more (once
              \* its branch and main have diverged, each GET commits another merge)

ASSUME MeIsAClient == Me \in Clients
ASSUME ImportedIsBoolean == Imported \in BOOLEAN
ASSUME SyncBounds == {MaxFaults, MaxCrashes, MaxDrops, MaxCommits} \subseteq Nat

VARIABLES
  file,      \* the local file
  synced,    \* last_synced_hash is the hash of the file's bytes; every save and
             \* every build of a KDBX file yields bytes never seen before
  pending,   \* <local_path>.sync-state.json
  pc,        \* where the process is
  startup,   \* it is in its first reconcile
  queue,     \* triggers not yet taken, at most one of each kind counts
  offer,     \* the merge that reconcile works on
  sent,      \* the upload: its database, and whether the file is still the same
  stream,    \* the event stream: "down", "up", or "told" when main moved since
  saved,     \* ghost: edits that the user saved to the file
  missed,    \* ghost: main moved while the stream was down, or a handler that was
             \* dropped told nobody, or a pull failed; and no pull since
  unsent,    \* ghost: the last upload failed ("push"), or its merge into main did
             \* ("merge"), and nothing was uploaded since; else "no"
  overlooked, \* ghost: the commit of the last note that could not be read; or None
  faults, crashes, drops

vars == <<davVars, file, synced, pending, pc, startup, queue, offer, sent,
          stream, saved, missed, unsent, overlooked, faults, crashes, drops>>
disk == <<file, synced, pending>>
bounds == <<faults, crashes, drops>>
programs == <<opened, lost, misled>>
ghosts == <<saved, missed, unsent, overlooked>>

NoOffer == [commit |-> None, expected |-> None, db |-> NoDb]
NotSent == [db |-> NoDb, same |-> FALSE]
Running == pc \notin {"down", "exited", "conflict"}
Watching == Running /\ ~startup

Fault == faults < MaxFaults /\ faults' = faults + 1 /\ UNCHANGED <<crashes, drops>>
NoFault == UNCHANGED bounds

Goto(l) == pc' = l
MainMoves == repo'.heads[Main] # repo.heads[Main]

\* Mutant of Notify: a push of the client's own sync-local is all it hears of.
NotifyOwn(told) ==
  /\ stream' = IF told /\ stream # "down" /\ pc = "putWrite" THEN "told" ELSE stream
  /\ missed' = (missed \/ (MainMoves /\ (stream = "down" \/ ~told)))

\* The subscribers of main are told of this step (state.notify_branches).
Notify(told) ==
  /\ stream' = IF told /\ stream # "down" THEN "told" ELSE stream
  /\ missed' = (missed \/ (MainMoves /\ (stream = "down" \/ ~told)))

\* reconcile returns an error: fatal in the first run, a warning later.
ReconcileFails ==
  Goto(IF startup THEN "exited" ELSE "loop") /\ missed' = TRUE /\ offer' = NoOffer
\* The first reconcile is followed by the start of the watcher and the stream.
ReconcileEnds == Goto(IF startup THEN "watch" ELSE "loop") /\ offer' = NoOffer

\* What the process knew is gone with it.
Forgotten == synced' = FALSE /\ queue' = {} /\ offer' = NoOffer /\ sent' = NotSent

--------------------------------------------------------------------------------
(* The process: start, reconcile, main loop, push.                         *)

\* A new process knows no hash and has no triggers.
Launch ==
  /\ ~Running
  /\ Goto("load") /\ startup' = TRUE /\ stream' = "down" /\ Forgotten
  /\ UNCHANGED <<programs, repo, file, pending, ghosts, bounds>>

\* Mutant of Load: the notes on disk are ignored.
LoadFresh ==
  /\ pc = "load" /\ Goto("request")
  /\ UNCHANGED <<programs, repo, disk, startup, queue, offer, sent, stream, ghosts, bounds>>

\* A state file that cannot be read counts as one without a note.
Unread ==
  Fault /\ pending # Nothing /\ Goto("request") /\ overlooked' = pending.commit
        /\ UNCHANGED offer

Load ==
  /\ pc = "load"
  /\ \/ /\ pending = Nothing /\ Goto("request")
        /\ UNCHANGED <<offer, overlooked, bounds>>
     \/ /\ pending # Nothing /\ Goto("resume")
        /\ offer' = [NoOffer EXCEPT !.commit = pending.commit, !.expected = pending.expected]
        /\ UNCHANGED <<overlooked, bounds>>
     \/ Unread
  /\ UNCHANGED <<programs, repo, disk, startup, queue, sent, stream, saved, missed, unsent>>

\* POST promote-merge: what the server does and what it answers.
ServerPromotes ==
  repo' = IF Promotable(repo, Me, offer.commit, offer.expected)
          THEN PromoteMerge(repo, Me, offer.commit) ELSE repo
ServerHalfPromotes ==
  /\ Promotable(repo, Me, offer.commit, offer.expected)
  /\ repo' = MoveBranch(repo, Me, offer.commit)
Answer ==
  IF Promotable(repo, Me, offer.commit, offer.expected) THEN "ok"
  ELSE IF Pending(repo, Me, offer.commit) THEN "conflict" ELSE "error"

\* resume_pending_promote makes one attempt; a conflict is fatal, other errors
\* end the reconcile.
Resume ==
  /\ pc = "resume"
  /\ \/ /\ NoFault /\ ServerPromotes
        /\ CASE Answer = "ok" -> Goto("forget") /\ offer' = NoOffer /\ UNCHANGED missed
             [] Answer = "conflict" -> Goto("conflict") /\ UNCHANGED <<offer, missed>>
             [] OTHER -> ReconcileFails
     \/ /\ Fault /\ (ServerPromotes \/ ServerHalfPromotes \/ UNCHANGED repo)
        /\ ReconcileFails
  /\ UNCHANGED <<programs, disk, startup, queue, sent, stream, saved, unsent, overlooked>>

\* A state file that cannot be written is only logged.
Forget ==
  /\ pc = "forget"
  /\ Goto("request")
  /\ \/ NoFault /\ pending' = Nothing
     \/ Fault /\ UNCHANGED pending
  /\ UNCHANGED <<programs, repo, file, synced, startup, queue, offer, sent, stream, ghosts>>

\* Mutants of RequestMerge: the pending promote is noted before the file is
\* written; the file is not written.
RequestOutcome(next, note) ==
  /\ pc = "request" /\ NoFault /\ missed' = FALSE
  /\ IF UpToDate(repo, Me)
     THEN ReconcileEnds /\ UNCHANGED <<repo, pending>>
     ELSE LET g == CreateMerge(repo, Me) IN
       /\ repo' = g /\ Goto(next)
       /\ offer' = [commit |-> g.temp[Me], expected |-> repo.heads[Me],
                   db |-> g.commits[g.temp[Me]].db]
       /\ pending' = IF note THEN [commit |-> g.temp[Me], expected |-> repo.heads[Me]]
                           ELSE pending
  /\ UNCHANGED <<programs, file, synced, startup, queue, sent, stream, saved, unsent,
                 overlooked>>
RequestNotesFirst == RequestOutcome("write", TRUE)
RequestSkipsWrite == RequestOutcome("save", FALSE)

\* POST merge-from-main.
RequestMerge ==
  /\ pc = "request"
  /\ LET g == IF UpToDate(repo, Me) THEN repo ELSE CreateMerge(repo, Me) IN
       \/ /\ NoFault /\ repo' = g /\ missed' = FALSE
          /\ IF UpToDate(repo, Me)
             THEN ReconcileEnds
             ELSE /\ Goto("write")
                  /\ offer' = [commit |-> g.temp[Me], expected |-> repo.heads[Me],
                               db |-> g.commits[g.temp[Me]].db]
       \/ /\ Fault /\ repo' \in {repo, g}
          /\ ReconcileFails
  /\ UNCHANGED <<programs, disk, startup, queue, sent, stream, saved, unsent, overlooked>>

\* write_local_file_atomic replaces whatever the file holds by now; the watcher
\* sees it.
WriteFile ==
  /\ pc = "write"
  /\ \/ /\ NoFault /\ Goto("save")
        /\ file' = offer.db /\ synced' = TRUE
        /\ queue' = IF startup THEN queue ELSE queue \cup {"local"}
        /\ UNCHANGED <<missed, offer>>
     \/ /\ Fault /\ ReconcileFails
        /\ UNCHANGED <<file, synced, queue>>
  /\ UNCHANGED <<programs, repo, pending, startup, sent, stream, saved, unsent, overlooked>>

SaveState ==
  /\ pc = "save"
  /\ Goto("promote")
  /\ \/ NoFault /\ pending' = [commit |-> offer.commit, expected |-> offer.expected]
     \/ Fault /\ UNCHANGED pending
  /\ UNCHANGED <<programs, repo, file, synced, startup, queue, offer, sent, stream, ghosts>>

\* do_promote tries until it is told yes or 409.
Promote ==
  /\ pc = "promote"
  /\ \/ /\ NoFault /\ ServerPromotes
        /\ Goto(CASE Answer = "ok" -> "clear"
                  [] Answer = "conflict" -> "conflict"
                  [] OTHER -> "promote")
     \/ /\ Fault /\ (ServerPromotes \/ ServerHalfPromotes \/ UNCHANGED repo)
        /\ UNCHANGED pc
  /\ UNCHANGED <<programs, disk, startup, queue, offer, sent, stream, ghosts>>

ClearState ==
  /\ pc = "clear"
  /\ ReconcileEnds
  /\ \/ NoFault /\ pending' = Nothing
     \/ Fault /\ UNCHANGED pending
  /\ UNCHANGED <<programs, repo, file, synced, startup, queue, sent, stream, ghosts>>

\* Mutant of Watch: a file that exists already is not pushed.
WatchOnly ==
  /\ pc = "watch"
  /\ Goto("loop") /\ startup' = FALSE /\ queue' = {}
  /\ UNCHANGED <<programs, repo, disk, offer, sent, stream, ghosts, bounds>>

\* The watcher and the event listener start; a file that exists is to be pushed.
Watch ==
  /\ pc = "watch"
  /\ Goto("loop") /\ startup' = FALSE
  /\ queue' = IF file = NoFile THEN {} ELSE {"local"}
  /\ unsent' = IF unsent = "push" /\ file # NoFile THEN "no" ELSE unsent
  /\ UNCHANGED <<programs, repo, disk, offer, sent, stream, saved, missed, overlooked,
                 bounds>>

\* --once: the process ends after the first reconcile.
Once ==
  /\ pc = "watch" /\ Goto("down") /\ Forgotten
  /\ UNCHANGED <<programs, repo, file, pending, startup, stream, ghosts, bounds>>

TakeMainChanged ==
  /\ pc = "loop" /\ "main" \in queue
  /\ Goto("load") /\ queue' = queue \ {"main"}
  /\ UNCHANGED <<programs, repo, disk, startup, offer, sent, stream, ghosts, bounds>>

\* What is not uploaded waits for the next upload; a merge that failed still does.
PushFails == unsent' = IF unsent = "merge" THEN "merge" ELSE "push"

\* The end of the debounce absorbs the local triggers up to now; the file is
\* read, and uploaded unless its bytes are known to be in sync.
TakeLocalChanged ==
  /\ pc = "loop" /\ "local" \in queue
  /\ queue' = queue \ {"local"}
  /\ \/ /\ NoFault /\ UNCHANGED unsent
        /\ IF file = NoFile \/ synced
           THEN UNCHANGED <<pc, sent>>
           ELSE Goto("put") /\ sent' = [db |-> file, same |-> TRUE]
     \/ /\ Fault /\ file # NoFile                 \* the file cannot be read
        /\ IF synced THEN UNCHANGED unsent ELSE PushFails
        /\ UNCHANGED <<pc, sent>>
  /\ UNCHANGED <<programs, repo, disk, startup, offer, stream, saved, missed, overlooked>>

\* PUT database.kdbx: the handler ensures that the branch exists, if it can,
PutEnsure ==
  /\ pc = "put"
  /\ \/ /\ NoFault /\ Goto("putWrite") /\ repo' = EnsureBranch(repo, Me)
        /\ UNCHANGED <<sent, unsent>>
     \/ /\ Fault /\ repo' \in {repo, EnsureBranch(repo, Me)}
        /\ \/ Goto("putWrite") /\ UNCHANGED <<sent, unsent>>
           \/ Goto("loop") /\ sent' = NotSent /\ PushFails
  /\ UNCHANGED <<programs, disk, startup, queue, offer, stream, saved, missed, overlooked>>

\* The upload is carried out, or only its commit to the branch.
PutArrives ==
  /\ repo' = ClientWrite(repo, Me, sent.db)
  /\ unsent' = IF Unchanged(repo, Me, sent.db) THEN unsent ELSE "no"
PutStopsShort ==
  /\ ~Unchanged(repo, Me, sent.db)
  /\ repo' = CommitTo(repo, Me, sent.db) /\ unsent' = "merge"

\* and later, with the mutex taken again, writes.  A failure is not retried.  The
\* handler of a broken connection may be dropped before the merge into main, or
\* after it, and then nobody is told.
PutWrite ==
  /\ pc = "putWrite" /\ Goto("loop") /\ sent' = NotSent
  /\ \/ /\ NoFault /\ synced' = sent.same /\ PutArrives
        /\ Notify(WriteReports(repo, Me, sent.db))
     \/ /\ Fault /\ UNCHANGED synced /\ PutArrives       \* the answer is lost
        /\ Notify(WriteReports(repo, Me, sent.db)) \/ Notify(FALSE)
     \/ /\ Fault /\ PushFails                            \* the call is lost
        /\ UNCHANGED <<repo, synced, stream, missed>>
     \/ /\ Fault /\ PutStopsShort
        /\ synced' \in {sent.same, synced} /\ UNCHANGED <<stream, missed>>
  /\ UNCHANGED <<programs, file, pending, startup, queue, offer, saved, overlooked>>

--------------------------------------------------------------------------------
(* The event stream.                                                       *)

\* The server ensures the branch and subscribes at the present version of main.
Connect ==
  /\ Watching /\ stream = "down"
  /\ stream' = "up" /\ repo' = EnsureBranch(repo, Me)
  /\ UNCHANGED <<programs, disk, pc, startup, queue, offer, sent, ghosts, bounds>>

Deliver ==
  /\ Watching /\ stream = "told"
  /\ stream' = "up" /\ queue' = queue \cup {"main"}
  /\ UNCHANGED <<programs, repo, disk, pc, startup, offer, sent, ghosts, bounds>>

Drop ==
  /\ stream # "down" /\ drops < MaxDrops /\ drops' = drops + 1
  /\ stream' = "down" /\ missed' = (missed \/ stream = "told")
  /\ UNCHANGED <<programs, repo, disk, pc, startup, queue, offer, sent, saved, unsent,
                 overlooked, faults, crashes>>

--------------------------------------------------------------------------------
(* The user, the other clients, and crashes.                               *)

Fresh == Unmade \ saved

Edit(e) ==
  /\ file # NoFile /\ e \in Fresh
  /\ file' = [file EXCEPT !.entries = @ \cup {e}]
  /\ synced' = FALSE /\ saved' = saved \cup {e}
  /\ sent' = [sent EXCEPT !.same = FALSE]
  /\ queue' = IF Watching THEN queue \cup {"local"} ELSE queue
  /\ unsent' = "no"
  /\ UNCHANGED <<programs, repo, pending, pc, startup, offer, stream, missed, overlooked,
                 bounds>>

\* The user of another client opens its database, and saves it with edits.
PeerOpens(user, path) ==
  /\ user # Me /\ Authenticated(path, user) /\ Len(repo.commits) < MaxCommits
  /\ \E trouble \in Troubles :
       /\ IF trouble = "no" THEN NoFault ELSE Fault
       /\ Opens(path, trouble) /\ Notify(OpenAnnounces(path, trouble))
  /\ UNCHANGED <<disk, pc, startup, queue, offer, sent, saved, unsent, overlooked>>

PeerSaves(user, path, es) ==
  /\ user # Me /\ Authenticated(path, user) /\ es \subseteq Fresh
  /\ \/ \E trouble \in Troubles :
          /\ IF trouble = "no" THEN NoFault ELSE Fault
          /\ Saves(path, es, trouble) /\ Notify(SaveAnnounces(path, es, trouble))
     \/ Fault /\ SaveFails(path, es) /\ UNCHANGED <<stream, missed>>
  /\ UNCHANGED <<disk, pc, startup, queue, offer, sent, saved, unsent, overlooked>>

\* The process dies; a state file that was being written may be left torn,
\* which reads as nothing pending.
Crash ==
  /\ Running /\ crashes < MaxCrashes /\ crashes' = crashes + 1
  /\ Goto("down") /\ Forgotten /\ stream' = "down" /\ missed' = (missed \/ stream = "told")
  /\ IF pc \in {"save", "clear", "forget"} THEN pending' \in {pending, Nothing}
                                           ELSE UNCHANGED pending
  /\ UNCHANGED <<programs, repo, file, startup, saved, unsent, overlooked, faults, drops>>

--------------------------------------------------------------------------------
\* A user with or without a file; main may exist, the client's branch does not.
Init ==
  /\ \E db \in Databases :
       /\ file \in {NoFile, [NoDb EXCEPT !.entries = db.entries]}
       /\ saved = IF file = NoFile THEN {} ELSE file.entries
       /\ repo \in IF Imported THEN {ImportedRepo(d, {}) : d \in Databases} ELSE {EmptyRepo}
  /\ synced = FALSE /\ pending = Nothing
  /\ pc = "down" /\ startup = FALSE /\ queue = {}
  /\ offer = NoOffer /\ sent = NotSent
  /\ stream = "down" /\ missed = Imported /\ unsent = "no"
  /\ overlooked = None
  /\ NothingOpened
  /\ faults = 0 /\ crashes = 0 /\ drops = 0

Process ==
  \/ Load \/ Resume \/ Forget \/ RequestMerge \/ WriteFile \/ SaveState \/ Promote
  \/ ClearState \/ TakeMainChanged \/ TakeLocalChanged \/ PutEnsure \/ PutWrite

\* The main loop waits for a trigger.
Wait == pc = "loop" /\ queue = {} /\ UNCHANGED vars

Next ==
  \/ Launch \/ Process \/ Watch \/ Once \/ Wait
  \/ Connect \/ Deliver \/ Drop
  \/ \E e \in Entries : Edit(e)
  \/ \E user, path \in Clients :
       \/ PeerOpens(user, path)
       \/ \E es \in {{}} \cup {{e} : e \in Entries} : PeerSaves(user, path, es)
  \/ Crash

Spec == Init /\ [][Next]_vars

(* The process and its listeners run; it is started again when it ended,   *)
(* and not always with --once; triggers are taken in the order of their    *)
(* arrival.  Users and other clients owe nothing.                          *)
Fairness ==
  /\ WF_vars(Process) /\ WF_vars(Launch) /\ SF_vars(Watch)
  /\ SF_vars(TakeMainChanged) /\ SF_vars(TakeLocalChanged)
  /\ WF_vars(Connect) /\ WF_vars(Deliver)
FairSpec == Spec /\ Fairness

--------------------------------------------------------------------------------
(* Properties.                                                             *)

Offers == [commit: Nat, expected: Nat, db: Databases]
Notes == [commit: Nat, expected: Nat]
Pcs == {"down", "exited", "conflict", "load", "resume", "forget", "request", "write",
        "save", "promote", "clear", "watch", "loop", "put", "putWrite"}

\* The types, and what the steps of a pull rely on: the merge they work on was
\* written by the server, and past the file write the file holds it.
TypeOK ==
  /\ repo \in Repos /\ WellFormed(repo.commits)
  /\ opened \in [Clients -> Databases \cup {NoFile}] /\ lost \subseteq Clients \ {Me}
  /\ misled \in BOOLEAN
  /\ file \in Databases \cup {NoFile}
  /\ synced \in BOOLEAN /\ startup \in BOOLEAN /\ missed \in BOOLEAN
  /\ unsent \in {"no", "push", "merge"} /\ overlooked \in Nat
  /\ pending \in Notes \cup {Nothing}
  /\ pc \in Pcs /\ queue \subseteq {"local", "main"}
  /\ offer \in Offers /\ sent \in [db: Databases, same: BOOLEAN]
  /\ stream \in {"down", "up", "told"}
  /\ saved \subseteq Entries
  /\ bounds \in Nat \X Nat \X Nat
  /\ pending # Nothing => pending.commit \in Ids(repo.commits)
  /\ pc \in {"resume", "write", "save", "promote"} => offer.commit \in Ids(repo.commits)
  /\ pc \in {"write", "save", "promote"} => offer.db = repo.commits[offer.commit].db
  /\ pc \in {"save", "promote", "clear"} =>
       file # NoFile /\ offer.db.entries \subseteq file.entries

\* The server never takes the client to hold what its file does not: pulls reach
\* the branch only after the file, through crashes, retries and lost answers
\* (reconcile, steps 3a to 3c).
BranchIsLocal ==
  repo.heads[Me] # None /\ ~misled =>
    file # NoFile /\ Content(repo, Me).entries \subseteq file.entries

\* No upload takes an edit of someone else out of main (merge_branch_into
\* fast-forwards main to the uploaded database; no user deletes entries here).
\* The exception are clients who save after a GET that was never answered: it
\* moved their branch to a merge that they do not hold (dav.rs, open).  A client
\* whose first request is a PUT does the same to the main that its new branch is
\* forked from; peers here save what they opened (DavClients).
MainKeepsEdits ==
  [][repo.heads[Main] # None /\ ~misled' =>
       Content(repo, Main).entries \subseteq (Content(repo, Main).entries)']_vars

\* A pending promote on disk can still be carried out, or was: a crash, a lost
\* answer or a promote carried out by half loses no merge.  The exception is a note
\* that could not be read once: the reconcile that did without it asked for a new
\* merge, which took the place of the noted one (load_state, create_sync_merge).
PendingIsSafe ==
  pending # Nothing /\ pending.commit # overlooked =>
    \/ Promotable(repo, Me, pending.commit, pending.expected)
    \/ IsAncestor(repo.commits, pending.commit, repo.heads[Me])

\* The process ends with a 409 only when the merge that it asked for is on its
\* branch: the conflict, fatal as it is, never costs a merge.  It need not mean a
\* third party (BranchConflictError): the server may have moved the branch and
\* failed to delete the temp ref.
ConflictsAreDone ==
  pc = "conflict" /\ offer.commit # overlooked =>
    IsAncestor(repo.commits, offer.commit, repo.heads[Me])

MainInFile ==
  repo.heads[Main] # None => file # NoFile /\ Content(repo, Main).entries \subseteq file.entries

\* do_promote asks again for a promote that was carried out, or a later start
\* does: the server refuses for ever (RecoveryCompletes).
Stuck ==
  \/ pc = "promote" /\ Answer = "error"
  \/ pending # Nothing /\ ~Promotable(repo, Me, pending.commit, pending.expected)

\* What main gets while the event stream is up, or before a pull that ends well,
\* reaches the file (E2E_TEST: the local file converges), unless the handler that
\* moved main was dropped before it told the subscribers (missed).
Converges == <>[](missed \/ Stuck \/ MainInFile)

InFile(e) == file # NoFile /\ e \in file.entries
InMain(e) == repo.heads[Main] # None /\ e \in Content(repo, Main).entries

\* An edit that stays in the file reaches main (the startup trigger pushes what
\* was edited while the process was down).  After an upload that failed it waits
\* for the next one: a save, or a restart unless only the merge failed, for then
\* the restart uploads what the branch already holds.
EditsReachMain ==
  \A e \in Entries : InFile(e) ~>
    (~InFile(e) \/ InMain(e) \/ unsent # "no" \/ Stuck \/ misled)

\* An edit that the user saved is in the file or was uploaded (README: if both
\* sides diverge they are merged; false when a pull replaces the file).
LocalEditsSurvive ==
  \A e \in saved :
    \/ InFile(e)
    \/ \E i \in Ids(repo.commits) : e \in repo.commits[i].db.entries

\* The pending promote of an interrupted run can be completed by the next one
\* (E2E_TEST; false when it was carried out but not yet forgotten).
RecoveryCompletes ==
  pc = "resume" => Promotable(repo, Me, offer.commit, offer.expected)

================================================================================
