# kdbx-git in TLA+

kdbx-git keeps a KeePass database in a bare git repository. Every client has a branch, all
branches are merged through `main`, and clients reach the server over WebDAV, over a small
sync protocol (`kdbx-git-sync-local`) or, read-only, over the KeeGate API. This directory
holds TLA+ models of that code, the TLC runs that check them and the TLAPS proofs about them.

    tlc -workers 2 -config store_serial.cfg MCGitStore     # one run
    tlapm GitStore_acks.tla                                # one module of proofs

`PROJECT.json` lists the runs, which source lines each definition models, the hazards of the
code and which property covers them, the mutants and the findings.

## 1. Inventory

| Component | State | Operations | Where |
|---|---|---|---|
| Git store | commit objects; `refs/heads/<branch>`; `refs/sync-temp/<client>` | read, commit (with retry), ensure branch, fast-forward, merge, client write, create and promote sync merge, bootstrap | `core/src/store.rs` |
| Handlers and server state | a mutex around the store; one watch channel per branch | GET, PUT and other WebDAV requests; event stream; `merge-from-main`; `promote-merge`; notify | `server/src/server/{http,dav,state}.rs` |
| `init` | none of its own: another process on the same repository | import into `main` if it is absent | `server/src/init.rs` |
| sync-local | the local file, the hash of the last synced bytes, `<file>.sync-state.json`, a trigger queue | reconcile, push, promote with retry, recovery at start, watcher, event listener | `sync-local/src/sync.rs` |
| Push registry, delivery | `sync-state.json`: subscriptions with `last_seen_at`, VAPID keys | register, delete, dispatch, remove revoked, prune | `server/src/sync_state.rs`, `server/src/server/push.rs` |
| WebDAV programs, authentication | the copy that a KeePass program opened | Basic credentials against the path, open, save | `server/src/server/{auth,dav}.rs` |
| KeeGate API | none; reads `main` | validate, authenticate, authorize by tags, filter, sort, limit | `keegate-api/src/lib.rs`, `server/src/server/keegate.rs` |
| KeeGate client library | its connection string | build, query, resolve a `kg://` reference | `keegate-client/src/lib.rs` |
| Storage conversion | none; `StorageDatabase` to and from KeePass | convert, canonicalize, serialize | `core/src/storage/*`, `core/src/kdbx.rs`, `storage-types` |
| Web UI, configuration, command lines | a cookie in the browser; nothing else | read-only | `server/src/server/web_ui.rs`, `web-ui/`, `server/src/{config,keegate}.rs` |

How they interact. A handler takes the store's mutex (`tokio::sync::Mutex`), runs store calls
and releases it; a store call is a series of `spawn_blocking` tasks that open the repository
anew. After a write the handler bumps the watch channels of the branches that moved, which
wakes the event streams, and starts a background task that posts web pushes. sync-local pulls
in four steps (ask for a merge, write the file, note the pending promote on disk, promote) and
pushes by an ordinary WebDAV PUT.

What is hard.

- *The mutex does not cover everything.* A dropped handler (the client hung up) releases the
  mutex, yet a blocking task it started runs on. `init` does not take it at all. The parts of a
  request (`ensure_client_branch`, then the PUT itself, then the final read of a GET) take it
  separately.
- *Every store call is several tasks*, with refs read again by name in between, a
  compare-and-swap at the end and a bounded retry that re-reads the tip.
- *Errors are swallowed*: a merge into `main` that fails is logged and the PUT succeeds.
- *The sync protocol survives crashes only through a note on disk*, and its last step, the
  promote, is not idempotent.
- *Notifications carry no content*: a watch channel forgets everything before its subscription.
- *A WebDAV download writes*: a GET merges `main` into the client's branch before the client has
  anything, and what the client uploads next counts as made on that merge.
- *A text is compared, not a database*: whether an upload is a change is decided by the serialized
  form, while KeePass programs reorder lists and a download reverses histories.

What makes each part correct: the store never loses a commit that a branch contained or an
upload it acknowledged, refs never dangle, a merge holds both sides, a promote never rewinds a
branch; the handlers tell the subscribers of `main`; sync-local never makes the server believe
that the file holds what it does not, never takes other people's edits out of `main`, and
converges. The push registry must drop only what expired, was deleted or was revoked, and notify
the rest. KeeGate must answer from one version of `main`, give out nothing but entries that share
a tag with the user's own entry, let everyone in whose entry is in order, and its client must keep
the credentials of one host from another. The stored form must make a commit of every change a
user can see, and of no other.

## 2. Modules

| Module | Models | Rests on |
|---|---|---|
| `CommitGraph` | commits, reachability, database contents, `merge_databases` | |
| `BranchLog` | the promise of the store, as an abstract specification | `CommitGraph` |
| `GitStore` | store calls and handlers, task by task, with hang-ups, failures, crashes and `init` | `CommitGraph`; implements `BranchLog` |
| `StoreOps` | the same store calls as functions of the repository | `CommitGraph` |
| `DavClients` | programs that open and save over WebDAV, their authentication | `StoreOps` |
| `SyncLocal` | one sync-local, its user, and the WebDAV clients beside it | `DavClients` |
| `PushRegistry` | `sync-state.json`, VAPID keys, background dispatches | |
| `StoredForm` | KeePass file to stored text and back | |
| `KeeGateApi` | the rules of the API, as functions of one database | `StoredForm` |
| `KeeGateService` | the promise of the API, as an abstract specification | |
| `KeeGate` | client library, handlers, and the users who upload meanwhile | `KeeGateApi`; implements `KeeGateService` |
| `MCGitStore`, `MCSyncLocal`, `MCPushRegistry`, `MCKeeGate` | symmetry sets; databases, filters and requests for TLC | |
| `CommitGraph_proofs`, `GitStore_proofs`, `GitStore_safety`, `GitStore_acks` | theorems, each module on the one before | TLAPS |
| `StoreOps_proofs`, `SyncLocal_proofs` | what the store calls do as functions, and the theorems about sync-local | TLAPS |
| `PushRegistry_proofs` | the theorems about the registry | TLAPS |
| `KeeGate_proofs` | sorting and the stored form, the refinement of `KeeGateService`, the theorems about answers, credentials and saves | TLAPS |

**Data.** A commit is its position in the sequence of all commits ever written (git's objects
are immutable and content-addressed) and carries the set of commits reachable from it, which
is what `is_ancestor_sync` answers from the merge base. 0 is the `None` of `branch_tip_id`. A
database is the set of edits it holds and its `kdbx_config`. An edit stands for an entry
revision or a deletion mark, so that the KeePass merge is the union of both sides;
`merge_databases` takes the configuration from the side it merges from. Content addressing
itself is left out: two equal commits made in the same second would have one object id in git.

**GitStore.** `req[p]` is a request in flight with the locals of its code: `stage` is the store
call it is in, `pc` the part of that call, `old`/`new` the tips it works with, `tries` the retry
counter. A step is the part of a task between two ref accesses that another writer could
separate: `CommitRead` reads the parent and writes the objects, `CommitSet` is the
compare-and-swap and goes back to `CommitRead` while retries remain; `FfRead`/`FfSet`,
`CreateTips`/`CreateStore` and `PromoteCheck`/`PromoteSet`/`PromoteClean` likewise. `Finish`
ends the task and hands its result to the handler (`...Returns`), which releases the mutex,
notifies (`Announce`), and goes on. `HangUp` drops a handler: reading tasks vanish, a writing
task goes on as an orphan (`attached = FALSE`) if `Bypass` allows that. `TaskFails` is any
`Err` of a task, `Crash` the death of the server. `Bypass` says who may write without the
mutex: nobody, orphans, `init`.

**SyncLocal.** `pc` follows `reconcile` and `push_local_to_webdav`; each call to the server and
each disk access is one action with its good outcome and, under `Fault`, the ways it goes wrong:
the call never arrives, or arrives and the answer is lost, or is carried out by half; a disk write
fails, which for the state file is only a warning; the state file cannot be read, which `load_state`
takes for a file without a note (`Unread`); the local file cannot be read, which ends the push. A PUT
is two actions, since the handler takes the mutex twice.
`synced` says whether `last_synced_hash` is the hash of the file's bytes: KDBX encryption takes
fresh randomness, so bytes never repeat. The trigger queue is the set of kinds waiting: two
waiting triggers of one kind have the effect of one (a second pull finds itself up to date, and
the debounce absorbs local ones). Two ghosts
say what the code does not notice: `missed`, that `main` moved while no stream was up or by a handler
that was dropped before it notified; `overlooked`, the commit of a note that could not be read.

**DavClients.** A request of a WebDAV client is one step here. `Opens` is a GET: the branch is
merged with `main`, then read, and the copy in the program is what was read, unless the answer was
lost or the merge failed and the stale branch is served. `Saves` is a PUT of the copy with new
edits. `Troubles` are the ways either goes wrong at the server: the answer is lost; the connection
breaks and the handler is dropped after its store call but before it notifies; the merge fails or
never runs. `lost` and `misled` are ghosts for the one thing the server cannot know, that a GET moved a
branch and its client never got it. `Authenticated` stands between a user and a path, and
`SyncLocal` sends every peer's request through it.

**StoredForm, KeeGateApi, KeeGate.** A database is a sequence of entries with a root group, tags,
window associations and a history, all in the order the file has; a number stands for a field
value. `ToStorage`, `Serialized` and `ToFile` are the way of an upload and of a download;
`FileContent`, bags in place of lists, is what a user sees of it and what they are held against. A
filter is a tree, evaluated by recursive functions over the constant set `Filters`; the argument
of a title filter is the set of titles that its pattern matches. A sort is given by places
(`Place`, `Rank`): the element at place n is the one that n - 1 others come before, by key and, the
sort being stable, by position. In `KeeGate` one request is on its
way at a time (`pc` is where): the handlers share nothing, so requests meet only through `main`.
`Receive`, `Load` and `Evaluate` are the parts of a handler that `main` can move between. `written`
keeps the authority that a user wrote for the request, `wire` holds what the library made of it.

**PushRegistry.** Every operation on the registry loads the file, changes it and saves it
under a mutex without awaiting, so it is one action, apart from the save: `Save` writes the
temporary file and `Rename` installs it, and between the two the server may die or the save
fail. A dispatch takes the mutex to load its targets and to remove the disowned ones, and
delivers in between without it. The ghost `boundTo` records the VAPID keys a subscription was
made for (a push service takes no others), `owed[d]` the clients that were registered when `main`
moved and that dispatch d has yet to notify. `main` moves (`MainAdvances`) before the handler spawns
the task (`Spawns`); a handler dropped in between spawns none (`HangsUp`), and a task that cannot
read the registry ends (`LoadFails`).

**StoreOps** is justified by `GitStore`: `SerialInv` shows that with the mutex and no bypass
only its holder runs a store call. A call is atomic there only if it succeeds. The outcomes of a
call that stops half-way are actions of the modules that use it: a commit whose merge into `main`
fails or never runs (`PutStopsShort`, trouble `"merge"`), and a promote that moves the branch and
fails to delete the pending ref (`ServerHalfPromotes`, of which `MoveBranch` is the first half).

## 3. Runs

Runs that pass:

| Run | Question |
|---|---|
| `store_serial` | With the mutex and no orphans: does `GitStore` implement `BranchLog`? Does any branch lose history, any acknowledged upload disappear, any merge drop a side, a pending merge get cleared before it is installed? And unless a client hangs up, have the subscribers of `main` been told of its tip when all is quiet? |
| `store_orphans` | Beside orphan tasks and `init`: do refs dangle, are offers safe to promote, and what at all can rewind a branch? |
| `store_answers` | Does every request end, through failures, hang-ups and crashes? |
| `sync_safe` | Through lost calls, lost answers, failing merges and disk writes, crashes and cut streams, beside peers who open and save over WebDAV: does the branch ever hold what the file does not, does an upload take edits out of `main`, does a pending promote become impossible, does a 409 ever end the process while its merge is not on the branch? |
| `push_safe` | Beside expiry, new registrations, concurrent dispatches and crashes in the middle of a save: does a registration ever leave without a cause of its own, do the keys change under a subscription? |
| `push_live` | Does each of two dispatches at a time notify everyone who was registered when `main` moved, whatever becomes of the others, and do disowned subscriptions leave? |
| `sync_live` | Does what `main` gets reach the file, and an edit in the file reach `main`, with one call or disk write failing anywhere? |
| `keegate` | While users change the database: does every answer come from one version of `main` and keep to the rules of authentication, authorization and order; where do credentials go; and does a save commit exactly what its user changed? |

Runs in which TLC refutes what the repository says of itself (section 6):
`sync_first_push`, `sync_clobbers`, `sync_recovery`, `keegate_escaped`.

Every property of a passing run has a mutant of the code (an operator with a plausible bug,
next to the one it replaces) under which the run fails.

**Bounds.** Two clients are the least for which branches diverge; a third would only add
another source of commits to `main`. Two request slots and three requests give every pair of
handlers a chance to interleave and a third request to meet what they leave behind. With
`MaxFaults = 1` a failure, or a crash, falls between any two steps. `RefUpdateRetries` is the
code's 3. Two or three edits suffice to tell the two sides of a merge and a later edit apart.
In `sync_safe` two crashes allow one during the recovery from the other. `MaxCommits` stops the
peers from opening their database once four commits exist: a branch that has diverged from `main`
stays so, and each GET commits another merge of the same content. `Imported` says
whether `main` exists when sync-local first starts: `sync_safe` and `sync_live` assume it,
because the code is wrong when it does not (`sync_first_push`). All other commits are bounded by
the requests and edits. In `keegate` three uploads let `main` move twice under one request, back
to an earlier text included; five changed entries, three groupings and two first files give
doubled and incomplete users, two groups of the users' name, and histories out of order; the limits
are 2 and 3 in place of the code's 100 and 1000, so that a query can run into both.

**Symmetry** is used for safety and action properties only: clients and slots (GitStore) and
edits (SyncLocal) are used alike by every definition.

**Fairness.** GitStore: the runtime polls every ready future and the blocking pool runs every
task (weak fairness of a request's steps), and tokio's mutex serves its waiters in order, so a
waiter is not passed over for ever (strong fairness of `Acquire`; weak would not do, for the
mutex is taken and released again). No client, fault or hang-up is fair. SyncLocal: the process
and its listeners run, a process that ended is started again, and not always with `--once`
(strong fairness of `Watch`, which `Once` disables). The main loop takes triggers from one channel
in the order of their arrival, so that neither kind is passed over for ever by the other (strong
fairness of `TakeMainChanged` and `TakeLocalChanged`: between two of them the process is elsewhere).
Users and other clients owe nothing. A push that failed is not retried by the code: the ghost
`unsent` says so, and `EditsReachMain` exempts the edit until the file is next saved or the process
started again.
PushRegistry: a handler that is not dropped spawns its task, who holds the mutex waits for
nothing, a delivery ends by its timeout (weak fairness), and the mutex is served in order (strong fairness of what a dispatch waits for).

Deadlock is checked in every run: `Rest` and `Wait` say where a system may stand still.
`Ttl = 0` in the push runs lets a registration expire overnight: two days tell fresh from expired.
In `push_live` one subscription stands for those of both clients: with two of them and two dispatches
TLC takes too long for a liveness property. `push_safe` has two of each.

## 4. Proofs

`CommitGraph_proofs` proves, for any parameters, what `AddCommit` gives a well-formed sequence
(it stays well formed, old commits keep their reach, the new one contains its parents) and that
ancestry is reflexive and survives later commits.

`GitStore_proofs` proves `TypeCorrect == Spec => []TypeOK` for every set of clients, slots,
edits, every bound and every `Bypass`. Types alone are not inductive: that a ref names an
existing commit after `SetRef` needs to know that the `new` of the request does. `TypeOK` therefore
contains `RequestOK`, which says for each point of the code what its locals are good for:
a commit about to be installed exists and contains the tip it was made on (`commitSet`), branches
about to be read by name exist (`mergeDbs`, `createStore`), a finished create offers a forward
move, a promote works on an offer that was made. Two facts carry the induction: commits and
offers only grow and a branch that exists goes on existing (`Grows`), under which `RequestOK`
of the idle slots persists; and each step re-establishes it for the one slot it moves
(`StepKeepsTypes`). The proof has one step per action.

`GitStore_safety` has two theorems for every `Bypass`. `OffersForward`: an offer is made from a
finished create, of which `RequestOK` says that the commit contains the tip it was made for, and
commits never change. `OnlyFastForward`, an action property: refs have three writers
(`WhoWrites`); a compare-and-swapped commit contains the old tip by `RequestOK`, a promoted one
by `OffersForward`, and `FfSet` is exempt. The others assume `Bypass = {}`. `Serialized` proves
`SerialInv`, which is inductive with `TypeOK`: a step of the holder leaves it the holder and
carries its ancestor check along (`SerialTask`), and while it runs everyone else is idle or
waits, so nothing they know can be invalidated (`SerialStep`). `NoHistoryLost` proves
`HeadsOnlyAdvance`: what `OnlyFastForward` leaves open is the fast-forward, and `SerialInv` says
that the tip it replaces is contained in what it installs. With orphan
tasks TLC refutes `HeadsOnlyAdvance`: the assumption is needed.

`Informed` goes further along that line. `KnowsInv` says, for each point of the code, that what a
call read of the refs is still so: the tip it will move, the pending merge it will clear, and that
the database it is about to commit holds both sides as the branches have them now. It is inductive
with `TypeOK` and `SerialInv`, since only the holder changes the repository and those who wait have
read nothing yet (`Fresh`). From it follow `MergeComplete` (`MergedHoldsBoth`: a merge that
reports success has reached its branch whole) and `TempCleared` (a pending merge is cleared only
when its branch contains it). `Refines` proves that `GitStore` refines `BranchLog`: the abstract
state is the repository itself, the step of each task that writes is the abstract step, and all else
(locks, retries, failures, crashes) is a stutter; that an abstract move is a forward one is
`HeadsOnlyAdvance`, and that a clearing is allowed is `KnowsInv`.

`GitStore_acks` proves `AckedKept`, that acknowledged uploads stay in their branch, for
`Bypass = {}`. The strengthening `AckedInv` says that ancestry is transitive (`ReachClosed`, an
invariant since a commit's reach is fixed when it is written; no induction over commits is
needed) and that an upload's commit is in its branch from the compare-and-swap on, not only from
the answer on (`UploadKept`). `NextCarries` traces the commit through the locals of the request
and `AncestorStays`, from `NoHistoryLost`'s step, keeps it in the history. `MainTold` proves
`MainAnnounced`: while nobody hangs up, `main` differs from what was announced only if some request
is at a point from which it still announces (`ToldInv`).

`StoreOps_proofs` says what a store call does as a function: commits are only appended, branches
outside a given set stay and those inside move forward (`Evolves`), pending merges of others
stay, and if every commit so far held all the edits of its ancestors, so do the new ones
(`DropsNothing`). One lemma per call, from `CommitTo` up to `PutWrite`, `ServeGet` and
`CreateSyncMerge`.

`SyncLocal_proofs` proves `TypeCorrect` outright, with `Typed` as the strengthening (every offer
and note on disk names a commit that contains the tip it expects). The others assume `Imported`, as
the run `sync_safe` does; `sync_first_push` shows why. Their invariant is `Kept`, in two halves. The
server's: `main` exists, an open copy holds what its branch holds unless the answer was lost, and until
a client was misled every commit holds the edits of its ancestors. The process's: what each point of
`reconcile` and of the recovery may rely on, that an offer can be promoted or, once tried, is on the branch (`OfferOK`), that what a
note on disk names can be promoted or is on the branch unless it was overlooked (`PendingOK`), that the branch holds nothing the file
does not. A promote carried out by half is why "on the branch already" is needed of an offer too: the
pending ref may still name a merge whose branch has moved to it, and the next try meets the conflict.
A note that was overlooked may still be promoted by a later start, after newer writes to the file:
`Remembered` says that a noted merge holds only edits of the two branches, so that the next merge holds
them too and no write takes them out of the file.
Peers preserve the second half because they move other branches and `main` only (`Elsewhere`), and the
process preserves the first because each of its calls is a call of `StoreOps_proofs`. `Local`,
`PendingSafe` and `ConflictDone` follow from `Kept`; `MainKeeps` is an action property: `main` moves
to descendants, and descendants hold more.

`PushRegistry_proofs` proves `TypeCorrect`, `Signed` and `Leaves` without assumptions beyond the
named ones. `Registry` adds to the types that a temporary file belongs to whoever is about to
install it, that what it holds is as good as what is installed (so that a crash at either moment is
the same), and that whatever a pending save takes away has a cause that outlasts the wait.

`KeeGate_proofs` proves `Implements == Spec => KeepsService`, that `KeeGate` refines
`KeeGateService`, for any databases, filters, requests and bounds. The caller's view is a mapping: a
request counts as asked if it goes to this server, and its answer is settled when the handler has
read `main`, not when it comes (`AnsweredHere`), so that `Load` and the early refusals of `Receive`
are the steps that answer from the present version, and `Evaluate` is a stutter. For that the
invariant `Underway` says what is settled at each point: past `Receive` a request is well formed
and has credentials. `Respond`, the answer to a request from one version, is an operator parameter
of `KeeGateService`, so no more is needed of it than its cases.

The rules rest on lemmas about sorting. A strict order on a finite set gives each element a
place, no place twice and none left out (`RankGrows`, `RankRange`, `RankReached`, the last because
an injection into a set of equal size is onto); so a sort reads a sequence along a bijection and
keeps its bag (`SortedSorts`, `PermutedBag`), and an ascending sequence is told by its bag
(`AscendingByBag`). From these: what `serialize` writes holds all that was uploaded (`SavedText`), and
two texts of one content are equal (`SameText`), history by history and tag by tag. `FilesKept`, that
`main` is such a text and holds the last upload, is inductive because downloads, edits and
reorderings yield files that can be uploaded (`Downloaded`, `EditedFile`, `ReorderedFile`);
`SaveLands` and `Silent` follow. `Answered`, that a handler holds a text and that an answer with
entries is `AnswerFrom` that text, gives `Allowed`, `FirstCome` (an entry with a place past the cut
comes after each that was answered, `CutOffLater`) and `GetIn` (who is unambiguous is the only
candidate). `AsWritten`, that a request goes where it was written to go with the credentials
written there, gives `StayHome`, and `GetIn` its credentials.

Assumptions: the named ASSUMEs of the modules, which TLC evaluates on every run, and these
hypotheses of theorems, each as in the run that checks the property:

- `Bypass = {}` (`store_serial`): no orphan task and no `init` beside the server.
- `Imported` (`sync_safe`): `main` exists before sync-local first starts.
- `OwnPasswords` (`StayHome`): no two hosts were given one password; with one password for two
  hosts a request shows nothing of where it was taken from.
- `Reserved = {}` (`GetIn`): no name or password needs percent-encoding; `keegate_escaped` shows why.

Of the named ones, these are about what programs hand to the code: entries have uuids of their own
and revisions of one number are the same (`FirstFilesAreInOrder`, `ChangedAreInOrder`; `serialize`
sorts revisions by their whole text, which the number stands for), and host and credentials are what
they are (`StringsAreAuthorities`, `ReservedAreFields`). The rest keep model values apart
(`NoneIsNoDatabase`, `NoSaveIsNoSave`, `SaversDiffer` and their like) and bounds in `Nat`.

Only model-checked: liveness (`RequestsEnd`, `Converges`, `EditsReachMain`, `NoticesAreSent`,
`DisownedLeave`), which the provers do not handle under fairness. What would be induction over a
sequence is done without it: a difference between two sequences has a least position
(`LeastNumber`), reachability is data of a commit, and what a filter matches is never looked into
(`Compiles` and `Matching` stay opaque, so that the theorems hold whatever a filter means, and TLC
checks the meaning). Every safety and action property that a passing run checks is a theorem.

## 5. What is not modelled

- Of the storage conversion, the fields that are carried over as they are (one stands for all), and
  what the conversion changes on purpose: times lose their fractions of a second, the file's header
  is made anew, settings of the key derivation that the library does not know are an error. A
  conversion that fails is a `TaskFails` or a `SaveFails`.
- How text is read: regular expressions, URLs, the header of Basic authentication (which ends the
  user name at the first colon), JSON. `/info` of KeeGate is a constant.
- The web UI: a cookie that the server does not remember, static assets, and a status page of two
  reads, of the push registry and of `main`'s tip, which no one writes by. Configuration and command
  lines, `keegate resolve` among them: read once, then over.
- A WebDAV client whose first request is a PUT: the server takes it, on a branch just forked from
  `main`. Peers save what they opened; `sync_first_push` shows what the other order does. What a HEAD
  or a listing reads of the store: no property looks at it (a HEAD opens the file, and so moves the
  client's branch like a GET whose content does not arrive).
- In `KeeGate`, uploads from a branch that is not at `main`: `Upload` compares with `main` and replaces
  it, which is what the server does for a client whose branch is there. Merges are in the other modules.
- Calls that arrive late: a request that sync-local gave up on and that reaches the server later
  (the client sets no timeout). The error of the last read of a GET: it changes the reply only.
- A client called `main`: nothing in the code forbids it, and both would share one branch.
- The retry's observed value after a lost compare-and-swap is the re-read one; two writers that
  restore the very same tip in between cannot be told apart, by the code or the model.

## 6. Findings

Each is a run whose counterexample is a schedule of the code as it is.

- `sync_first_push`: the first upload of a file goes onto a branch just forked from `main`; the
  merge back is a fast-forward and takes out of `main` what the file never held.
- `sync_clobbers`: a pull replaces a file that holds edits not yet pushed, and suppresses their
  upload. TLC's trace is the shortest: a file that exists before the first start. An edit saved while
  a pull is under way fares the same.
- `sync_recovery`: death between promote and the clearing of the note; every later start repeats
  a promote that the server refuses, and exits. The same refusal makes `do_promote` retry for ever
  when the answer to a promote is lost.
- `keegate_escaped`: a user name or password written percent-encoded in a connection string, as
  the document asks for reserved characters, is sent as it is written, and refused.

Three more that no run is about: when the server moves the branch of a promote and fails to delete the
pending ref (`core/src/store.rs:880`), the answer is 500, the retry is told 409, and sync-local exits as
if a third party had written its branch, which line 59 gives as the only cause (`sync_safe` has such
states; `ConflictsAreDone` holds in them); `merge_branch_into` counts equal tips as fast-forwarded and returns
true although nothing moved (`core/src/store.rs:564`; its comment at line 536 says otherwise), so each
GET of an up-to-date client wakes the subscribers of `main`; and a merge has the branch's tip as its
only parent (line 603), so a branch that has diverged stays so and each GET commits once more.

Where a passing property is weaker than one might wish, the code is the reason:

- `OnlyFastForwardRewinds` exempts `fast_forward_branch`, which takes the tip it finds as the
  expected one: an orphan commit that lands after the ancestor check drops out of the branch.
- `MainAnnounced` is checked without hang-ups: a handler dropped after `main` moved tells nobody.
- `MainKeepsEdits` exempts `misled`: a client whose GET was carried out and never answered uploads an
  older copy on top of the merge, which takes out of `main` what the copy lacks.
- `EditsReachMain` exempts `unsent` and `Stuck`: a failed upload is only logged, and a promote that was
  carried out unheard is asked for again and refused for ever.
- `MainKeepsEdits` speaks of peers who save what they opened (section 5).
- `PendingIsSafe` exempts the note that was `overlooked`: `load_state` goes on as if there were none,
  and the next merge takes the place of the noted one. `ConflictsAreDone` exempts it likewise.
- `Converges` exempts `missed`: what `main` gets between the first pull and the subscription, while the
  stream reconnects, or by a handler dropped before it notified, is not seen until `main` moves again.
  `sync_live` has no crash: a process ends there by `--once` or an error, and is started again.
- `NoticesAreSent` writes off what nobody will send: when the uploader hangs up before the task is
  spawned, when the task cannot read the registry, when the server dies. `DisownedLeave` exempts a
  removal whose load or save fails.
- `AckedWritesKept` speaks of the client's branch: after a merge into `main` that failed, the same
  upload is answered as unchanged, and `main` does not get it until the client uploads another.
- `ConflictsAreDone` is checked where `main` exists from the start: otherwise a stream that
  reconnects may create the branch between create and promote of the first merge, whose promote is
  then refused with 409, and sync-local exits.
- `OnlyLeavesForCause` says nothing of a dispatch's last deliveries, which may go to an endpoint
  that expired or was deleted after the targets were loaded.
- `init` beside a running server may commit on top of a `main` that it found absent; it loses no
  history (`store_orphans`), but is not refused as its error message promises.

## 7. Plan

Done, in this order: `CommitGraph`, `BranchLog`, `GitStore` with its runs and theorems, `StoreOps`,
`SyncLocal` and `PushRegistry` with their runs, `DavClients` and its composition with `SyncLocal`,
`StoredForm`, `KeeGateApi` and `KeeGate` with its refinement and theorems; then the theorems about the
merges and announcements of `GitStore` and its refinement, about sync-local, the registry, the stored
form and KeeGate's answers. To come:

1. That `GitStore` implements `StoreOps`: each finished call has done what the function says, for
   `Bypass = {}`. It would turn the argument of section 2 for `StoreOps` into a theorem.
2. What `Compiles` and `Matching` say of a filter of each shape.
3. The properties of `sync_safe` without `Imported`, up to the first upload.
