----------------------------- MODULE PushRegistry ------------------------------
(***************************************************************************)
(* Web push: the registry of subscriptions in sync-state.json              *)
(* (server/src/sync_state.rs) and the background tasks that notify them    *)
(* when main moves (server/src/server/push.rs).                            *)
(*                                                                         *)
(* Every operation on the registry holds a mutex, loads the file, prunes   *)
(* what expired, changes it, and replaces it by a rename.  A dispatch      *)
(* holds the mutex while it loads its targets and while it removes those   *)
(* that the push service disowned, not while it delivers: clients register *)
(* anew, unregister and expire in the meantime, beside other dispatches.   *)
(***************************************************************************)
EXTENDS Naturals

CONSTANTS
  Clients,     \* the client ids of the server configuration
  Subs,        \* subscriptions: an endpoint with its keys
  Keys,        \* VAPID key pairs
  Dispatches,  \* slots for background tasks
  NoKey, NoRecord, NoSave,
  Ttl,         \* PUSH_ENDPOINT_TTL_DAYS
  MaxDay,      \* bound: days that pass
  MaxUpdates,  \* bound: times that main moves
  MaxFaults    \* bound: crashes, and loads and saves that fail

ASSUME NoKeyIsNoKey == NoKey \notin Keys
ASSUME PushBounds == {Ttl, MaxDay, MaxUpdates, MaxFaults} \subseteq Nat

VARIABLES
  stored,    \* sync-state.json: the VAPID keys and each client's record
  served,    \* the VAPID keys of the running server, NoKey when it is down
  saving,    \* what a temporary file holds until its rename, and who saves
  dispatch,  \* the background tasks
  day,       \* the present time
  dead,      \* subscriptions that the push service answers with 404 or 410
  boundTo,   \* the VAPID keys a subscription was made for; it takes no other
  owed,      \* ghost: the clients that each dispatch has yet to notify
  updates, faults

vars == <<stored, served, saving, dispatch, day, dead, boundTo, owed, updates, faults>>
world == <<day, dead, boundTo>>
counts == <<updates, faults>>

Records == [sub: Subs, seen: Nat]
States == [vapid: Keys \cup {NoKey}, records: [Clients -> Records \cup {NoRecord}]]
NewState == [vapid |-> NoKey, records |-> [c \in Clients |-> NoRecord]]

\* Who writes the file: the server as it starts, a request of a client, a dispatch.
Savers == {"boot"} \cup Clients \cup Dispatches
ASSUME SaversDiffer == "boot" \notin Clients \cup Dispatches /\ Clients \cap Dispatches = {}
ASSUME NoSaveIsNoSave == NoSave \notin [state: States, by: Savers]

IdleTask == [pc |-> "idle", todo |-> {}, revoked |-> {}]
Up == served # NoKey
Registered(c, s) == stored.records[c] # NoRecord /\ stored.records[c].sub = s

Expired(r) == r.seen + Ttl < day
PruneExpired(st) ==
  [st EXCEPT !.records =
     [c \in Clients |-> IF @[c] # NoRecord /\ Expired(@[c]) THEN NoRecord ELSE @[c]]]

\* The holder of the mutex has loaded the file and writes its successor.
Save(st, who) == saving = NoSave /\ saving' = [state |-> PruneExpired(st), by |-> who]

--------------------------------------------------------------------------------
(* The server process.                                                     *)

\* Mutants of Boot: new keys are served before they are saved; a key pair is
\* made at every start.
BootServesFirst ==
  /\ ~Up /\ saving = NoSave
  /\ IF stored.vapid # NoKey
     THEN served' = stored.vapid /\ UNCHANGED saving
     ELSE \E k \in Keys : served' = k /\ Save([stored EXCEPT !.vapid = k], "boot")
  /\ UNCHANGED <<stored, dispatch, world, owed, counts>>
BootAnew ==
  /\ ~Up /\ saving = NoSave
  /\ \E k \in Keys \ {stored.vapid} : Save([stored EXCEPT !.vapid = k], "boot")
  /\ UNCHANGED <<stored, served, dispatch, world, owed, counts>>

\* ensure_vapid_keys: the keys on disk are used; new ones are saved first.
Boot ==
  /\ ~Up /\ saving = NoSave
  /\ IF stored.vapid # NoKey
     THEN served' = stored.vapid /\ UNCHANGED saving
     ELSE UNCHANGED served /\ \E k \in Keys : Save([stored EXCEPT !.vapid = k], "boot")
  /\ UNCHANGED <<stored, dispatch, world, owed, counts>>

\* The holder is done: the server is up, the request answered, the task over.
Done ==
  dispatch' = [d \in Dispatches |-> IF saving.by = d THEN IdleTask ELSE dispatch[d]]

\* std::fs::rename.  Who is no longer registered as before is owed nothing.
Rename ==
  /\ saving # NoSave /\ saving' = NoSave /\ stored' = saving.state
  /\ served' = IF saving.by = "boot" THEN stored'.vapid ELSE served
  /\ Done
  /\ owed' = [d \in Dispatches |-> {c \in owed[d] :
       stored'.records[c] # NoRecord /\ Registered(c, stored'.records[c].sub)}]
  /\ UNCHANGED <<world, counts>>

Fault == faults < MaxFaults /\ faults' = faults + 1 /\ UNCHANGED updates

\* Writing the temporary file fails: the holder reports an error.
SaveFails ==
  /\ Fault /\ saving # NoSave /\ saving' = NoSave /\ Done
  /\ UNCHANGED <<stored, served, world, owed>>

Crash ==
  /\ Fault /\ (Up \/ saving # NoSave)
  /\ served' = NoKey /\ saving' = NoSave
  /\ dispatch' = [d \in Dispatches |-> IdleTask]
  /\ owed' = [d \in Dispatches |-> {}]
  /\ UNCHANGED <<stored, world>>

--------------------------------------------------------------------------------
(* Requests of clients.                                                    *)

RegisterPushEndpoint(c, s) ==
  /\ Up /\ boundTo[s] # NoKey
  /\ Save([PruneExpired(stored) EXCEPT !.records[c] = [sub |-> s, seen |-> day]], c)
  /\ UNCHANGED <<stored, served, dispatch, world, owed, counts>>

DeletePushEndpoint(c) ==
  /\ Up
  /\ Save([PruneExpired(stored) EXCEPT !.records[c] = NoRecord], c)
  /\ UNCHANGED <<stored, served, dispatch, world, owed, counts>>

--------------------------------------------------------------------------------
(* Dispatches.                                                             *)

\* An upload advanced main; its handler has yet to spawn the task.
MainAdvances(d) ==
  /\ Up /\ dispatch[d] = IdleTask /\ updates < MaxUpdates
  /\ updates' = updates + 1
  /\ dispatch' = [dispatch EXCEPT ![d].pc = "spawn"]
  /\ owed' = [owed EXCEPT ![d] = {c \in Clients : stored.records[c] # NoRecord}]
  /\ UNCHANGED <<stored, served, saving, world, faults>>

Spawns(d) ==
  /\ dispatch[d].pc = "spawn"
  /\ dispatch' = [dispatch EXCEPT ![d].pc = "load"]
  /\ UNCHANGED <<stored, served, saving, world, owed, counts>>

\* No notification will be sent by d: what it owed is written off.
GivesUp(d) ==
  /\ dispatch' = [dispatch EXCEPT ![d] = IdleTask]
  /\ owed' = [owed EXCEPT ![d] = {}]
  /\ UNCHANGED <<stored, served, saving, world>>

\* The uploader hung up, and the handler is dropped before it spawns the task.
HangsUp(d) == dispatch[d].pc = "spawn" /\ GivesUp(d) /\ UNCHANGED counts

\* The file cannot be read, before the deliveries or after them: the task ends.
LoadFails(d) ==
  Fault /\ dispatch[d].pc \in {"load", "remove"} /\ saving = NoSave /\ GivesUp(d)

\* Dispatch d starts to deliver to its targets, or ends if there are none.
DeliverTo(d, targets) ==
  /\ dispatch[d].pc = "load" /\ saving = NoSave
  /\ dispatch' = [dispatch EXCEPT ![d] =
       IF targets = {} THEN IdleTask ELSE [@ EXCEPT !.pc = "deliver", !.todo = targets]]
  /\ UNCHANGED <<stored, served, saving, world, owed, counts>>

AllTargets == {t \in Clients \X Subs : Registered(t[1], t[2])}

\* Mutant of LoadTargets: what another dispatch is delivering is left to it.
LoadOthers(d) == DeliverTo(d, AllTargets \ UNION {dispatch[e].todo : e \in Dispatches})

\* load_push_delivery_targets does not prune.
LoadTargets(d) == DeliverTo(d, AllTargets)

\* The task after a delivery to t that leaves todo.
Delivered(task, t, todo) ==
  LET revoked == task.revoked \cup (IF t[2] \in dead THEN {t} ELSE {}) IN
    IF todo # {} THEN [task EXCEPT !.todo = todo, !.revoked = revoked]
    ELSE IF revoked = {} THEN IdleTask
    ELSE [pc |-> "remove", todo |-> {}, revoked |-> revoked]

Attempt(d, t, todo) ==
  /\ dispatch' = [dispatch EXCEPT ![d] = Delivered(@, t, todo)]
  /\ owed' = IF Registered(t[1], t[2]) THEN [owed EXCEPT ![d] = @ \ {t[1]}] ELSE owed
  /\ UNCHANGED <<stored, served, saving, world, counts>>

\* Mutant of Deliver: a revoked subscription ends the loop.
DeliverStops(d) ==
  /\ dispatch[d].pc = "deliver"
  /\ \E t \in dispatch[d].todo :
       Attempt(d, t, IF t[2] \in dead THEN {} ELSE dispatch[d].todo \ {t})

\* One delivery after the other, each ended by a timeout at the latest; one that
\* fails is only logged.  The ids of the clients leave their order open.
Deliver(d) ==
  /\ dispatch[d].pc = "deliver"
  /\ \E t \in dispatch[d].todo : Attempt(d, t, dispatch[d].todo \ {t})

\* Dispatch d removes the clients in gone from the registry.
Without(gone) ==
  [PruneExpired(stored) EXCEPT !.records =
     [c \in Clients |-> IF c \in gone THEN NoRecord ELSE @[c]]]
Remove(d, gone) ==
  /\ dispatch[d].pc = "remove"
  /\ Save(Without(gone), d)
  /\ dispatch' = [dispatch EXCEPT ![d].pc = "save"]
  /\ UNCHANGED <<stored, served, world, owed, counts>>

\* The clients among the targets ts that are still registered as they were tried.
StillRegistered(ts) == {c \in Clients : \E s \in Subs : <<c, s>> \in ts /\ Registered(c, s)}

\* Mutants of RemoveRevoked: the client is removed whatever it registered since;
\* only one of the revoked subscriptions is removed.
RemoveClients(d) == Remove(d, {t[1] : t \in dispatch[d].revoked})
RemoveOne(d) == Remove(d, StillRegistered({CHOOSE t \in dispatch[d].revoked : TRUE}))

RemoveRevoked(d) == Remove(d, StillRegistered(dispatch[d].revoked))

--------------------------------------------------------------------------------
(* The world.                                                              *)

\* A client fetches the VAPID key and asks its push service for a subscription.
Subscribe(s) ==
  /\ Up /\ boundTo[s] = NoKey
  /\ boundTo' = [boundTo EXCEPT ![s] = served]
  /\ UNCHANGED <<stored, served, saving, dispatch, day, dead, owed, counts>>

\* The push service ends a subscription, for good.
Disown(s) ==
  /\ boundTo[s] # NoKey /\ s \notin dead
  /\ dead' = dead \cup {s}
  /\ UNCHANGED <<stored, served, saving, dispatch, day, boundTo, owed, counts>>

DayPasses ==
  /\ day < MaxDay /\ day' = day + 1
  /\ UNCHANGED <<stored, served, saving, dispatch, dead, boundTo, owed, counts>>

--------------------------------------------------------------------------------
Init ==
  /\ stored = NewState /\ served = NoKey /\ saving = NoSave
  /\ dispatch = [d \in Dispatches |-> IdleTask]
  /\ day = 0 /\ dead = {} /\ boundTo = [s \in Subs |-> NoKey]
  /\ owed = [d \in Dispatches |-> {}] /\ updates = 0 /\ faults = 0

Next ==
  \/ Boot \/ Rename \/ SaveFails \/ Crash
  \/ \E c \in Clients : DeletePushEndpoint(c) \/ \E s \in Subs : RegisterPushEndpoint(c, s)
  \/ \E d \in Dispatches :
       \/ MainAdvances(d) \/ Spawns(d) \/ HangsUp(d)
       \/ LoadTargets(d) \/ LoadFails(d) \/ Deliver(d) \/ RemoveRevoked(d)
  \/ \E s \in Subs : Subscribe(s) \/ Disown(s)
  \/ DayPasses

Spec == Init /\ [][Next]_vars

(* A handler that is not dropped spawns its task; a task that holds the    *)
(* mutex does not wait for anything, a delivery ends by its timeout, and   *)
(* the mutex is served first come, first served.                           *)
Fairness ==
  /\ WF_vars(Rename)
  /\ \A d \in Dispatches :
       /\ WF_vars(Spawns(d)) /\ WF_vars(Deliver(d))
       /\ SF_vars(LoadTargets(d)) /\ SF_vars(RemoveRevoked(d))

FairSpec == Spec /\ Fairness

--------------------------------------------------------------------------------
(* Properties.                                                             *)

Targets == SUBSET (Clients \X Subs)
Tasks == [pc: {"idle", "spawn", "load", "deliver", "remove", "save"},
          todo: Targets, revoked: Targets]
TaskOK(task) ==
  /\ task.pc \in {"idle", "spawn", "load"} => task.todo = {} /\ task.revoked = {}
  /\ task.pc = "deliver" => task.todo # {}
  /\ task.pc \in {"remove", "save"} => task.todo = {} /\ task.revoked # {}
  /\ \A t \in task.revoked : t[2] \in dead

\* The types, and what holds the state together: the keys in use are on disk,
\* whoever saves is running, and revocations come from the push service.
TypeOK ==
  /\ stored \in States
  /\ served \in Keys \cup {NoKey}
  /\ saving \in [state: States, by: Savers] \cup {NoSave}
  /\ dispatch \in [Dispatches -> Tasks]
  /\ day \in Nat /\ dead \subseteq Subs /\ boundTo \in [Subs -> Keys \cup {NoKey}]
  /\ owed \in [Dispatches -> SUBSET Clients] /\ updates \in Nat /\ faults \in Nat
  /\ Up => served = stored.vapid
  /\ saving # NoSave => saving.state.vapid # NoKey /\ (Up <=> saving.by # "boot")
  /\ \A d \in Dispatches :
       /\ TaskOK(dispatch[d])
       /\ dispatch[d].pc = "save" <=> saving # NoSave /\ saving.by = d

\* A registration lasts until its client changes it, it expires, or the push
\* service disowns that very subscription: a dispatch that was told so of an older
\* one leaves the new one alone (remove_revoked_push_endpoints).
OnlyLeavesForCause ==
  [][\A c \in Clients :
       LET old == stored.records[c] IN
         (old # NoRecord /\ stored'.records[c] # old)
           => saving.by = c \/ Expired(old) \/ old.sub \in dead]_vars

\* Notifications are signed with the keys that the subscription was made for,
\* across crashes at any moment of a save (ensure_vapid_keys).
SignedAsSubscribed ==
  Up => \A c \in Clients, s \in Subs : Registered(c, s) => boundTo[s] = served

\* Whoever is registered when main moves, and stays so, is sent a notification of
\* that move, whatever becomes of the deliveries to others and of other dispatches
\* (dispatch_push_notifications).  Nobody is when the uploader hangs up before the
\* task is spawned (HangsUp), when the task cannot read the registry (LoadFails),
\* or when the server dies: the code has no second try.
NoticesAreSent ==
  \A d \in Dispatches, c \in Clients : c \in owed[d] ~> c \notin owed[d]

\* A subscription that the push service was seen to disown leaves the registry,
\* unless a load or a save fails or the server dies (README: removed automatically).
DisownedLeave ==
  \A c \in Clients, s \in Subs :
    (\E d \in Dispatches : <<c, s>> \in dispatch[d].revoked)
      ~> (~Registered(c, s) \/ faults > 0)
================================================================================
