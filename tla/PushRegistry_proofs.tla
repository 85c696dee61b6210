--------------------------- MODULE PushRegistry_proofs --------------------------
(***************************************************************************)
(* The safety properties of PushRegistry, for any number of clients,       *)
(* subscriptions, dispatches, days and faults.                             *)
(*                                                                         *)
(* All three rest on what a temporary file holds until its rename: the     *)
(* keys that were on disk if there were any, records of subscriptions that *)
(* were made for them, and every record on disk but those that may go.     *)
(***************************************************************************)
EXTENDS PushRegistry, TLAPS

\* The keys on disk are never replaced; a subscription is made for these.
KeysStay ==
  /\ saving # NoSave /\ stored.vapid # NoKey => saving.state.vapid = stored.vapid
  /\ \A s \in Subs : boundTo[s] # NoKey => boundTo[s] = stored.vapid

\* Only subscriptions that were made are registered.
RecordsBound(st) ==
  \A c \in Clients : st.records[c] # NoRecord => boundTo[st.records[c].sub] # NoKey

\* What the next rename takes out of the registry, it takes out for cause.
SavedForCause ==
  saving # NoSave => \A c \in Clients :
    LET old == stored.records[c] IN
      (old # NoRecord /\ saving.state.records[c] # old)
        => saving.by = c \/ Expired(old) \/ old.sub \in dead

\* Tasks are part of the running server.
TasksRun == \A d \in Dispatches : dispatch[d].pc # "idle" => Up

Registry ==
  /\ TypeOK /\ TasksRun /\ KeysStay /\ RecordsBound(stored)
  /\ saving # NoSave => RecordsBound(saving.state)
  /\ SavedForCause

\* Pruning takes out what expired, and touches nothing else.
LEMMA Prunes ==
  ASSUME NEW st \in States
  PROVE  /\ PruneExpired(st) \in States /\ PruneExpired(st).vapid = st.vapid
         /\ \A c \in Clients :
              \/ PruneExpired(st).records[c] = st.records[c]
              \/ /\ PruneExpired(st).records[c] = NoRecord /\ st.records[c] # NoRecord
                 /\ Expired(st.records[c])
BY DEF PruneExpired, States

\* A successor of the file that is saved: the file with its records pruned, and
\* those of the clients in gone replaced by new ones, and pruned again.
Replaced(st, gone, new) ==
  [st EXCEPT !.records = [c \in Clients |-> IF c \in gone THEN new ELSE @[c]]]

\* It is a registry, with the server's key, in which the other clients keep their
\* records unless they have expired (prune_expired).
LEMMA Successor ==
  ASSUME NEW st \in States, NEW gone, NEW new \in Records \cup {NoRecord},
         NEW next, next = PruneExpired(Replaced(PruneExpired(st), gone, new))
  PROVE  /\ next \in States /\ next.vapid = st.vapid
         /\ \A c \in Clients \ gone :
              \/ next.records[c] = st.records[c]
              \/ /\ next.records[c] = NoRecord /\ st.records[c] # NoRecord
                 /\ Expired(st.records[c])
         /\ \A c \in Clients \cap gone : next.records[c] \in {new, NoRecord}
<1> DEFINE a == PruneExpired(st)
           b == Replaced(a, gone, new)
<1>1. /\ a \in States /\ a.vapid = st.vapid
      /\ \A c \in Clients :
           \/ a.records[c] = st.records[c]
           \/ a.records[c] = NoRecord /\ st.records[c] # NoRecord /\ Expired(st.records[c])
  BY Prunes
<1>2. next = PruneExpired(b)
  OBVIOUS
<1>. HIDE DEF a
<1>3. /\ b \in States /\ b.vapid = a.vapid
      /\ \A c \in Clients : b.records[c] = IF c \in gone THEN new ELSE a.records[c]
  BY <1>1 DEF States, Replaced
<1>. HIDE DEF b
<1>4. /\ next \in States /\ next.vapid = b.vapid
      /\ \A c \in Clients :
           \/ next.records[c] = b.records[c]
           \/ next.records[c] = NoRecord /\ b.records[c] # NoRecord /\ Expired(b.records[c])
  BY <1>2, <1>3, Prunes
<1>. QED
  BY <1>1, <1>3, <1>4

\* A save of such a successor keeps the registry sound.
LEMMA SaveKeeps ==
  ASSUME Registry, saving = NoSave, NEW by \in Savers, NEW next \in States,
         saving' = [state |-> next, by |-> by],
         next.vapid # NoKey, stored.vapid # NoKey => next.vapid = stored.vapid,
         Up <=> by # "boot",
         \A c \in Clients :
           next.records[c] # NoRecord => boundTo[next.records[c].sub] # NoKey,
         \A c \in Clients :
           (stored.records[c] # NoRecord /\ next.records[c] # stored.records[c])
             => by = c \/ Expired(stored.records[c]) \/ stored.records[c].sub \in dead,
         UNCHANGED <<stored, served, world, owed, counts>>,
         \/ UNCHANGED dispatch /\ by \notin Dispatches
         \/ /\ by \in Dispatches /\ dispatch[by].pc = "remove"
            /\ dispatch' = [dispatch EXCEPT ![by].pc = "save"]
  PROVE  Registry'
<1>1. TypeOK /\ saving' \in [state: States, by: Savers] /\ saving' # NoSave
  BY NoSaveIsNoSave DEF Registry
<1>2. saving'.state = next /\ saving'.by = by
  OBVIOUS
<1>3. UNCHANGED <<stored, served, day, dead, boundTo, owed, updates, faults>>
  BY DEF world, counts
<1>4. \A d \in Dispatches : dispatch[d].pc # "save"
  BY <1>1 DEF TypeOK
<1>5. /\ dispatch' \in [Dispatches -> Tasks]
      /\ \A d \in Dispatches : TaskOK(dispatch'[d]) /\ (dispatch'[d].pc = "save" <=> by = d)
  <2>1. CASE UNCHANGED dispatch /\ by \notin Dispatches
    BY <1>1, <1>3, <1>4, <2>1 DEF TypeOK
  <2>2. CASE /\ by \in Dispatches /\ dispatch[by].pc = "remove"
             /\ dispatch' = [dispatch EXCEPT ![by].pc = "save"]
    <3>1. /\ dispatch[by] \in Tasks
          /\ TaskOK(dispatch[by])
      BY <1>1, <2>2 DEF TypeOK
    <3>2. /\ dispatch'[by].pc = "save" /\ dispatch'[by].todo = dispatch[by].todo
          /\ dispatch'[by].revoked = dispatch[by].revoked
          /\ \A d \in Dispatches \ {by} : dispatch'[d] = dispatch[d]
      BY <1>1, <2>2, <3>1 DEF TypeOK, Tasks
    <3>3. TaskOK(dispatch'[by])
      BY <2>2, <3>1, <3>2 DEF TaskOK
    <3>. QED
      BY <1>1, <1>4, <2>2, <3>1, <3>2, <3>3 DEF TypeOK, Tasks
  <2>. QED
    BY <2>1, <2>2
<1>6. TypeOK'
  BY <1>1, <1>2, <1>3, <1>5 DEF TypeOK, TaskOK, Up
<1>7. KeysStay' /\ RecordsBound(stored)' /\ RecordsBound(saving.state)'
  BY <1>1, <1>2, <1>3 DEF Registry, KeysStay, RecordsBound
<1>8. SavedForCause'
  BY <1>1, <1>2, <1>3 DEF SavedForCause, Expired
<1>9. TasksRun'
  BY <1>1, <1>3 DEF Registry, TasksRun, TypeOK, Up
<1>. QED
  BY <1>6, <1>7, <1>8, <1>9 DEF Registry

\* While the server is up its keys are those on disk.
LEMMA UpHasKeys ==
  ASSUME Registry
  PROVE  /\ stored \in States /\ Up => stored.vapid # NoKey
         /\ \A c \in Clients, s \in Subs : Registered(c, s) => boundTo[s] # NoKey
BY DEF Registry, TypeOK, Up, Registered, RecordsBound

\* A server that has never run has registered nobody.
LEMMA InitRegistry == Init => Registry
<1>. SUFFICES ASSUME Init PROVE Registry
  OBVIOUS
<1>1. stored \in States /\ \A c \in Clients : stored.records[c] = NoRecord
  BY DEF Init, NewState, States
<1>2. dispatch = [d \in Dispatches |-> IdleTask]
  BY DEF Init
<1>3. /\ dispatch \in [Dispatches -> Tasks]
      /\ \A d \in Dispatches : TaskOK(dispatch[d]) /\ dispatch[d].pc # "save"
  BY <1>2 DEF IdleTask, Tasks, Targets, TaskOK
<1>4. TypeOK
  BY <1>1, <1>3, NoKeyIsNoKey DEF Init, TypeOK, Up
<1>. QED
  BY <1>1, <1>2, <1>4 DEF Init, Registry, TasksRun, IdleTask, KeysStay, RecordsBound, SavedForCause

\* The server starts: with the keys on disk, or by saving new ones.
LEMMA BootKeeps == ASSUME Registry, Boot PROVE Registry'
<1>1. /\ TypeOK /\ KeysStay /\ RecordsBound(stored) /\ ~Up /\ saving = NoSave
      /\ UNCHANGED <<stored, dispatch, world, owed, counts>> /\ stored \in States
  BY DEF Boot, Registry, TypeOK
<1>2. CASE stored.vapid # NoKey
  <2>1. served' = stored.vapid /\ saving' = NoSave
    BY <1>1, <1>2 DEF Boot
  <2>2. TypeOK'
    BY <1>1, <2>1 DEF TypeOK, States, Up, TaskOK, world, counts
  <2>. QED
    BY <1>1, <2>1, <2>2 DEF Registry, TasksRun, Up, KeysStay, RecordsBound, SavedForCause, world
<1>3. CASE stored.vapid = NoKey
  <2>1. PICK k \in Keys : Save([stored EXCEPT !.vapid = k], "boot")
    BY <1>3 DEF Boot
  <2> DEFINE st == [stored EXCEPT !.vapid = k]
             next == PruneExpired(st)
  <2>2. st \in States /\ st.vapid = k /\ st.records = stored.records
    BY <1>1 DEF States
  <2>3. saving' = [state |-> next, by |-> "boot"] /\ UNCHANGED served
    BY <1>1, <1>3, <2>1 DEF Boot, Save
  <2>. HIDE DEF st
  <2>4. /\ next \in States /\ next.vapid = k
        /\ \A c \in Clients :
             \/ next.records[c] = stored.records[c]
             \/ /\ next.records[c] = NoRecord /\ stored.records[c] # NoRecord
                /\ Expired(stored.records[c])
    BY <2>2, Prunes
  <2>. HIDE DEF next
  <2>5. "boot" \in Savers /\ "boot" \notin Dispatches /\ k # NoKey
    BY SaversDiffer, NoKeyIsNoKey DEF Savers
  <2>. QED
    BY <1>1, <1>3, <2>3, <2>4, <2>5, SaveKeeps DEF RecordsBound
<1>. QED
  BY <1>2, <1>3

\* A client registers, or unregisters: its own record is replaced.
LEMMA RequestKeeps ==
  ASSUME Registry, NEW c \in Clients,
         DeletePushEndpoint(c) \/ \E s \in Subs : RegisterPushEndpoint(c, s)
  PROVE  Registry'
<1>1. /\ TypeOK /\ RecordsBound(stored) /\ Up /\ saving = NoSave /\ stored \in States
      /\ UNCHANGED <<stored, served, dispatch, world, owed, counts>>
      /\ stored.vapid # NoKey
  BY UpHasKeys DEF DeletePushEndpoint, RegisterPushEndpoint, Registry, TypeOK, Save
<1>2. PICK new \in Records \cup {NoRecord} :
        /\ new # NoRecord => boundTo[new.sub] # NoKey
        /\ Save([PruneExpired(stored) EXCEPT !.records[c] = new], c)
  <2>1. CASE DeletePushEndpoint(c)
    BY <2>1 DEF DeletePushEndpoint
  <2>2. CASE \E s \in Subs : RegisterPushEndpoint(c, s)
    <3>1. PICK s \in Subs : RegisterPushEndpoint(c, s)
      BY <2>2
    <3>2. [sub |-> s, seen |-> day] \in Records
      BY <1>1 DEF TypeOK, Records
    <3>. QED
      BY <3>1, <3>2 DEF RegisterPushEndpoint
  <2>. QED
    BY <2>1, <2>2
<1> DEFINE a == PruneExpired(stored)
           gone == {c}
           next == PruneExpired(Replaced(a, gone, new))
<1>3. [a EXCEPT !.records[c] = new] = Replaced(a, gone, new)
  <2>1. a \in States
    BY <1>1, Prunes
  <2>. HIDE DEF a
  <2>. QED
    BY <2>1 DEF Replaced, States
<1>4. saving' = [state |-> next, by |-> c]
  BY <1>2, <1>3 DEF Save
<1>5. next = PruneExpired(Replaced(PruneExpired(stored), gone, new)) /\ gone = {c}
  OBVIOUS
<1>. HIDE DEF a, next, gone
<1>6. /\ next \in States /\ next.vapid = stored.vapid
      /\ \A x \in Clients \ gone :
           \/ next.records[x] = stored.records[x]
           \/ /\ next.records[x] = NoRecord /\ stored.records[x] # NoRecord
              /\ Expired(stored.records[x])
      /\ \A x \in Clients \cap gone : next.records[x] \in {new, NoRecord}
  BY <1>1, <1>5, Successor
<1>7. c \in Savers /\ c # "boot" /\ c \notin Dispatches
  BY SaversDiffer DEF Savers
<1>8. \A x \in Clients : next.records[x] # NoRecord => boundTo[next.records[x].sub] # NoKey
  BY <1>1, <1>2, <1>5, <1>6 DEF RecordsBound
<1>9. \A x \in Clients :
        (stored.records[x] # NoRecord /\ next.records[x] # stored.records[x])
          => c = x \/ Expired(stored.records[x]) \/ stored.records[x].sub \in dead
  BY <1>5, <1>6
<1>. QED
  BY <1>1, <1>4, <1>6, <1>7, <1>8, <1>9, SaveKeeps

\* A dispatch takes out who is still registered with a subscription that was
\* disowned when it was tried.
LEMMA RemoveKeeps == ASSUME Registry, NEW d \in Dispatches, RemoveRevoked(d) PROVE Registry'
<1> DEFINE gone == StillRegistered(dispatch[d].revoked)
           next == PruneExpired(Replaced(PruneExpired(stored), gone, NoRecord))
<1>1. /\ TypeOK /\ RecordsBound(stored) /\ saving = NoSave /\ stored \in States
      /\ dispatch[d].pc = "remove" /\ dispatch' = [dispatch EXCEPT ![d].pc = "save"]
      /\ UNCHANGED <<stored, served, world, owed, counts>>
  BY DEF RemoveRevoked, Remove, Registry, TypeOK, Save
<1>2. saving' = [state |-> next, by |-> d]
  BY DEF RemoveRevoked, Remove, Save, Without, Replaced
<1>3. \A x \in gone : stored.records[x] # NoRecord /\ stored.records[x].sub \in dead
  <2>1. \A t \in dispatch[d].revoked : t[2] \in dead
    BY <1>1 DEF TypeOK, TaskOK
  <2>. QED
    BY <2>1 DEF StillRegistered, Registered
<1>4. next = PruneExpired(Replaced(PruneExpired(stored), gone, NoRecord))
  OBVIOUS
<1>. HIDE DEF next, gone
<1>5. /\ next \in States /\ next.vapid = stored.vapid
      /\ \A x \in Clients \ gone :
           \/ next.records[x] = stored.records[x]
           \/ /\ next.records[x] = NoRecord /\ stored.records[x] # NoRecord
              /\ Expired(stored.records[x])
      /\ \A x \in Clients \cap gone : next.records[x] = NoRecord
  BY <1>1, <1>4, Successor
<1>6. d \in Savers /\ d # "boot"
  BY SaversDiffer DEF Savers
<1>7. \A x \in Clients : next.records[x] # NoRecord => boundTo[next.records[x].sub] # NoKey
  BY <1>1, <1>5 DEF RecordsBound
<1>8. \A x \in Clients :
        (stored.records[x] # NoRecord /\ next.records[x] # stored.records[x])
          => d = x \/ Expired(stored.records[x]) \/ stored.records[x].sub \in dead
  BY <1>3, <1>5
<1>9. Up /\ stored.vapid # NoKey
  BY <1>1, UpHasKeys DEF Registry, TasksRun
<1>. QED
  BY <1>1, <1>2, <1>5, <1>6, <1>7, <1>8, <1>9, SaveKeeps

\* A save ends: the file is replaced, or it failed and the old one stays.
LEMMA SaveEnds == ASSUME Registry, Rename \/ SaveFails PROVE Registry'
<1>1. /\ TypeOK /\ TasksRun /\ KeysStay /\ RecordsBound(stored) /\ saving # NoSave
      /\ RecordsBound(saving.state) /\ stored \in States
      /\ saving \in [state: States, by: Savers] /\ saving.state.vapid # NoKey
      /\ Up <=> saving.by # "boot"
  BY DEF Rename, SaveFails, Registry, TypeOK
<1>2. saving' = NoSave /\ UNCHANGED <<day, dead, boundTo>> /\ Done
  BY DEF Rename, SaveFails, world
<1>3. \A d \in Dispatches : dispatch'[d] = IdleTask \/ dispatch'[d] = dispatch[d]
  BY <1>2 DEF Done
<1>4. /\ dispatch' \in [Dispatches -> Tasks]
      /\ \A d \in Dispatches : TaskOK(dispatch'[d]) /\ dispatch'[d].pc # "save"
  <2>1. /\ IdleTask \in Tasks
        /\ TaskOK(IdleTask) /\ IdleTask.pc = "idle"
    BY DEF IdleTask, Tasks, Targets, TaskOK
  <2>2. \A d \in Dispatches : dispatch[d].pc = "save" => dispatch'[d] = IdleTask
    BY <1>1, <1>2 DEF Done, TypeOK
  <2>. HIDE DEF IdleTask
  <2>3. \A d \in Dispatches : TaskOK(dispatch'[d]) /\ dispatch'[d].pc # "save"
    BY <1>1, <1>3, <2>1, <2>2 DEF TypeOK
  <2>4. \A d \in Dispatches :
          dispatch'[d] \in Tasks
    BY <1>1, <1>3, <2>1 DEF TypeOK
  <2>5. dispatch' = [d \in Dispatches |-> dispatch'[d]]
    BY <1>2 DEF Done
  <2>. QED
    BY <2>3, <2>4, <2>5
<1>5. CASE Rename
  <2>1. /\ stored' = saving.state /\ served' = IF saving.by = "boot" THEN stored'.vapid ELSE served
        /\ owed' \in [Dispatches -> SUBSET Clients] /\ UNCHANGED counts
    BY <1>1, <1>5 DEF Rename, TypeOK
  <2>2. /\ stored' \in States /\ stored'.vapid # NoKey /\ stored'.vapid \in Keys
        /\ served' = stored'.vapid
    BY <1>1, <2>1 DEF TypeOK, KeysStay, States, Up
  <2>3. TypeOK'
    BY <1>1, <1>2, <1>4, <2>1, <2>2 DEF TypeOK, TaskOK, Up, counts
  <2>4. TasksRun'
    BY <1>1, <2>2 DEF TasksRun, Up
  <2>5. KeysStay' /\ RecordsBound(stored)'
    BY <1>1, <1>2, <2>1 DEF KeysStay, RecordsBound
  <2>. QED
    BY <1>2, <2>3, <2>4, <2>5 DEF Registry, SavedForCause
<1>6. CASE SaveFails
  <2>1. UNCHANGED <<stored, served, owed>> /\ faults' \in Nat /\ updates' \in Nat
    BY <1>1, <1>6 DEF SaveFails, Fault, TypeOK
  <2>2. TypeOK'
    BY <1>1, <1>2, <1>4, <2>1 DEF TypeOK, TaskOK, Up
  <2>3. TasksRun'
    BY <1>1, <1>3, <2>1 DEF TasksRun, Up, IdleTask
  <2>4. KeysStay' /\ RecordsBound(stored)'
    BY <1>1, <1>2, <2>1 DEF KeysStay, RecordsBound
  <2>. QED
    BY <1>2, <2>2, <2>3, <2>4 DEF Registry, SavedForCause
<1>. QED
  BY <1>5, <1>6

\* The server dies, and its tasks with it.
LEMMA CrashKeeps == ASSUME Registry, Crash PROVE Registry'
<1>1. TypeOK /\ KeysStay /\ RecordsBound(stored)
  BY DEF Registry
<1>2. /\ served' = NoKey /\ saving' = NoSave /\ owed' \in [Dispatches -> SUBSET Clients]
      /\ UNCHANGED <<stored, day, dead, boundTo>> /\ faults' \in Nat /\ updates' \in Nat
  BY <1>1 DEF Crash, Fault, TypeOK, world
<1>3. /\ dispatch' \in [Dispatches -> Tasks]
      /\ \A d \in Dispatches : TaskOK(dispatch'[d]) /\ dispatch'[d].pc = "idle"
  BY DEF Crash, IdleTask, Tasks, Targets, TaskOK
<1>4. TypeOK'
  BY <1>1, <1>2, <1>3 DEF TypeOK, TaskOK, Up
<1>. QED
  BY <1>1, <1>2, <1>3, <1>4 DEF Registry, TasksRun, KeysStay, RecordsBound, SavedForCause

\* A step of the task d that leaves the file and the keys alone, and after which
\* it is x, keeps the registry sound.
LEMMA TaskKeeps ==
  ASSUME Registry, NEW d \in Dispatches, NEW x \in Tasks,
         dispatch' = [dispatch EXCEPT ![d] = x], TaskOK(x),
         x.pc # "save", dispatch[d].pc # "save", x.pc # "idle" => Up,
         UNCHANGED <<stored, served, saving, world>>,
         owed' \in [Dispatches -> SUBSET Clients], updates' \in Nat, faults' \in Nat
  PROVE  Registry'
<1>1. /\ TypeOK /\ TasksRun /\ KeysStay /\ RecordsBound(stored) /\ SavedForCause
      /\ saving # NoSave => RecordsBound(saving.state)
      /\ dispatch \in [Dispatches -> Tasks]
      /\ UNCHANGED <<stored, served, saving, day, dead, boundTo>>
  BY DEF Registry, TypeOK, world
<1>2. dispatch'[d] = x /\ \A e \in Dispatches \ {d} : dispatch'[e] = dispatch[e]
  BY <1>1
<1>3. dispatch' \in [Dispatches -> Tasks]
  BY <1>1
<1>4. \A e \in Dispatches : TaskOK(dispatch'[e])
                            /\ (dispatch'[e].pc = "save" <=> saving # NoSave /\ saving.by = e)
  BY <1>1, <1>2 DEF TypeOK
<1>5. TypeOK'
  BY <1>1, <1>3, <1>4 DEF TypeOK, TaskOK, Up
<1>6. TasksRun'
  BY <1>1, <1>2 DEF TasksRun, Up
<1>. QED
  BY <1>1, <1>5, <1>6 DEF Registry, KeysStay, RecordsBound, SavedForCause, Expired

\* Dispatches are spawned or given up, load their targets, and deliver.
LEMMA DispatchKeeps ==
  ASSUME Registry, NEW d \in Dispatches,
         \/ MainAdvances(d) \/ Spawns(d) \/ HangsUp(d)
         \/ LoadTargets(d) \/ LoadFails(d) \/ Deliver(d)
  PROVE  Registry'
<1>1. /\ TypeOK /\ TasksRun /\ dispatch \in [Dispatches -> Tasks] /\ TaskOK(dispatch[d])
      /\ owed \in [Dispatches -> SUBSET Clients] /\ updates \in Nat /\ faults \in Nat
  BY DEF Registry, TypeOK
<1>2. IdleTask \in Tasks /\ TaskOK(IdleTask) /\ IdleTask.pc = "idle"
  BY DEF IdleTask, Tasks, Targets, TaskOK
<1>3. CASE MainAdvances(d)
  <2>1. [IdleTask EXCEPT !.pc = "spawn"] \in Tasks /\ TaskOK([IdleTask EXCEPT !.pc = "spawn"])
    BY DEF IdleTask, Tasks, Targets, TaskOK
  <2>2. /\ dispatch' = [dispatch EXCEPT ![d] = [IdleTask EXCEPT !.pc = "spawn"]] /\ Up
        /\ UNCHANGED <<stored, served, saving, world>> /\ dispatch[d].pc = "idle"
        /\ owed' \in [Dispatches -> SUBSET Clients] /\ updates' \in Nat /\ faults' \in Nat
    BY <1>1, <1>2, <1>3 DEF MainAdvances
  <2>3. [IdleTask EXCEPT !.pc = "spawn"].pc = "spawn"
    BY DEF IdleTask
  <2>. QED
    BY <2>1, <2>2, <2>3, TaskKeeps
<1>4. CASE Spawns(d)
  <2> DEFINE x == [dispatch[d] EXCEPT !.pc = "load"]
  <2>1. x \in Tasks /\ TaskOK(x) /\ x.pc = "load"
    BY <1>1, <1>4 DEF Spawns, Tasks, TaskOK
  <2>2. /\ dispatch' = [dispatch EXCEPT ![d] = x] /\ dispatch[d].pc = "spawn" /\ Up
        /\ UNCHANGED <<stored, served, saving, world, owed, updates, faults>>
    BY <1>1, <1>4 DEF Spawns, counts, TasksRun
  <2>. HIDE DEF x
  <2>. QED
    BY <1>1, <2>1, <2>2, TaskKeeps
<1>5. ASSUME GivesUp(d), dispatch[d].pc # "save", updates' \in Nat, faults' \in Nat
      PROVE  Registry'
  <2>1. /\ dispatch' = [dispatch EXCEPT ![d] = IdleTask]
        /\ UNCHANGED <<stored, served, saving, world>>
        /\ owed' \in [Dispatches -> SUBSET Clients]
    BY <1>1, <1>5 DEF GivesUp
  <2>. HIDE DEF IdleTask
  <2>. QED
    BY <1>2, <1>5, <2>1, TaskKeeps
<1>6. CASE HangsUp(d) \/ LoadFails(d)
  <2>1. GivesUp(d) /\ dispatch[d].pc # "save" /\ updates' \in Nat /\ faults' \in Nat
    BY <1>1, <1>6 DEF HangsUp, LoadFails, Fault, counts
  <2>. QED
    BY <1>5, <2>1
<1>7. CASE LoadTargets(d)
  <2> DEFINE y == [dispatch[d] EXCEPT !.pc = "deliver", !.todo = AllTargets]
             x == IF AllTargets = {} THEN IdleTask ELSE y
  <2>1. /\ dispatch[d].pc = "load" /\ Up /\ dispatch' = [dispatch EXCEPT ![d] = x]
        /\ UNCHANGED <<stored, served, saving, world, owed, updates, faults>>
    BY <1>1, <1>7 DEF LoadTargets, DeliverTo, TasksRun, counts
  <2>2. AllTargets \in Targets
    BY DEF AllTargets, Targets
  <2>3. y \in Tasks /\ y.pc = "deliver" /\ y.todo = AllTargets /\ y.revoked = dispatch[d].revoked
    BY <1>1, <2>2 DEF Tasks
  <2>4. AllTargets # {} => TaskOK(y)
    BY <1>1, <2>1, <2>3 DEF TaskOK
  <2>5. x \in Tasks /\ TaskOK(x) /\ x.pc \in {"idle", "deliver"}
    BY <1>2, <2>3, <2>4
  <2>. HIDE DEF x
  <2>. QED
    BY <1>1, <2>1, <2>5, TaskKeeps
<1>8. CASE Deliver(d)
  <2>1. PICK t \in dispatch[d].todo : Attempt(d, t, dispatch[d].todo \ {t})
    BY <1>8 DEF Deliver
  <2> DEFINE todo == dispatch[d].todo \ {t}
             revoked == dispatch[d].revoked \cup (IF t[2] \in dead THEN {t} ELSE {})
             y == [dispatch[d] EXCEPT !.todo = todo, !.revoked = revoked]
             z == [pc |-> "remove", todo |-> {}, revoked |-> revoked]
             x == Delivered(dispatch[d], t, todo)
  <2>2. /\ dispatch[d].pc = "deliver" /\ Up /\ dispatch' = [dispatch EXCEPT ![d] = x]
        /\ UNCHANGED <<stored, served, saving, world, updates, faults>>
    BY <1>1, <1>8, <2>1 DEF Deliver, Attempt, TasksRun, counts
  <2>3. owed' \in [Dispatches -> SUBSET Clients]
    <3>1. owed' = owed \/ owed' = [owed EXCEPT ![d] = @ \ {t[1]}]
      BY <2>1 DEF Attempt
    <3>. QED
      BY <1>1, <3>1
  <2>4. x = IF todo # {} THEN y ELSE IF revoked = {} THEN IdleTask ELSE z
    BY DEF Delivered
  <2>5. todo \in Targets /\ revoked \in Targets /\ \A r \in revoked : r[2] \in dead
    BY <1>1, <2>1 DEF Tasks, Targets, TaskOK
  <2>. HIDE DEF todo, revoked, x
  <2>6. /\ y \in Tasks /\ z \in Tasks /\ y.pc = "deliver" /\ z.pc = "remove"
        /\ y.todo = todo /\ y.revoked = revoked
    BY <1>1, <2>2, <2>5 DEF Tasks, Targets
  <2>7. (todo # {} => TaskOK(y)) /\ (revoked # {} => TaskOK(z))
    BY <2>5, <2>6 DEF TaskOK
  <2>. HIDE DEF y, z
  <2>8. x \in Tasks /\ TaskOK(x) /\ x.pc # "save"
    BY <1>2, <2>4, <2>6, <2>7
  <2>. QED
    BY <1>1, <2>2, <2>3, <2>8, TaskKeeps
<1>. QED
  BY <1>3, <1>4, <1>6, <1>7, <1>8

\* Subscriptions are made and disowned, and time passes.
LEMMA WorldKeeps ==
  ASSUME Registry, DayPasses \/ \E s \in Subs : Subscribe(s) \/ Disown(s)
  PROVE  Registry'
<1>1. /\ TypeOK /\ TasksRun /\ KeysStay /\ RecordsBound(stored) /\ SavedForCause
      /\ saving # NoSave => RecordsBound(saving.state)
  BY DEF Registry
<1>2. /\ UNCHANGED <<stored, served, saving, dispatch, owed, updates, faults>>
      /\ day' \in Nat /\ day <= day' /\ dead \subseteq dead' /\ dead' \subseteq Subs
      /\ boundTo' \in [Subs -> Keys \cup {NoKey}]
  BY <1>1 DEF DayPasses, Subscribe, Disown, counts, TypeOK
<1>3. \A s \in Subs : \/ boundTo'[s] = boundTo[s]
                      \/ boundTo[s] = NoKey /\ boundTo'[s] = served /\ Up
  BY <1>1 DEF DayPasses, Subscribe, Disown, TypeOK
<1>4. TypeOK'
  BY <1>1, <1>2 DEF TypeOK, TaskOK, Up
<1>5. KeysStay'
  BY <1>1, <1>2, <1>3 DEF KeysStay, TypeOK
<1>6. /\ RecordsBound(stored)' /\ (saving # NoSave => RecordsBound(saving.state)')
      /\ TasksRun'
  BY <1>1, <1>2, <1>3 DEF RecordsBound, TypeOK, States, Records, TasksRun, Up
<1>7. SavedForCause'
  <2>1. ASSUME NEW c \in Clients, stored.records[c] # NoRecord, Expired(stored.records[c])
        PROVE  Expired(stored.records[c])'
    <3>1. stored.records[c].seen \in Nat /\ Ttl \in Nat /\ day \in Nat
      BY <1>1, <2>1, PushBounds DEF TypeOK, States, Records
    <3>. QED
      BY <1>2, <2>1, <3>1 DEF Expired
  <2>. QED
    BY <1>1, <1>2, <2>1 DEF SavedForCause, Expired
<1>. QED
  BY <1>2, <1>4, <1>5, <1>6, <1>7 DEF Registry

\* The registry stays sound, whatever the server, its clients, its tasks and the
\* push service do next.
LEMMA RegistryStep == Registry /\ [Next]_vars => Registry'
<1>. SUFFICES ASSUME Registry, [Next]_vars PROVE Registry'
  OBVIOUS
<1>1. CASE UNCHANGED vars
  BY <1>1 DEF vars, Registry, TypeOK, Up, TaskOK, TasksRun, KeysStay, RecordsBound,
              SavedForCause, Expired
<1>2. CASE Boot
  BY <1>2, BootKeeps
<1>3. CASE Rename \/ SaveFails
  BY <1>3, SaveEnds
<1>4. CASE Crash
  BY <1>4, CrashKeeps
<1>5. ASSUME NEW c \in Clients,
             DeletePushEndpoint(c) \/ \E s \in Subs : RegisterPushEndpoint(c, s)
      PROVE  Registry'
  BY <1>5, RequestKeeps
<1>6. ASSUME NEW d \in Dispatches,
             \/ MainAdvances(d) \/ Spawns(d) \/ HangsUp(d)
             \/ LoadTargets(d) \/ LoadFails(d) \/ Deliver(d)
      PROVE  Registry'
  BY <1>6, DispatchKeeps
<1>7. ASSUME NEW d \in Dispatches, RemoveRevoked(d)
      PROVE  Registry'
  BY <1>7, RemoveKeeps
<1>8. CASE DayPasses \/ \E s \in Subs : Subscribe(s) \/ Disown(s)
  BY <1>8, WorldKeeps
<1>. QED
  BY <1>1, <1>2, <1>3, <1>4, <1>5, <1>6, <1>7, <1>8 DEF Next

\* The registry is sound in every reachable state.
LEMMA AlwaysSound == Spec => []Registry
BY InitRegistry, RegistryStep, PTL DEF Spec

\* The types hold, the keys in use are those on disk, and a temporary file has
\* exactly one holder: the server as it starts, a request, or a task that saves.
THEOREM TypeCorrect == Spec => []TypeOK
<1>1. Registry => TypeOK
  BY DEF Registry
<1>. QED
  BY <1>1, AlwaysSound, PTL

\* Every registered subscription was made for the keys that the server signs
\* with: a crash between the save of new keys and their use, or in any other save,
\* leaves no client with a subscription that it cannot be notified on.
THEOREM Signed == Spec => []SignedAsSubscribed
<1>1. Registry => SignedAsSubscribed
  <2>. SUFFICES ASSUME Registry, Up, NEW c \in Clients, NEW s \in Subs, Registered(c, s)
                PROVE  boundTo[s] = served
    BY DEF SignedAsSubscribed
  <2>1. boundTo[s] # NoKey
    BY UpHasKeys
  <2>2. boundTo[s] = stored.vapid /\ served = stored.vapid
    BY <2>1 DEF Registry, KeysStay, TypeOK
  <2>. QED
    BY <2>2
<1>. QED
  BY <1>1, AlwaysSound, PTL

\* A record leaves the file by the hand of its client, because it expired, or
\* because the push service disowned its subscription.  What was disowned was an
\* older one of the same client: the new one stays.
THEOREM Leaves == Spec => OnlyLeavesForCause
<1> DEFINE Stays ==
      \A c \in Clients :
        LET old == stored.records[c] IN
          (old # NoRecord /\ stored'.records[c] # old)
            => saving.by = c \/ Expired(old) \/ old.sub \in dead
<1>1. ASSUME Registry, [Next]_vars PROVE [Stays]_vars
  <2>1. CASE Rename
    BY <1>1, <2>1 DEF Rename, Registry, SavedForCause
  <2>2. CASE UNCHANGED stored
    BY <2>2
  <2>3. Rename \/ UNCHANGED stored
    BY <1>1 DEF Next, vars, Boot, SaveFails, Crash, DeletePushEndpoint, RegisterPushEndpoint,
                MainAdvances, Spawns, HangsUp, LoadFails, GivesUp, LoadTargets, DeliverTo,
                Deliver, Attempt, RemoveRevoked, Remove, Subscribe, Disown, DayPasses
  <2>. QED
    BY <2>1, <2>2, <2>3
<1>2. Spec => [][Stays]_vars
  BY <1>1, AlwaysSound, PTL DEF Spec
<1>. QED
  BY <1>2 DEF OnlyLeavesForCause
================================================================================
