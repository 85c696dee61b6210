---------------------------- MODULE SyncLocal_proofs ----------------------------
(***************************************************************************)
(* The safety properties of SyncLocal, for any number of clients, edits,   *)
(* commits, crashes and faults.                                            *)
(*                                                                         *)
(* First the types, with what makes every store call move branches forward *)
(* (Typed), then the invariant of a pull and a push (Kept), from which the *)
(* properties follow.                                                      *)
(***************************************************************************)
EXTENDS SyncLocal, StoreOps_proofs

\* What the process is about to promote contains the tip it was made for.
PromotesForward ==
  /\ pending # Nothing => Forward(repo.commits, pending.expected, pending.commit)
  /\ pc \in {"resume", "write", "save", "promote"} =>
       Forward(repo.commits, offer.expected, offer.commit)

Typed == TypeOK /\ RepoOK(repo) /\ PromotesForward

\* TypeOK less the repository: the values, and what the process knows of commits.
ValuesOK ==
  /\ opened \in [Clients -> Databases \cup {NoFile}] /\ lost \subseteq Clients \ {Me}
  /\ misled \in BOOLEAN
  /\ file \in Databases \cup {NoFile}
  /\ synced \in BOOLEAN /\ startup \in BOOLEAN /\ missed \in BOOLEAN
  /\ unsent \in {"no", "push", "merge"} /\ overlooked \in Nat
  /\ pending \in Notes \cup {Nothing}
  /\ pc \in Pcs /\ queue \subseteq {"local", "main"}
  /\ offer \in Offers /\ sent \in [db: Databases, same: BOOLEAN]
  /\ stream \in {"down", "up", "told"}
  /\ saved \subseteq Entries
  /\ bounds \in Nat \X Nat \X Nat
KnownOK ==
  /\ pending # Nothing => pending.commit \in Ids(repo.commits)
  /\ pc \in {"resume", "write", "save", "promote"} => offer.commit \in Ids(repo.commits)
  /\ pc \in {"write", "save", "promote"} => offer.db = repo.commits[offer.commit].db
  /\ pc \in {"save", "promote", "clear"} =>
       file # NoFile /\ offer.db.entries \subseteq file.entries

\* The invariant, taken apart.
LEMMA TypedParts == Typed <=> ValuesOK /\ KnownOK /\ RepoOK(repo) /\ PromotesForward
BY DEF Typed, TypeOK, ValuesOK, KnownOK, RepoOK

--------------------------------------------------------------------------------
(* What the steps do to the repository.                                    *)

\* The server carries the promote out, as a whole or by half.
Promotes == ServerPromotes \/ ServerHalfPromotes

\* A promote puts the branch of this client on the offer, or does nothing.
LEMMA PromoteStep ==
  ASSUME Typed, pc \in {"resume", "promote"}, Promotes
  PROVE  /\ Evolves(repo, repo', {Me}) /\ repo'.commits = repo.commits
         /\ \/ repo' = repo
            \/ /\ Promotable(repo, Me, offer.commit, offer.expected)
               /\ repo'.heads[Me] = offer.commit
         /\ Promotable(repo, Me, offer.commit, offer.expected) => repo'.heads[Me] = offer.commit
<1>1. /\ RepoOK(repo) /\ Forward(repo.commits, offer.expected, offer.commit) /\ Me \in Clients
      /\ Me \in Branches /\ offer.commit \in Ids(repo.commits)
  BY MeIsAClient DEF Typed, TypeOK, PromotesForward, Branches
<1>2. CASE /\ Promotable(repo, Me, offer.commit, offer.expected)
           /\ repo' = PromoteMerge(repo, Me, offer.commit)
  BY <1>1, <1>2, PromoteFacts
<1>3. CASE /\ Promotable(repo, Me, offer.commit, offer.expected)
           /\ repo' = MoveBranch(repo, Me, offer.commit)
  <2> DEFINE d == offer.commit
  <2>1. d \in Ids(repo.commits) /\ Forward(repo.commits, repo.heads[Me], d)
        /\ repo' = MoveBranch(repo, Me, d)
    BY <1>1, <1>3 DEF Promotable
  <2>. HIDE DEF d
  <2>2. Evolves(repo, repo', {Me}) /\ repo'.commits = repo.commits /\ repo'.heads[Me] = d
    BY <1>1, <2>1, MoveFacts
  <2>. QED
    BY <1>3, <2>2 DEF d
<1>4. CASE ~Promotable(repo, Me, offer.commit, offer.expected) /\ repo' = repo
  BY <1>1, <1>4, EvolvesStays
<1>. QED
  BY <1>2, <1>3, <1>4 DEF Promotes, ServerPromotes, ServerHalfPromotes

\* merge-from-main moves no branch; what it offers is new to this client's branch.
LEMMA RequestStep ==
  ASSUME Typed, repo' = IF UpToDate(repo, Me) THEN repo ELSE CreateMerge(repo, Me)
  PROVE  /\ Evolves(repo, repo', {}) /\ DropsNothing(repo, repo')
         /\ ~UpToDate(repo, Me) =>
              /\ repo'.temp[Me] \in Ids(repo'.commits)
              /\ Forward(repo'.commits, repo.heads[Me], repo'.temp[Me])
              /\ ~IsAncestor(repo.commits, repo'.temp[Me], repo.heads[Me])
<1>1. RepoOK(repo) /\ Me \in Clients
  BY MeIsAClient DEF Typed
<1>2. CASE UpToDate(repo, Me)
  BY <1>1, <1>2, EvolvesStays DEF DropsNothing
<1>3. CASE ~UpToDate(repo, Me)
  <2>1. repo' = CreateMerge(repo, Me)
    BY <1>3
  <2>. QED
    BY <1>1, <1>3, <2>1, CreateMergeFacts
<1>. QED
  BY <1>2, <1>3

\* h is g after an upload, whose merge into main may have failed.
Uploaded(g, c, db, h) == h = ClientWrite(g, c, db) \/ h = CommitTo(g, c, db)

\* The writes of an upload: the branch and main move, edits stay if the upload
\* holds those of the branch.
LEMMA UploadStep ==
  ASSUME NEW g, RepoOK(g), NEW c \in Clients, NEW db \in Databases, NEW h,
         Uploaded(g, c, db, h)
  PROVE  /\ Evolves(g, h, {c, Main}) /\ h.temp = g.temp
         /\ h.heads[c] # None /\ Content(h, c) = db
         /\ (g.heads[c] # None => Content(g, c).entries \subseteq db.entries)
              => DropsNothing(g, h)
<1>1. CASE h = ClientWrite(g, c, db)
  BY <1>1, ClientWriteFacts
<1>2. CASE h = CommitTo(g, c, db)
  <2>1. c \in Branches
    BY DEF Branches
  <2>2. Evolves(g, h, {c}) /\ h.temp = g.temp /\ h.heads[c] # None /\ Content(h, c) = db
    BY <1>2, <2>1, CommitToFacts
  <2>3. (g.heads[c] # None => Content(g, c).entries \subseteq db.entries) => DropsNothing(g, h)
    BY <1>2, <2>1, CommitToFacts
  <2>. QED
    BY <2>2, <2>3 DEF Evolves
<1>. QED
  BY <1>1, <1>2 DEF Uploaded

\* Another client opens its database: its branch takes main in.
LEMMA OpensStep ==
  ASSUME Typed, NEW c \in Clients \ {Me}, NEW trouble, Opens(c, trouble)
  PROVE  /\ Evolves(repo, repo', {c}) /\ repo'.temp = repo.temp /\ DropsNothing(repo, repo')
         /\ repo.heads[Main] # None => repo'.heads[c] # None
         /\ misled' = misled
         /\ \/ lost' = lost \cup {c} /\ opened' = opened
            \/ /\ lost' = lost \ {c} /\ Served(repo', c) \in Databases
               /\ opened' = [opened EXCEPT ![c] = Served(repo', c)]
<1> DEFINE g == EnsureBranch(repo, c)
<1>1. RepoOK(repo) /\ c \in Branches /\ Main \in Branches
  BY DEF Typed, Branches
<1>2. repo' = g \/ repo' = MergeInto(g, Main, c)
  BY DEF Opens
<1>3. g = EnsureBranch(repo, c)
  OBVIOUS
<1>4. /\ misled' = misled
      /\ \/ lost' = lost \cup {c} /\ opened' = opened
         \/ lost' = lost \ {c} /\ opened' = [opened EXCEPT ![c] = Served(repo', c)]
  BY DEF Opens
<1>. HIDE DEF g
<1>5. Evolves(repo, g, {c}) /\ g.temp = repo.temp /\ g.commits = repo.commits
  BY <1>1, <1>3, EnsureFacts
<1>6. repo.heads[Main] # None => g.heads[c] # None
  BY <1>1, <1>3, EnsureMakes
<1>7. RepoOK(g)
  BY <1>5 DEF Evolves
<1>8. Evolves(g, repo', {c}) /\ repo'.temp = g.temp /\ DropsNothing(g, repo')
  <2>1. CASE repo' = g
    BY <1>7, <2>1, EvolvesStays DEF DropsNothing
  <2>2. CASE repo' = MergeInto(g, Main, c)
    BY <1>1, <1>7, <2>2, MergeIntoFacts
  <2>. QED
    BY <1>2, <2>1, <2>2
<1>9. Evolves(repo, repo', {c})
  <2> DEFINE bs == {c}
  <2>1. RepoOK(repo) /\ Evolves(repo, g, bs) /\ Evolves(g, repo', bs)
    BY <1>1, <1>5, <1>8
  <2>. HIDE DEF bs
  <2>2. Evolves(repo, repo', bs)
    BY <2>1, EvolvesTwice
  <2>. QED
    BY <2>2 DEF bs
<1>10. DropsNothing(repo, repo')
  BY <1>5, <1>8 DEF DropsNothing
<1>11. repo.heads[Main] # None => repo'.heads[c] # None
  BY <1>1, <1>6, <1>8, HeadsStay
<1>12. Served(repo', c) \in Databases
  <2>1. RepoOK(repo')
    BY <1>9 DEF Evolves
  <2>2. [NoDb EXCEPT !.entries = {}] \in Databases
    BY NoDbType DEF Databases
  <2>. QED
    BY <1>1, <2>1, <2>2, HeadIsCommit DEF Served
<1>. QED
  BY <1>4, <1>5, <1>8, <1>9, <1>10, <1>11, <1>12

\* A copy with more edits.
Edited(copy, es) == [copy EXCEPT !.entries = @ \cup es]

\* It is a database that holds what the copy held.
LEMMA EditedIsDatabase ==
  ASSUME NEW copy \in Databases, NEW es \in SUBSET Entries
  PROVE  /\ Edited(copy, es) \in Databases
         /\ copy.entries \subseteq Edited(copy, es).entries
BY DEF Edited, Databases

\* Another client saves its copy: no edit is lost but by one who was misled.
LEMMA SavesStep ==
  ASSUME Typed, NEW c \in Clients \ {Me}, NEW es \in SUBSET Entries, NEW trouble,
         Saves(c, es, trouble)
  PROVE  /\ Evolves(repo, repo', {c, Main}) /\ repo'.temp = repo.temp
         /\ repo'.heads[c] # None /\ Content(repo', c) = Edited(opened[c], es)
         /\ opened[c] \in Databases
         /\ opened' = [opened EXCEPT ![c] = Edited(opened[c], es)]
         /\ lost' = lost /\ misled' \in BOOLEAN /\ (misled => misled')
         /\ (/\ repo.heads[c] # None /\ ~misled'
             /\ c \notin lost => Content(repo, c).entries \subseteq opened[c].entries)
              => DropsNothing(repo, repo')
<1> DEFINE g == EnsureBranch(repo, c)
           new == Edited(opened[c], es)
<1>1. /\ RepoOK(repo) /\ c \in Branches /\ Main \in Branches
      /\ opened[c] \in Databases /\ opened[c] # NoFile /\ misled \in BOOLEAN
  BY DEF Typed, TypeOK, Branches, Saves
<1>2. /\ Uploaded(g, c, new, repo')
      /\ opened' = [opened EXCEPT ![c] = new]
      /\ misled' = (misled \/ (c \in lost /\ ~Unchanged(g, c, new)))
      /\ lost' = lost
  BY DEF Saves, Edited, Uploaded
<1>3. g = EnsureBranch(repo, c) /\ new = Edited(opened[c], es)
  OBVIOUS
<1>. HIDE DEF g, new
<1>4. new \in Databases /\ opened[c].entries \subseteq new.entries
  BY <1>1, <1>3, EditedIsDatabase
<1>5. Evolves(repo, g, {c}) /\ g.temp = repo.temp /\ g.commits = repo.commits
  BY <1>1, <1>3, EnsureFacts
<1>6. repo.heads[c] # None => g = repo
  BY <1>3 DEF EnsureBranch
<1>7. RepoOK(g)
  BY <1>5 DEF Evolves
<1>8. /\ Evolves(g, repo', {c, Main}) /\ repo'.temp = g.temp
      /\ repo'.heads[c] # None /\ Content(repo', c) = new
  BY <1>2, <1>4, <1>7, UploadStep
<1>9. (g.heads[c] # None => Content(g, c).entries \subseteq new.entries) => DropsNothing(g, repo')
  BY <1>2, <1>4, <1>7, UploadStep
<1>10. Evolves(repo, g, {c, Main})
  BY <1>5 DEF Evolves
<1>11. Evolves(repo, repo', {c, Main})
  <2> DEFINE bs == {c, Main}
  <2>1. RepoOK(repo) /\ Evolves(repo, g, bs) /\ Evolves(g, repo', bs)
    BY <1>1, <1>8, <1>10
  <2>. HIDE DEF bs
  <2>2. Evolves(repo, repo', bs)
    BY <2>1, EvolvesTwice
  <2>. QED
    BY <2>2 DEF bs
<1>12. ASSUME repo.heads[c] # None, ~misled',
              c \notin lost => Content(repo, c).entries \subseteq opened[c].entries
       PROVE  DropsNothing(repo, repo')
  <2>1. CASE c \notin lost
    BY <1>4, <1>6, <1>9, <1>12, <2>1
  <2>2. CASE Unchanged(g, c, new)
    BY <1>6, <1>9, <1>12, <2>2 DEF Unchanged
  <2>. QED
    BY <1>2, <1>12, <2>1, <2>2
<1>. QED
  BY <1>1, <1>2, <1>3, <1>5, <1>8, <1>11, <1>12

--------------------------------------------------------------------------------
(* Types.                                                                  *)

\* The invariant, put together again.
LEMMA TypedPartsNext ==
  ASSUME ValuesOK', KnownOK', RepoOK(repo'), PromotesForward'
  PROVE  Typed'
BY DEF Typed, TypeOK, ValuesOK, KnownOK, RepoOK

\* The values of locals that are not in use.
LEMMA Defaults ==
  /\ NoOffer \in Offers /\ NotSent \in [db: Databases, same: BOOLEAN]
  /\ \A n \in Notes : [NoOffer EXCEPT !.commit = n.commit, !.expected = n.expected] \in Offers
BY NoDbType DEF NoOffer, NotSent, Offers, Notes, None

\* A fault is counted.
LEMMA BoundsGrow ==
  ASSUME ValuesOK, NoFault \/ Fault
  PROVE  bounds' \in Nat \X Nat \X Nat
BY DEF ValuesOK, NoFault, Fault, bounds

\* A subscriber is told, or misses it.
LEMMA Notified ==
  ASSUME ValuesOK, NEW moved, Notify(moved)
  PROVE  stream' \in {"down", "up", "told"} /\ missed' \in BOOLEAN
BY DEF ValuesOK, Notify

\* What the process knows of commits stays true when the repository evolves.
LEMMA KnownStays ==
  ASSUME Typed, NEW bs, Evolves(repo, repo', bs)
  PROVE  /\ RepoOK(repo')
         /\ \A i \in Ids(repo.commits) : i \in Ids(repo'.commits)
                                         /\ repo'.commits[i] = repo.commits[i]
         /\ pending # Nothing => /\ pending.commit \in Ids(repo'.commits)
                                 /\ Forward(repo'.commits, pending.expected, pending.commit)
         /\ pc \in {"resume", "write", "save", "promote"} =>
              /\ offer.commit \in Ids(repo'.commits)
              /\ Forward(repo'.commits, offer.expected, offer.commit)
         /\ pc \in {"write", "save", "promote"} => offer.db = repo'.commits[offer.commit].db
<1>1. RepoOK(repo') /\ Grows(repo.commits, repo'.commits)
  BY DEF Evolves
<1>2. \A i \in Ids(repo.commits) : i \in Ids(repo'.commits) /\ repo'.commits[i] = repo.commits[i]
  BY <1>1 DEF Grows, Ids, RepoOK, Repos, Typed
<1>3. \A a : \A d \in Ids(repo.commits) : Forward(repo.commits, a, d) => Forward(repo'.commits, a, d)
  BY <1>1, ForwardGrows
<1>. QED
  BY <1>1, <1>2, <1>3 DEF Typed, TypeOK, PromotesForward

\* A step that notes nothing, and leaves the process where it is or sends it to a
\* place where it has no offer.
LEMMA TypedQuiet ==
  ASSUME Typed, NEW bs, Evolves(repo, repo', bs), ValuesOK', UNCHANGED pending,
         \/ pc' \notin {"resume", "write", "save", "promote", "clear"}
         \/ /\ UNCHANGED <<pc, offer>>
            /\ file # NoFile => (file' # NoFile /\ file.entries \subseteq file'.entries)
  PROVE  Typed'
<1>1. PromotesForward'
  BY KnownStays DEF PromotesForward
<1>2. pending' # Nothing => pending'.commit \in Ids(repo'.commits)
  BY KnownStays
<1>3. CASE pc' \notin {"resume", "write", "save", "promote", "clear"}
  BY <1>1, <1>2, <1>3, KnownStays, TypedPartsNext DEF KnownOK
<1>4. CASE /\ UNCHANGED <<pc, offer>>
           /\ file # NoFile => (file' # NoFile /\ file.entries \subseteq file'.entries)
  <2>1. KnownOK'
    BY <1>2, <1>4, KnownStays DEF KnownOK, Typed, TypeOK
  <2>. QED
    BY <1>1, <2>1, KnownStays, TypedPartsNext
<1>. QED
  BY <1>3, <1>4

\* The process between pulls, the event stream, and the user of the file.
LEMMA LoopTypes ==
  ASSUME Typed,
         \/ Launch \/ Watch \/ Once \/ TakeMainChanged \/ TakeLocalChanged
         \/ Deliver \/ Drop \/ \E e \in Entries : Edit(e)
  PROVE  Typed'
<1>1. Evolves(repo, repo', {})
  <2>1. repo' = repo
    BY DEF Launch, Watch, Once, TakeMainChanged, TakeLocalChanged, Deliver, Drop, Edit
  <2>. QED
    BY <2>1, EvolvesStays DEF Typed
<1>2. ValuesOK /\ UNCHANGED pending
  BY TypedParts DEF Launch, Watch, Once, TakeMainChanged, TakeLocalChanged, Deliver, Drop, Edit,
                    disk
<1>3. CASE Launch \/ Once
  <2>1. ValuesOK'
    BY <1>2, <1>3, Defaults DEF Launch, Once, ValuesOK, Forgotten, Goto, Pcs, programs, disk,
                                ghosts, bounds
  <2>. QED
    BY <1>1, <1>2, <1>3, <2>1, TypedQuiet DEF Launch, Once, Goto
<1>4. CASE Watch \/ TakeMainChanged
  <2>1. ValuesOK'
    BY <1>2, <1>4 DEF Watch, TakeMainChanged, ValuesOK, Goto, Pcs, programs, disk, ghosts, bounds
  <2>. QED
    BY <1>1, <1>2, <1>4, <2>1, TypedQuiet DEF Watch, TakeMainChanged, Goto
<1>5. CASE TakeLocalChanged
  <2>1. ValuesOK'
    <3>1. sent' \in [db: Databases, same: BOOLEAN]
      <4>1. sent' = sent \/ (file \in Databases /\ sent' = [db |-> file, same |-> TRUE])
        BY <1>2, <1>5 DEF TakeLocalChanged, ValuesOK
      <4>2. ASSUME NEW db \in Databases
            PROVE  [db |-> db, same |-> TRUE] \in [db: Databases, same: BOOLEAN]
        OBVIOUS
      <4>3. sent \in [db: Databases, same: BOOLEAN]
        BY <1>2 DEF ValuesOK
      <4>. QED
        BY <4>1, <4>2, <4>3
    <3>2. pc' \in Pcs /\ queue' \subseteq {"local", "main"}
      BY <1>2, <1>5 DEF TakeLocalChanged, ValuesOK, Goto, Pcs
    <3>3. unsent' \in {"no", "push", "merge"}
      BY <1>2, <1>5 DEF TakeLocalChanged, PushFails, ValuesOK
    <3>4. bounds' \in Nat \X Nat \X Nat
      BY <1>2, <1>5, BoundsGrow DEF TakeLocalChanged
    <3>. QED
      BY <1>2, <1>5, <3>1, <3>2, <3>3, <3>4 DEF TakeLocalChanged, ValuesOK, programs, disk
  <2>2. pc' \in {"loop", "put"}
    BY <1>5 DEF TakeLocalChanged, Goto
  <2>. QED
    BY <1>1, <1>2, <2>1, <2>2, TypedQuiet
<1>6. CASE Deliver \/ Drop
  <2>1. ValuesOK'
    <3>1. CASE Deliver
      BY <1>2, <3>1 DEF Deliver, ValuesOK, programs, disk, ghosts, bounds
    <3>2. CASE Drop
      <4>1. missed' \in BOOLEAN
        BY <1>2, <3>2 DEF Drop, ValuesOK
      <4>2. bounds' \in Nat \X Nat \X Nat
        BY <1>2, <3>2 DEF Drop, ValuesOK, bounds
      <4>. QED
        BY <1>2, <3>2, <4>1, <4>2 DEF Drop, ValuesOK, programs, disk
    <3>. QED
      BY <1>6, <3>1, <3>2
  <2>2. UNCHANGED <<pc, offer, file>>
    BY <1>6 DEF Deliver, Drop, disk
  <2>. QED
    BY <1>1, <1>2, <2>1, <2>2, TypedQuiet
<1>7. ASSUME NEW e \in Entries, Edit(e) PROVE Typed'
  <2>1. file \in Databases /\ file' = Edited(file, {e}) /\ UNCHANGED <<pc, offer>>
    BY <1>2, <1>7 DEF Edit, ValuesOK, Edited
  <2>2. file' \in Databases /\ file.entries \subseteq file'.entries
    BY <2>1, EditedIsDatabase
  <2>3. ValuesOK'
    BY <1>2, <1>7, <2>2 DEF Edit, ValuesOK, programs, bounds
  <2>4. file' # NoFile
    BY <2>2, NoFileIsNoDatabase
  <2>. QED
    BY <1>1, <1>2, <2>1, <2>2, <2>3, <2>4, TypedQuiet
<1>. QED
  BY <1>3, <1>4, <1>5, <1>6, <1>7

\* The steps of a push: both handlers of a PUT, and the subscription.
LEMMA PushRepo ==
  ASSUME Typed, PutEnsure \/ PutWrite \/ Connect
  PROVE  Evolves(repo, repo', {Me, Main}) /\ repo'.temp = repo.temp
<1>1. RepoOK(repo) /\ Me \in Clients /\ sent.db \in Databases
  BY MeIsAClient DEF Typed, TypeOK
<1>2. CASE repo' = repo
  BY <1>1, <1>2, EvolvesStays
<1>3. CASE repo' = EnsureBranch(repo, Me)
  <2>1. Evolves(repo, repo', {Me}) /\ repo'.temp = repo.temp
    BY <1>1, <1>3, EnsureFacts
  <2>. QED
    BY <2>1 DEF Evolves
<1>4. CASE Uploaded(repo, Me, sent.db, repo')
  BY <1>1, <1>4, UploadStep
<1>5. PutEnsure => repo' \in {repo, EnsureBranch(repo, Me)}
  BY DEF PutEnsure
<1>6. PutWrite => repo' = repo \/ Uploaded(repo, Me, sent.db, repo')
  BY DEF PutWrite, PutArrives, PutStopsShort, Uploaded
<1>7. Connect => repo' = EnsureBranch(repo, Me)
  BY DEF Connect
<1>. QED
  BY <1>2, <1>3, <1>4, <1>5, <1>6, <1>7

\* They leave nothing to promote.
LEMMA PushTypes ==
  ASSUME Typed, PutEnsure \/ PutWrite \/ Connect
  PROVE  Typed'
<1>1. Evolves(repo, repo', {Me, Main}) /\ ValuesOK
  BY PushRepo, TypedParts
<1>2. CASE PutEnsure
  <2>1. pc' \in {"putWrite", "loop"} /\ UNCHANGED pending
    BY <1>2 DEF PutEnsure, Goto, disk
  <2>2. ValuesOK'
    <3>1. bounds' \in Nat \X Nat \X Nat
      BY <1>1, <1>2, BoundsGrow DEF PutEnsure
    <3>2. sent' \in [db: Databases, same: BOOLEAN] /\ unsent' \in {"no", "push", "merge"}
      BY <1>1, <1>2, Defaults DEF PutEnsure, PushFails, ValuesOK
    <3>. QED
      BY <1>1, <1>2, <2>1, <3>1, <3>2 DEF PutEnsure, ValuesOK, Pcs, programs, disk
  <2>. QED
    BY <1>1, <2>1, <2>2, TypedQuiet
<1>3. CASE PutWrite
  <2>1. pc' = "loop" /\ UNCHANGED pending
    BY <1>3 DEF PutWrite, Goto
  <2>2. ValuesOK'
    <3>1. bounds' \in Nat \X Nat \X Nat
      BY <1>1, <1>3, BoundsGrow DEF PutWrite
    <3>2. synced' \in BOOLEAN /\ unsent' \in {"no", "push", "merge"}
      BY <1>1, <1>3 DEF PutWrite, PutArrives, PutStopsShort, PushFails, ValuesOK
    <3>3. stream' \in {"down", "up", "told"} /\ missed' \in BOOLEAN
      BY <1>1, <1>3, Notified DEF PutWrite, ValuesOK
    <3>. QED
      BY <1>1, <1>3, <2>1, <3>1, <3>2, <3>3, Defaults DEF PutWrite, ValuesOK, Pcs, programs
  <2>. QED
    BY <1>1, <2>1, <2>2, TypedQuiet
<1>4. CASE Connect
  <2>1. UNCHANGED <<pc, offer, file, pending>>
    BY <1>4 DEF Connect, disk
  <2>2. ValuesOK'
    BY <1>1, <1>4 DEF Connect, ValuesOK, programs, disk, ghosts, bounds
  <2>. QED
    BY <1>1, <2>1, <2>2, TypedQuiet
<1>. QED
  BY <1>2, <1>3, <1>4

\* A reconcile that ends leaves nothing to promote.
LEMMA ReconcileLeft ==
  ASSUME ReconcileFails \/ ReconcileEnds
  PROVE  pc' \in {"exited", "loop", "watch"} /\ offer' \in Offers
BY Defaults DEF ReconcileFails, ReconcileEnds, Goto

\* What the process does to the repository in a pull.
LEMMA PullRepo ==
  ASSUME Typed,
         \/ Load \/ Resume \/ Forget \/ RequestMerge \/ WriteFile \/ SaveState \/ Promote
         \/ ClearState
  PROVE  Evolves(repo, repo', {Me})
<1>1. CASE repo' = repo
  BY <1>1, EvolvesStays DEF Typed
<1>2. CASE pc \in {"resume", "promote"} /\ Promotes
  BY <1>2, PromoteStep
<1>3. CASE repo' = IF UpToDate(repo, Me) THEN repo ELSE CreateMerge(repo, Me)
  BY <1>3, RequestStep DEF Evolves
<1>4. Load \/ Forget \/ WriteFile \/ SaveState \/ ClearState => repo' = repo
  BY DEF Load, Forget, WriteFile, SaveState, ClearState
<1>5. Resume \/ Promote => pc \in {"resume", "promote"} /\ (repo' = repo \/ Promotes)
  BY DEF Resume, Promote, Promotes
<1>6. RequestMerge => \/ repo' = repo
                      \/ repo' = IF UpToDate(repo, Me) THEN repo ELSE CreateMerge(repo, Me)
  BY DEF RequestMerge
<1>. QED
  BY <1>1, <1>2, <1>3, <1>4, <1>5, <1>6

\* The notes on disk are looked at, used, and thrown away.
LEMMA NoteTypes ==
  ASSUME Typed, Load \/ Resume \/ Forget \/ ClearState
  PROVE  Typed'
<1>1. Evolves(repo, repo', {Me}) /\ ValuesOK
  BY PullRepo, TypedParts
<1>2. CASE Load
  <2>1. UNCHANGED <<programs, repo, disk, startup, queue, sent, stream, saved, missed, unsent>>
    BY <1>2 DEF Load
  <2>2. pending \in Notes \cup {Nothing} /\ \A n \in Notes : n.commit \in Nat
    BY <1>1 DEF ValuesOK, Notes
  <2>3. overlooked' \in Nat
    BY <1>1, <1>2, <2>2 DEF Load, Unread, ValuesOK
  <2>4. bounds' \in Nat \X Nat \X Nat
    BY <1>1, <1>2, BoundsGrow DEF Load, Unread, NoFault
  <2>5. CASE pc' = "request" /\ UNCHANGED offer
    <3>1. ValuesOK'
      BY <1>1, <2>1, <2>3, <2>4, <2>5 DEF ValuesOK, Pcs, programs, disk
    <3>. QED
      BY <1>1, <2>1, <2>5, <3>1, TypedQuiet DEF disk
  <2>6. CASE /\ pending # Nothing /\ pc' = "resume"
             /\ offer' = [NoOffer EXCEPT !.commit = pending.commit, !.expected = pending.expected]
    <3>1. pending \in Notes /\ UNCHANGED <<repo, pending>>
      BY <2>1, <2>2, <2>6 DEF disk
    <3>2. offer' \in Offers /\ offer'.commit = pending.commit /\ offer'.expected = pending.expected
      BY <2>6, <3>1, Defaults DEF NoOffer
    <3>3. ValuesOK'
      BY <1>1, <2>1, <2>3, <2>4, <2>6, <3>2 DEF ValuesOK, Pcs, programs, disk
    <3>4. KnownOK' /\ PromotesForward'
      BY <2>6, <3>1, <3>2 DEF KnownOK, PromotesForward, Typed, TypeOK
    <3>. QED
      BY <1>1, <3>3, <3>4, TypedPartsNext DEF Evolves
  <2>. QED
    BY <1>2, <2>5, <2>6 DEF Load, Unread, Goto
<1>3. CASE Resume
  <2>1. pc' \in {"forget", "conflict", "exited", "loop"} /\ offer' \in {NoOffer, offer}
    BY <1>3 DEF Resume, ReconcileFails, Goto
  <2>2. missed' \in BOOLEAN
    BY <1>1, <1>3 DEF Resume, ReconcileFails, ValuesOK
  <2>3. ValuesOK'
    <3>1. bounds' \in Nat \X Nat \X Nat
      BY <1>1, <1>3, BoundsGrow DEF Resume
    <3>2. UNCHANGED <<programs, disk, startup, queue, sent, stream, saved, unsent, overlooked>>
      BY <1>3 DEF Resume
    <3>3. offer' \in Offers
      BY <1>1, <2>1, Defaults DEF ValuesOK
    <3>. QED
      BY <1>1, <2>1, <2>2, <3>1, <3>2, <3>3 DEF ValuesOK, Pcs, programs, disk
  <2>. QED
    BY <1>1, <1>3, <2>1, <2>3, TypedQuiet DEF Resume, disk
<1>4. CASE Forget \/ ClearState
  <2>1. pc' \in {"request", "loop", "watch"} /\ offer' \in Offers /\ UNCHANGED repo
    BY <1>1, <1>4, ReconcileLeft DEF Forget, ClearState, Goto, ValuesOK, ReconcileEnds
  <2>2. pending' \in {pending, Nothing}
    BY <1>4 DEF Forget, ClearState
  <2>3. ValuesOK'
    <3>1. bounds' \in Nat \X Nat \X Nat
      BY <1>1, <1>4, BoundsGrow DEF Forget, ClearState
    <3>2. UNCHANGED <<programs, file, synced, startup, queue, sent, stream, ghosts>>
      BY <1>4 DEF Forget, ClearState
    <3>. QED
      BY <1>1, <2>1, <2>2, <3>1, <3>2 DEF ValuesOK, Pcs, programs, ghosts
  <2>4. KnownOK' /\ PromotesForward'
    BY <2>1, <2>2 DEF KnownOK, PromotesForward, Typed, TypeOK
  <2>. QED
    BY <1>1, <2>3, <2>4, TypedPartsNext DEF Evolves
<1>. QED
  BY <1>2, <1>3, <1>4

\* A merge is asked for, written to the file, noted and promoted.
LEMMA PullTypes ==
  ASSUME Typed, RequestMerge \/ WriteFile \/ SaveState \/ Promote
  PROVE  Typed'
<1>1. Evolves(repo, repo', {Me}) /\ ValuesOK /\ RepoOK(repo')
  BY PullRepo, TypedParts DEF Evolves
<1>2. bounds' \in Nat \X Nat \X Nat
  BY <1>1, BoundsGrow DEF RequestMerge, WriteFile, SaveState, Promote
<1>3. CASE RequestMerge
  <2> DEFINE g == IF UpToDate(repo, Me) THEN repo ELSE CreateMerge(repo, Me)
  <2>1. UNCHANGED <<programs, disk, startup, queue, sent, stream, saved, unsent, overlooked>>
    BY <1>3 DEF RequestMerge
  <2>2. missed' \in BOOLEAN
    BY <1>1, <1>3 DEF RequestMerge, ReconcileFails
  <2>3. CASE ReconcileFails \/ ReconcileEnds
    <3>1. pc' \in {"exited", "loop", "watch"} /\ offer' \in Offers
      BY <2>3, ReconcileLeft
    <3>2. ValuesOK'
      BY <1>1, <1>2, <2>1, <2>2, <3>1 DEF ValuesOK, Pcs, programs, disk
    <3>. QED
      BY <1>1, <2>1, <3>1, <3>2, TypedQuiet DEF disk
  <2>4. CASE /\ ~UpToDate(repo, Me) /\ repo' = g /\ pc' = "write"
             /\ offer' = [commit |-> g.temp[Me], expected |-> repo.heads[Me],
                          db |-> g.commits[g.temp[Me]].db]
    <3>1. repo' = IF UpToDate(repo, Me) THEN repo ELSE CreateMerge(repo, Me)
      BY <2>4
    <3>2. /\ offer'.commit = repo'.temp[Me] /\ offer'.expected = repo.heads[Me]
          /\ offer'.db = repo'.commits[offer'.commit].db
          /\ offer' = [commit |-> repo'.temp[Me], expected |-> repo.heads[Me],
                       db |-> repo'.commits[repo'.temp[Me]].db]
      BY <2>4
    <3>3. /\ offer'.commit \in Ids(repo'.commits)
          /\ Forward(repo'.commits, offer'.expected, offer'.commit)
      BY <2>4, <3>1, <3>2, RequestStep
    <3>4. offer' \in Offers
      <4>1. repo' \in Repos /\ repo \in Repos /\ Me \in Branches
        BY <1>1, MeIsAClient DEF RepoOK, Typed, Branches
      <4>2. repo'.commits[offer'.commit].db \in Databases /\ offer'.commit \in Nat
        <5>1. repo'.commits \in Seq(Commits) /\ offer'.commit \in 1..Len(repo'.commits)
          BY <3>3, <4>1 DEF Repos, Ids
        <5>2. repo'.commits[offer'.commit] \in Commits
          BY <5>1
        <5>. QED
          BY <5>1, <5>2 DEF Commits
      <4>. QED
        BY <3>2, <4>1, <4>2 DEF Offers, Repos
    <3>5. ValuesOK'
      BY <1>1, <1>2, <2>1, <2>2, <2>4, <3>4 DEF ValuesOK, Pcs, programs, disk
    <3>6. KnownOK' /\ PromotesForward'
      BY <1>1, <2>1, <2>4, <3>2, <3>3, KnownStays DEF KnownOK, PromotesForward, disk
    <3>. QED
      BY <1>1, <3>5, <3>6, TypedPartsNext
  <2>. QED
    BY <1>3, <2>3, <2>4 DEF RequestMerge, Goto
<1>4. CASE WriteFile
  <2>1. UNCHANGED <<programs, repo, pending, startup, sent, stream, saved, unsent, overlooked>>
    BY <1>4 DEF WriteFile
  <2>2. CASE ReconcileFails /\ UNCHANGED <<file, synced, queue>>
    <3>1. pc' \in {"exited", "loop", "watch"} /\ offer' \in Offers /\ missed' \in BOOLEAN
      BY <2>2, ReconcileLeft DEF ReconcileFails
    <3>2. ValuesOK'
      BY <1>1, <1>2, <2>1, <2>2, <3>1 DEF ValuesOK, Pcs, programs
    <3>. QED
      BY <1>1, <2>1, <3>1, <3>2, TypedQuiet
  <2>3. CASE /\ pc' = "save" /\ file' = offer.db /\ synced' = TRUE
             /\ queue' = (IF startup THEN queue ELSE queue \cup {"local"})
             /\ UNCHANGED <<missed, offer>>
    <3>1. offer.db \in Databases
      BY <1>1 DEF ValuesOK, Offers
    <3>2. queue' \subseteq {"local", "main"}
      BY <1>1, <2>3 DEF ValuesOK
    <3>3. ValuesOK'
      BY <1>1, <1>2, <2>1, <2>3, <3>1, <3>2 DEF ValuesOK, Pcs, programs
    <3>4. KnownOK' /\ PromotesForward'
      BY <1>4, <2>1, <2>3, <3>1, NoFileIsNoDatabase
      DEF KnownOK, PromotesForward, Typed, TypeOK, WriteFile
    <3>. QED
      BY <1>1, <3>3, <3>4, TypedPartsNext
  <2>. QED
    BY <1>4, <2>2, <2>3 DEF WriteFile, Goto
<1>5. CASE SaveState
  <2>1. /\ UNCHANGED <<programs, repo, file, synced, startup, queue, offer, sent, stream, ghosts>>
        /\ pc = "save" /\ pc' = "promote"
    BY <1>5 DEF SaveState, Goto
  <2>2. /\ offer.commit \in Ids(repo.commits) /\ offer.commit \in Nat /\ offer.expected \in Nat
        /\ Forward(repo.commits, offer.expected, offer.commit)
    BY <1>1, <2>1 DEF Typed, TypeOK, PromotesForward, ValuesOK, Offers
  <2>3. pending' = pending \/ pending' = [commit |-> offer.commit, expected |-> offer.expected]
    BY <1>5 DEF SaveState
  <2>4. pending' \in Notes \cup {Nothing}
    BY <1>1, <2>2, <2>3 DEF ValuesOK, Notes
  <2>5. ValuesOK'
    BY <1>1, <1>2, <2>1, <2>4 DEF ValuesOK, Pcs, programs, ghosts
  <2>6. pending' # Nothing => /\ pending'.commit \in Ids(repo.commits)
                              /\ Forward(repo.commits, pending'.expected, pending'.commit)
    BY <2>2, <2>3 DEF Typed, TypeOK, PromotesForward
  <2>7. KnownOK' /\ PromotesForward'
    BY <2>1, <2>2, <2>6 DEF KnownOK, PromotesForward, Typed, TypeOK
  <2>. QED
    BY <1>1, <2>5, <2>7, TypedPartsNext
<1>6. CASE Promote
  <2>1. /\ UNCHANGED <<programs, disk, startup, queue, offer, sent, stream, ghosts>>
        /\ pc = "promote" /\ pc' \in {"clear", "conflict", "promote"}
    BY <1>6 DEF Promote, Goto
  <2>2. ValuesOK'
    BY <1>1, <1>2, <2>1 DEF ValuesOK, Pcs, programs, disk, ghosts
  <2>3. KnownOK' /\ PromotesForward'
    BY <1>1, <2>1, KnownStays DEF KnownOK, PromotesForward, Typed, TypeOK, disk
  <2>. QED
    BY <1>1, <2>2, <2>3, TypedPartsNext
<1>. QED
  BY <1>3, <1>4, <1>5, <1>6

\* What peers do: only to their own copies, and their branches.
LEMMA PeerOpensStep ==
  ASSUME Typed, NEW user \in Clients, NEW path \in Clients, PeerOpens(user, path)
  PROVE  /\ path \in Clients \ {Me} /\ \E trouble : Opens(path, trouble)
         /\ UNCHANGED <<disk, pc, startup, queue, offer, sent, saved, unsent, overlooked>>
         /\ bounds' \in Nat \X Nat \X Nat
         /\ stream' \in {"down", "up", "told"} /\ missed' \in BOOLEAN
<1>1. ValuesOK
  BY TypedParts
<1>2. PICK trouble : /\ NoFault \/ Fault
                     /\ Opens(path, trouble) /\ Notify(OpenAnnounces(path, trouble))
  BY DEF PeerOpens
<1>3. /\ path \in Clients \ {Me}
      /\ UNCHANGED <<disk, pc, startup, queue, offer, sent, saved, unsent, overlooked>>
  BY DEF PeerOpens, Authenticated
<1>. QED
  BY <1>1, <1>2, <1>3, BoundsGrow, Notified

\* A peer's upload is a save to its own branch, or one that failed; the daemon and
\* its files know nothing of it.
LEMMA PeerSavesStep ==
  ASSUME Typed, NEW user \in Clients, NEW path \in Clients,
         NEW es, PeerSaves(user, path, es)
  PROVE  /\ path \in Clients \ {Me} /\ es \in SUBSET Entries
         /\ (\E trouble : Saves(path, es, trouble)) \/ SaveFails(path, es)
         /\ UNCHANGED <<disk, pc, startup, queue, offer, sent, saved, unsent, overlooked>>
         /\ bounds' \in Nat \X Nat \X Nat
         /\ stream' \in {"down", "up", "told"} /\ missed' \in BOOLEAN
<1>1. ValuesOK
  BY TypedParts
<1>2. /\ path \in Clients \ {Me} /\ es \in SUBSET Entries
      /\ UNCHANGED <<disk, pc, startup, queue, offer, sent, saved, unsent, overlooked>>
  BY DEF PeerSaves, Authenticated, Fresh, Unmade
<1>3. CASE Fault /\ SaveFails(path, es) /\ UNCHANGED <<stream, missed>>
  BY <1>1, <1>2, <1>3, BoundsGrow DEF ValuesOK
<1>4. CASE \E trouble \in Troubles :
             /\ IF trouble = "no" THEN NoFault ELSE Fault
             /\ Saves(path, es, trouble) /\ Notify(SaveAnnounces(path, es, trouble))
  <2>1. PICK trouble : /\ NoFault \/ Fault
                       /\ Saves(path, es, trouble) /\ Notify(SaveAnnounces(path, es, trouble))
    BY <1>4
  <2>. QED
    BY <1>1, <1>2, <2>1, BoundsGrow, Notified
<1>. QED
  BY <1>3, <1>4 DEF PeerSaves

\* The edits of an upload that failed stay in the copy.
LEMMA SaveFailsStep ==
  ASSUME Typed, NEW c \in Clients \ {Me}, NEW es \in SUBSET Entries, SaveFails(c, es)
  PROVE  /\ opened[c] \in Databases /\ UNCHANGED <<repo, lost, misled>>
         /\ opened' = [opened EXCEPT ![c] = Edited(opened[c], es)]
<1>1. opened \in [Clients -> Databases \cup {NoFile}]
  BY DEF Typed, TypeOK
<1>. QED
  BY <1>1 DEF SaveFails, Edited

\* What peers do keeps the types.
LEMMA PeerTypes ==
  ASSUME Typed, NEW user \in Clients, NEW path \in Clients,
         PeerOpens(user, path) \/ \E es \in {{}} \cup {{e} : e \in Entries} : PeerSaves(user, path, es)
  PROVE  Typed'
<1>1. ValuesOK /\ RepoOK(repo)
  BY TypedParts
<1>2. ASSUME NEW bs, Evolves(repo, repo', bs), NEW db \in Databases,
             \/ opened' = opened \/ opened' = [opened EXCEPT ![path] = db],
             lost' \subseteq Clients \ {Me}, misled' \in BOOLEAN,
             UNCHANGED <<disk, pc, startup, queue, offer, sent, saved, unsent, overlooked>>,
             bounds' \in Nat \X Nat \X Nat,
             stream' \in {"down", "up", "told"}, missed' \in BOOLEAN
      PROVE  Typed'
  <2>1. opened' \in [Clients -> Databases \cup {NoFile}]
    BY <1>1, <1>2 DEF ValuesOK
  <2>2. ValuesOK'
    BY <1>1, <1>2, <2>1 DEF ValuesOK, disk
  <2>. QED
    BY <1>2, <2>2, TypedQuiet DEF disk
<1>3. CASE PeerOpens(user, path)
  <2>1. /\ path \in Clients \ {Me}
        /\ UNCHANGED <<disk, pc, startup, queue, offer, sent, saved, unsent, overlooked>>
        /\ bounds' \in Nat \X Nat \X Nat
        /\ stream' \in {"down", "up", "told"} /\ missed' \in BOOLEAN
    BY <1>3, PeerOpensStep
  <2>2. PICK trouble : Opens(path, trouble)
    BY <1>3, PeerOpensStep
  <2>3. /\ Evolves(repo, repo', {path}) /\ misled' = misled
        /\ \/ lost' = lost \cup {path} /\ opened' = opened
           \/ /\ lost' = lost \ {path} /\ Served(repo', path) \in Databases
              /\ opened' = [opened EXCEPT ![path] = Served(repo', path)]
    BY <2>1, <2>2, OpensStep
  <2>4. lost' \subseteq Clients \ {Me} /\ misled' \in BOOLEAN
    BY <1>1, <2>1, <2>3 DEF ValuesOK
  <2>5. CASE opened' = opened
    BY <1>2, <2>1, <2>3, <2>4, <2>5, NoDbType
  <2>6. CASE /\ Served(repo', path) \in Databases
             /\ opened' = [opened EXCEPT ![path] = Served(repo', path)]
    BY <1>2, <2>1, <2>3, <2>4, <2>6
  <2>. QED
    BY <2>3, <2>5, <2>6
<1>4. ASSUME NEW es, PeerSaves(user, path, es) PROVE Typed'
  <2>1. /\ path \in Clients \ {Me} /\ es \in SUBSET Entries
        /\ UNCHANGED <<disk, pc, startup, queue, offer, sent, saved, unsent, overlooked>>
        /\ bounds' \in Nat \X Nat \X Nat
        /\ stream' \in {"down", "up", "told"} /\ missed' \in BOOLEAN
    BY <1>4, PeerSavesStep
  <2>2. /\ opened[path] \in Databases /\ lost' = lost /\ misled' \in BOOLEAN
        /\ opened' = [opened EXCEPT ![path] = Edited(opened[path], es)]
        /\ \E bs : Evolves(repo, repo', bs)
    <3>1. CASE \E trouble : Saves(path, es, trouble)
      BY <2>1, <3>1, SavesStep
    <3>2. CASE SaveFails(path, es)
      BY <1>1, <2>1, <3>2, SaveFailsStep, EvolvesStays DEF ValuesOK
    <3>. QED
      BY <1>4, <3>1, <3>2, PeerSavesStep
  <2>3. Edited(opened[path], es) \in Databases
    BY <2>1, <2>2, EditedIsDatabase
  <2>4. lost' \subseteq Clients \ {Me}
    BY <1>1, <2>2 DEF ValuesOK
  <2>. QED
    BY <1>2, <2>1, <2>2, <2>3, <2>4
<1>. QED
  BY <1>3, <1>4

\* A new repository is whole, and no commit in it lacks anything.
LEMMA NewRepo ==
  ASSUME NEW g, NEW d \in Databases, g = EmptyRepo \/ g = ImportedRepo(d, {})
  PROVE  RepoOK(g) /\ Monotone(g.commits)
<1> DEFINE e == <<>>
           ps == {}
<1>1. e \in Seq(Commits) /\ Len(e) = 0 /\ Ids(e) = {} /\ Tips(e) = {0}
  BY DEF Ids, Tips
<1>2. WellFormed(e) /\ ReachClosed(e) /\ Monotone(e)
  BY <1>1 DEF WellFormed, ReachClosed, Monotone
<1>3. CASE g = EmptyRepo
  <2>1. /\ g.commits = e /\ g.heads = [b \in Branches |-> 0] /\ g.temp = [c \in Clients |-> 0]
        /\ g \in [commits: {g.commits}, heads: {g.heads}, temp: {g.temp}]
    BY <1>3 DEF EmptyRepo, None
  <2>. HIDE DEF e
  <2>2. /\ g.heads \in [Branches -> Tips(e)] /\ g.temp \in [Clients -> Tips(e)]
        /\ g.heads \in [Branches -> Nat] /\ g.temp \in [Clients -> Nat]
    BY <1>1, <2>1
  <2>3. g \in Repos
    BY <1>1, <2>1, <2>2 DEF Repos
  <2>. QED
    BY <1>2, <2>1, <2>2, <2>3 DEF RepoOK
<1>4. CASE g = ImportedRepo(d, {})
  <2> DEFINE cs == AddCommit(e, ps, d)
  <2>1. /\ g.commits = cs /\ g.heads = [b \in Branches |-> IF b = Main THEN 1 ELSE 0]
        /\ g.temp = [c \in Clients |-> 0]
        /\ g \in [commits: {g.commits}, heads: {g.heads}, temp: {g.temp}]
    BY <1>4 DEF ImportedRepo, EmptyRepo, None
  <2>2. cs = AddCommit(e, ps, d) /\ ps \in SUBSET Ids(e) /\ \A q \in ps : FALSE
    OBVIOUS
  <2>. HIDE DEF cs, e, ps
  <2>3. cs \in Seq(Commits) /\ WellFormed(cs) /\ ReachClosed(cs)
    BY <1>1, <1>2, <2>2, AddCommitKeeps
  <2>4. Len(e) + 1 \in Ids(cs) /\ Ids(cs) \subseteq Tips(cs) /\ Tips(e) \subseteq Tips(cs)
    BY <1>1, <1>2, <2>2, AddCommitKeeps
  <2>5. Monotone(cs)
    BY <1>1, <1>2, <2>2, MonotoneGrows
  <2>6. {0, 1} \subseteq Tips(cs) /\ Tips(cs) \subseteq Nat
    BY <1>1, <2>3, <2>4 DEF Tips
  <2>7. /\ g.heads \in [Branches -> Tips(cs)] /\ g.temp \in [Clients -> Tips(cs)]
        /\ g.heads \in [Branches -> Nat] /\ g.temp \in [Clients -> Nat]
    BY <2>1, <2>6
  <2>8. g \in Repos
    BY <2>1, <2>3, <2>7 DEF Repos
  <2>. QED
    BY <2>1, <2>3, <2>5, <2>7, <2>8 DEF RepoOK
<1>. QED
  BY <1>3, <1>4

\* The daemon starts on an imported store and a file of its own.
LEMMA InitTyped == Init => Typed
<1>. SUFFICES ASSUME Init PROVE Typed
  OBVIOUS
<1>1. PICK db \in Databases :
        /\ file \in {NoFile, [NoDb EXCEPT !.entries = db.entries]}
        /\ saved = IF file = NoFile THEN {} ELSE file.entries
  BY DEF Init
<1>2. RepoOK(repo)
  <2>1. \E d \in Databases : repo = EmptyRepo \/ repo = ImportedRepo(d, {})
    BY <1>1 DEF Init
  <2>. QED
    BY <2>1, NewRepo
<1>3. [NoDb EXCEPT !.entries = db.entries] \in Databases
  BY NoDbType DEF Databases
<1>4. file \in Databases \cup {NoFile} /\ saved \subseteq Entries
  <2>1. \A d \in Databases : d.entries \subseteq Entries
    BY DEF Databases
  <2>. QED
    BY <1>1, <1>3, <2>1
<1>5. pc = "down" /\ pending = Nothing
  BY DEF Init
<1>6. /\ opened \in [Clients -> Databases \cup {NoFile}] /\ lost \subseteq Clients \ {Me}
      /\ misled \in BOOLEAN
  BY DEF Init, NothingOpened
<1>7. bounds \in Nat \X Nat \X Nat
  BY DEF Init, bounds
<1>8. ValuesOK
  BY <1>4, <1>5, <1>6, <1>7, Defaults, ImportedIsBoolean DEF Init, ValuesOK, Pcs, None
<1>9. KnownOK /\ PromotesForward
  BY <1>5 DEF KnownOK, PromotesForward
<1>. QED
  BY <1>2, <1>8, <1>9, TypedParts

\* Every step keeps the types.
LEMMA TypedStep == Typed /\ [Next]_vars => Typed'
<1>. SUFFICES ASSUME Typed, [Next]_vars PROVE Typed'
  OBVIOUS
<1>1. CASE UNCHANGED vars
  BY <1>1 DEF vars, davVars, Typed, TypeOK, RepoOK, PromotesForward, bounds, ReachClosed
<1>2. CASE Crash
  <2>1. ValuesOK /\ Evolves(repo, repo', {})
    BY <1>2, TypedParts, EvolvesStays DEF Crash, Typed
  <2>2. pending' \in {pending, Nothing} /\ pc' = "down" /\ UNCHANGED repo
    BY <1>2 DEF Crash, Goto
  <2>3. missed' \in BOOLEAN /\ bounds' \in Nat \X Nat \X Nat
    BY <1>2, <2>1 DEF Crash, ValuesOK, bounds
  <2>4. ValuesOK'
    BY <1>2, <2>1, <2>2, <2>3, Defaults DEF Crash, ValuesOK, Forgotten, programs, Pcs
  <2>5. KnownOK' /\ PromotesForward'
    BY <2>2 DEF KnownOK, PromotesForward, Typed, TypeOK
  <2>. QED
    BY <2>1, <2>4, <2>5, TypedPartsNext DEF Evolves
<1>3. CASE Wait
  BY <1>1, <1>3 DEF Wait
<1>4. CASE \/ Launch \/ Watch \/ Once \/ TakeMainChanged \/ TakeLocalChanged
           \/ Deliver \/ Drop \/ \E e \in Entries : Edit(e)
  BY <1>4, LoopTypes
<1>5. CASE PutEnsure \/ PutWrite \/ Connect
  BY <1>5, PushTypes
<1>6. CASE Load \/ Resume \/ Forget \/ ClearState
  BY <1>6, NoteTypes
<1>7. CASE RequestMerge \/ WriteFile \/ SaveState \/ Promote
  BY <1>7, PullTypes
<1>8. CASE \E user, path \in Clients :
             \/ PeerOpens(user, path)
             \/ \E es \in {{}} \cup {{e} : e \in Entries} : PeerSaves(user, path, es)
  BY <1>8, PeerTypes
<1>. QED
  BY <1>1, <1>2, <1>3, <1>4, <1>5, <1>6, <1>7, <1>8 DEF Next, Process

\* The types, and what the steps of a pull rely on: past the file write the file
\* holds the merge, a commit of the server, that the process is about to promote.
THEOREM TypeCorrect == Spec => []TypeOK
<1>1. Spec => []Typed
  BY InitTyped, TypedStep, PTL DEF Spec
<1>2. Typed => TypeOK
  BY DEF Typed
<1>. QED
  BY <1>1, <1>2, PTL

--------------------------------------------------------------------------------
(* The invariant of a pull and a push, when main exists from the start: the *)
(* branch of this client is moved by its own process only, and only to what *)
(* its file holds.                                                          *)

\* No one lost an edit on the server, unless misled.
Whole == repo.heads[Main] # None /\ (~misled => Monotone(repo.commits))

\* The copies of other clients hold what the server has on their branches.
CopiesHold ==
  \A c \in Clients \ {Me} : opened[c] # NoFile =>
    /\ repo.heads[c] # None
    /\ c \notin lost => Content(repo, c).entries \subseteq opened[c].entries

\* The first reconcile gives the client its branch.
BranchMade ==
  /\ Watching \/ pc \in {"forget", "clear", "watch"} => repo.heads[Me] # None
  /\ pc \in {"loop", "put", "putWrite"} => ~startup

\* A promote is of the pending merge, made for the tip that the branch has; one
\* that is asked for again may be done, as may one that is noted.
Done(n) == IsAncestor(repo.commits, n.commit, repo.heads[Me])
Held(n) == Promotable(repo, Me, n.commit, n.expected)
OfferOK ==
  /\ pc \in {"write", "save"} => Held(offer)
  /\ pc = "promote" => Held(offer) \/ Done(offer)
  /\ pc = "resume" => /\ pending # Nothing /\ offer.commit = pending.commit
                      /\ offer.expected = pending.expected

\* A note that was read when it was there is of a promote that is done, or can be
\* carried out; the second only until the process has tried.
Settled ==
  pc \in {"forget", "request", "write", "save", "clear", "watch"} \/ (Watching /\ pc # "promote")
PendingOK ==
  pending # Nothing /\ pending.commit # overlooked =>
    (Done(pending) \/ Held(pending)) /\ (Settled => Done(pending))

\* An upload holds what the branch has, and the file still holds the upload.
SentOK ==
  pc \in {"put", "putWrite"} =>
    /\ file # NoFile /\ sent.db.entries \subseteq file.entries
    /\ ~misled => Content(repo, Me).entries \subseteq sent.db.entries

\* The merges that the process notes and works on hold nothing but edits of the two
\* branches, and the file holds the noted one; the next merge will hold it too, so
\* that no later write takes it out of the file.
Merged(n) == repo.commits[n.commit].db.entries
NoteKnown ==
  pending # Nothing /\ ~misled =>
    /\ file # NoFile /\ Merged(pending) \subseteq file.entries
    /\ Merged(pending) \subseteq Sides(repo, Me)
OfferKnown ==
  pc \in {"write", "save"} /\ ~misled =>
    /\ offer.db.entries \subseteq Sides(repo, Me)
    /\ pc = "write" /\ pending # Nothing => Merged(pending) \subseteq offer.db.entries

ServerKept == Whole /\ CopiesHold
ProcessKept == /\ BranchMade /\ OfferOK /\ PendingOK /\ SentOK
               /\ BranchIsLocal /\ ConflictsAreDone
Remembered == NoteKnown /\ OfferKnown
Kept == Typed /\ ServerKept /\ ProcessKept /\ Remembered

\* Branches and clients, for the provers.
LEMMA Places == Me \in Clients /\ Me \in Branches /\ Main \in Branches /\ Me # Main
BY MeIsAClient, MainIsNoClient DEF Branches

\* Copies of clients whose branches no one wrote.
LEMMA CopyStays ==
  ASSUME RepoOK(repo), CopiesHold, NEW bs, Evolves(repo, repo', bs),
         NEW c \in Clients \ {Me}, c \notin bs, opened[c] # NoFile
  PROVE  /\ repo'.heads[c] # None
         /\ c \notin lost => Content(repo', c).entries \subseteq opened[c].entries
<1>1. c \in Branches /\ repo.heads[c] # None
  BY DEF Branches, CopiesHold
<1>2. repo'.heads[c] = repo.heads[c]
  BY <1>1 DEF Evolves
<1>3. Content(repo', c) = Content(repo, c)
  BY <1>1, ContentStays
<1>. QED
  BY <1>1, <1>2, <1>3 DEF CopiesHold

\* The server's side of a step of the process.
LEMMA OwnStepKeepsServer ==
  ASSUME Kept, Evolves(repo, repo', {Me, Main}), UNCHANGED programs,
         ~misled => DropsNothing(repo, repo')
  PROVE  ServerKept'
<1>1. RepoOK(repo) /\ Whole /\ CopiesHold
  BY DEF Kept, Typed, ServerKept
<1>2. Whole'
  BY <1>1, Places, HeadsStay DEF Whole, DropsNothing, programs
<1>3. ASSUME NEW c \in Clients \ {Me}, opened[c] # NoFile
      PROVE  /\ repo'.heads[c] # None
             /\ c \notin lost => Content(repo', c).entries \subseteq opened[c].entries
  <2>1. c \notin {Me, Main}
    BY MainIsNoClient
  <2>. QED
    BY <1>1, <1>3, <2>1, CopyStays
<1>. QED
  BY <1>2, <1>3 DEF ServerKept, CopiesHold, programs

\* A step in which the store leaves the branch of this client alone.
LEMMA BranchStays ==
  ASSUME Typed, NEW bs, Evolves(repo, repo', bs), Me \notin bs, repo'.temp[Me] = repo.temp[Me]
  PROVE  /\ repo'.heads[Me] = repo.heads[Me]
         /\ repo.heads[Me] # None => Content(repo', Me) = Content(repo, Me)
         /\ \A d, tip : Promotable(repo', Me, d, tip) <=> Promotable(repo, Me, d, tip)
         /\ \A d : IsAncestor(repo'.commits, d, repo'.heads[Me])
                   <=> IsAncestor(repo.commits, d, repo.heads[Me])
         /\ \A i \in Ids(repo.commits) : repo'.commits[i] = repo.commits[i]
<1>1. RepoOK(repo) /\ Me \in Branches
  BY Places DEF Typed
<1>2. repo'.heads[Me] = repo.heads[Me]
  BY <1>1 DEF Evolves
<1>3. repo.heads[Me] # None => Content(repo', Me) = Content(repo, Me)
  BY <1>1, <1>2, ContentStays
<1>4. \A i \in Ids(repo.commits) : repo'.commits[i] = repo.commits[i]
  BY DEF Evolves, Grows
<1>5. repo.heads[Me] # None => repo.heads[Me] \in Ids(repo.commits)
  BY <1>1, HeadIsCommit
<1>. QED
  BY <1>2, <1>3, <1>4, <1>5 DEF Promotable, Pending, IsAncestor

\* The steps between two calls: the store stands still, and a client that has a
\* branch keeps it.
Quiet ==
  \/ Launch \/ Load \/ Forget \/ WriteFile \/ SaveState \/ ClearState \/ Watch \/ Once
  \/ TakeMainChanged \/ TakeLocalChanged \/ PutEnsure \/ Connect \/ Deliver \/ Drop
  \/ Crash \/ \E e \in Entries : Edit(e)

\* A quiet step leaves the repository and the other programs as they are: the branch
\* that PutEnsure and Connect would make is there.
LEMMA QuietStore ==
  ASSUME Kept, Quiet
  PROVE  repo' = repo /\ UNCHANGED programs
<1>1. PutEnsure \/ Connect => repo.heads[Me] # None
  BY DEF Kept, ProcessKept, BranchMade, PutEnsure, Connect, Watching, Running
<1>2. repo.heads[Me] # None => EnsureBranch(repo, Me) = repo
  BY DEF EnsureBranch
<1>3. PutEnsure \/ Connect => repo' = repo /\ UNCHANGED programs
  BY <1>1, <1>2 DEF PutEnsure, Connect
<1>. QED
  BY <1>3 DEF Quiet, Launch, Load, Forget, WriteFile, SaveState, ClearState, Watch, Once,
              TakeMainChanged, TakeLocalChanged, Deliver, Drop, Crash, Edit

\* Where the process goes, whether it has a branch, and what it promotes.
LEMMA QuietPlaces ==
  ASSUME Kept, Quiet
  PROVE  (BranchMade /\ OfferOK /\ ConflictsAreDone)'
<1>1. /\ repo' = repo /\ BranchMade /\ OfferOK /\ ConflictsAreDone
      /\ startup \in BOOLEAN
  BY QuietStore DEF Kept, ProcessKept, Typed, TypeOK
<1>2. CASE Launch \/ Once \/ Crash
  BY <1>1, <1>2 DEF Launch, Once, Crash, Goto, BranchMade, OfferOK, ConflictsAreDone,
                    Watching, Running
<1>3. CASE Load
  BY <1>1, <1>3, Defaults DEF Load, Unread, Goto, BranchMade, OfferOK, ConflictsAreDone,
                    Watching, Running, disk, NoOffer
<1>4. CASE Forget
  BY <1>1, <1>4 DEF Forget, Goto, BranchMade, OfferOK, ConflictsAreDone, Watching, Running
<1>5. CASE WriteFile
  BY <1>1, <1>5 DEF WriteFile, ReconcileFails, Goto, BranchMade, OfferOK, Held,
                    ConflictsAreDone, Watching, Running
<1>6. CASE SaveState
  BY <1>1, <1>6 DEF SaveState, Goto, BranchMade, OfferOK, Held, ConflictsAreDone, Watching,
                    Running
<1>7. CASE ClearState
  BY <1>1, <1>7 DEF ClearState, ReconcileEnds, Goto, BranchMade, OfferOK, ConflictsAreDone,
                    Watching, Running
<1>8. CASE Watch
  BY <1>1, <1>8 DEF Watch, Goto, BranchMade, OfferOK, ConflictsAreDone, Watching, Running
<1>9. CASE TakeMainChanged \/ TakeLocalChanged
  BY <1>1, <1>9 DEF TakeMainChanged, TakeLocalChanged, Goto, BranchMade, OfferOK,
                    ConflictsAreDone, Watching, Running
<1>10. CASE PutEnsure
  BY <1>1, <1>10 DEF PutEnsure, Goto, BranchMade, OfferOK, ConflictsAreDone, Watching, Running
<1>11. CASE Connect \/ Deliver \/ Drop \/ \E e \in Entries : Edit(e)
  <2>1. UNCHANGED <<pc, startup, offer, pending, overlooked>>
    BY <1>11 DEF Connect, Deliver, Drop, Edit, disk, ghosts
  <2>. QED
    BY <1>1, <2>1 DEF BranchMade, OfferOK, Held, Done, ConflictsAreDone, Watching, Running
<1>. QED
  BY <1>2, <1>3, <1>4, <1>5, <1>6, <1>7, <1>8, <1>9, <1>10, <1>11 DEF Quiet

\* What is pending stays done, or possible.
LEMMA QuietPending ==
  ASSUME Kept, Quiet
  PROVE  PendingOK'
<1>1. repo' = repo /\ BranchMade /\ OfferOK /\ PendingOK /\ startup \in BOOLEAN
  BY QuietStore DEF Kept, ProcessKept, Typed, TypeOK
<1>2. ASSUME UNCHANGED <<pending, overlooked>>, Settled \/ ~Settled' PROVE PendingOK'
  BY <1>1, <1>2 DEF PendingOK, Done, Held
<1>3. ASSUME pending' = Nothing PROVE PendingOK'
  BY <1>3 DEF PendingOK
<1>4. CASE Launch \/ Once \/ Crash
  <2>1. pending' \in {pending, Nothing} /\ overlooked' = overlooked /\ ~Settled'
    BY <1>4 DEF Launch, Once, Crash, Goto, Settled, Watching, Running, ghosts
  <2>. QED
    BY <1>2, <1>3, <2>1
<1>5. CASE Load
  <2>1. CASE Unread
    BY <1>5, <2>1 DEF Load, Unread, PendingOK, disk
  <2>2. CASE UNCHANGED overlooked /\ (pending = Nothing \/ pc' = "resume")
    BY <1>2, <1>3, <1>5, <2>2 DEF Load, Settled, Watching, Running, disk
  <2>. QED
    BY <1>5, <2>1, <2>2 DEF Load, Goto
<1>6. CASE Forget \/ ClearState \/ WriteFile
  <2>1. Settled /\ pending' \in {pending, Nothing} /\ overlooked' = overlooked
    BY <1>6 DEF Forget, ClearState, WriteFile, Settled, ghosts
  <2>. QED
    BY <1>2, <1>3, <2>1
<1>7. CASE SaveState
  <2>1. overlooked' = overlooked /\ pc = "save" /\ pc' = "promote"
    BY <1>7 DEF SaveState, Goto, ghosts
  <2>2. CASE pending' = pending
    BY <1>2, <2>1, <2>2 DEF Settled
  <2>3. CASE pending' = [commit |-> offer.commit, expected |-> offer.expected]
    BY <1>1, <2>1, <2>3 DEF OfferOK, PendingOK, Held, Settled
  <2>. QED
    BY <1>7, <2>2, <2>3 DEF SaveState
<1>8. CASE Watch \/ TakeMainChanged \/ TakeLocalChanged \/ PutEnsure
  <2>1. Settled /\ UNCHANGED <<pending, overlooked>>
    BY <1>1, <1>8 DEF Watch, TakeMainChanged, TakeLocalChanged, PutEnsure, Settled, Watching,
                      Running, BranchMade, disk, ghosts
  <2>. QED
    BY <1>2, <2>1
<1>9. CASE Connect \/ Deliver \/ Drop \/ \E e \in Entries : Edit(e)
  <2>1. UNCHANGED <<pending, overlooked, pc, startup>>
    BY <1>9 DEF Connect, Deliver, Drop, Edit, disk, ghosts
  <2>. QED
    BY <1>2, <2>1 DEF Settled, Watching, Running
<1>. QED
  BY <1>4, <1>5, <1>6, <1>7, <1>8, <1>9 DEF Quiet

\* What the file holds, and what is on its way to the server.
LEMMA QuietFile ==
  ASSUME Kept, Quiet
  PROVE  (SentOK /\ BranchIsLocal)'
<1>1. /\ repo' = repo /\ misled' = misled /\ BranchMade /\ OfferOK /\ SentOK /\ BranchIsLocal
      /\ startup \in BOOLEAN
  BY QuietStore DEF Kept, ProcessKept, Typed, TypeOK, programs
<1>2. ASSUME \/ pc' \notin {"put", "putWrite"}
             \/ pc \in {"put", "putWrite"} /\ sent'.db = sent.db,
             file # NoFile => (file' # NoFile /\ file.entries \subseteq file'.entries)
      PROVE  (SentOK /\ BranchIsLocal)'
  BY <1>1, <1>2 DEF SentOK, BranchIsLocal
<1>3. CASE \/ Launch \/ Load \/ Forget \/ SaveState \/ ClearState \/ Watch \/ Once
           \/ TakeMainChanged \/ Crash
  <2>1. file' = file /\ pc' \notin {"put", "putWrite"}
    BY <1>3 DEF Launch, Load, Unread, Forget, SaveState, ClearState, Watch, Once,
                TakeMainChanged, Crash, Goto, ReconcileEnds, disk
  <2>. QED
    BY <1>2, <2>1
<1>4. CASE WriteFile
  <2>1. CASE file' = file
    BY <1>2, <1>4, <2>1 DEF WriteFile, ReconcileFails, Goto
  <2>2. CASE file' = offer.db
    <3>1. pc = "write" /\ pc' \notin {"put", "putWrite"}
      BY <1>4 DEF WriteFile, ReconcileFails, Goto
    <3>2. /\ offer.commit \in Ids(repo.commits) /\ offer.db = repo.commits[offer.commit].db
          /\ offer.db \in Databases /\ Forward(repo.commits, offer.expected, offer.commit)
          /\ repo.heads[Me] = offer.expected
      BY <1>1, <3>1 DEF Kept, Typed, TypeOK, Offers, PromotesForward, OfferOK, Held, Promotable
    <3>3. ASSUME repo.heads[Me] # None, ~misled
          PROVE  Content(repo, Me).entries \subseteq offer.db.entries
      <4>1. Monotone(repo.commits) /\ repo.heads[Me] \in repo.commits[offer.commit].reach
        BY <3>2, <3>3 DEF Kept, ServerKept, Whole, Forward, IsAncestor
      <4>. QED
        BY <3>2, <4>1 DEF Monotone, Content
    <3>. QED
      BY <1>1, <2>2, <3>1, <3>2, <3>3, NoFileIsNoDatabase DEF SentOK, BranchIsLocal
  <2>. QED
    BY <1>4, <2>1, <2>2 DEF WriteFile
<1>5. CASE TakeLocalChanged
  <2>1. file' = file /\ pc = "loop" /\ repo.heads[Me] # None
    BY <1>1, <1>5 DEF TakeLocalChanged, BranchMade, Watching, Running, disk
  <2>2. pc' \in {"put", "putWrite"} => file # NoFile /\ sent'.db = file
    BY <1>5 DEF TakeLocalChanged, Goto
  <2>. QED
    BY <1>1, <2>1, <2>2 DEF SentOK, BranchIsLocal
<1>6. CASE PutEnsure
  BY <1>2, <1>6 DEF PutEnsure, Goto, disk
<1>7. CASE Connect \/ Deliver \/ Drop
  BY <1>2, <1>7 DEF Connect, Deliver, Drop, disk
<1>8. ASSUME NEW e \in Entries, Edit(e) PROVE (SentOK /\ BranchIsLocal)'
  <2>1. pc' = pc /\ file \in Databases /\ file' = Edited(file, {e}) /\ sent'.db = sent.db
    BY <1>8 DEF Edit, Edited, Kept, Typed, TypeOK
  <2>2. file' # NoFile /\ file.entries \subseteq file'.entries
    BY <2>1, EditedIsDatabase, NoFileIsNoDatabase
  <2>. QED
    BY <1>2, <2>1, <2>2
<1>. QED
  BY <1>3, <1>4, <1>5, <1>6, <1>7, <1>8 DEF Quiet

\* So it keeps what the server and the daemon know of each other.
LEMMA QuietKeeps == ASSUME Kept, Quiet PROVE (ServerKept /\ ProcessKept)'
<1>1. Evolves(repo, repo', {Me, Main}) /\ DropsNothing(repo, repo')
  BY QuietStore, EvolvesStays DEF Kept, Typed, DropsNothing
<1>2. ServerKept'
  BY <1>1, QuietStore, OwnStepKeepsServer
<1>. QED
  BY <1>2, QuietPlaces, QuietPending, QuietFile DEF ProcessKept

\* merge-from-main: a new merge takes the place of one that was promoted.
LEMMA RequestKeeps == ASSUME Kept, RequestMerge PROVE (ServerKept /\ ProcessKept)'
<1>1. /\ Typed /\ BranchMade /\ OfferOK /\ PendingOK /\ SentOK /\ BranchIsLocal
      /\ startup \in BOOLEAN /\ Whole
  BY DEF Kept, ProcessKept, ServerKept, Typed, TypeOK
<1>2. pc = "request" /\ UNCHANGED <<programs, file, pending, startup, sent, overlooked>>
  BY DEF RequestMerge, disk
<1>3. pc' \in {"write", "exited", "watch", "loop"}
  BY DEF RequestMerge, ReconcileFails, ReconcileEnds, Goto
<1> DEFINE Asked == repo' = IF UpToDate(repo, Me) THEN repo ELSE CreateMerge(repo, Me)
<1>4. repo' = repo \/ Asked
  BY DEF RequestMerge
<1>5. Evolves(repo, repo', {}) /\ DropsNothing(repo, repo')
  <2>1. CASE repo' = repo
    BY <1>1, <2>1, EvolvesStays DEF Typed, DropsNothing
  <2>2. CASE Asked
    BY <1>1, <2>2, RequestStep
  <2>. QED
    BY <1>4, <2>1, <2>2
<1>6. ServerKept'
  BY <1>2, <1>5, OwnStepKeepsServer DEF Evolves
<1>7. repo'.heads[Me] = repo.heads[Me]
  BY <1>5, Places DEF Evolves
<1>8. repo.heads[Me] # None => Content(repo', Me) = Content(repo, Me)
  BY <1>1, <1>5, Places, ContentStays DEF Typed
<1>9. ASSUME pc' # "write" PROVE (BranchMade /\ OfferOK /\ ConflictsAreDone)'
  <2>1. pc' # "exited" => repo.heads[Me] # None /\ (pc' = "loop" => ~startup)
    <3>1. CASE ReconcileFails
      BY <1>1, <1>2, <3>1 DEF ReconcileFails, Goto, BranchMade, Watching, Running
    <3>2. CASE UpToDate(repo, Me) /\ ReconcileEnds
      BY <1>1, <3>2 DEF UpToDate, Contains, IsAncestor, Whole, ReconcileEnds, Goto
    <3>. QED
      BY <1>9, <3>1, <3>2 DEF RequestMerge, Goto
  <2>2. (BranchMade /\ OfferOK /\ ConflictsAreDone)'
    BY <1>2, <1>3, <1>7, <1>9, <2>1
    DEF BranchMade, OfferOK, ConflictsAreDone, Watching, Running
  <2>. QED
    BY <2>2
<1>10. ASSUME pc' = "write" PROVE (BranchMade /\ OfferOK /\ ConflictsAreDone)'
  <2>1. /\ ~UpToDate(repo, Me) /\ Asked
        /\ offer'.commit = repo'.temp[Me] /\ offer'.expected = repo.heads[Me]
    BY <1>2, <1>10 DEF RequestMerge, ReconcileFails, ReconcileEnds, Goto
  <2>2. repo'.temp[Me] \in Ids(repo'.commits)
    BY <1>1, <2>1, RequestStep
  <2>3. Promotable(repo', Me, offer'.commit, offer'.expected)
    BY <1>7, <2>1, <2>2 DEF Promotable, Pending, Ids, None
  <2>4. startup' = startup /\ (Watching => repo'.heads[Me] # None)
    BY <1>1, <1>2, <1>7 DEF BranchMade
  <2>5. Watching' => Watching
    BY <1>2 DEF Watching, Running
  <2>. QED
    BY <1>10, <2>3, <2>4, <2>5 DEF BranchMade, OfferOK, Held, ConflictsAreDone
<1>11. (BranchMade /\ OfferOK /\ ConflictsAreDone)'
  BY <1>9, <1>10
<1>12. PendingOK'
  <2>1. ASSUME pending # Nothing, pending.commit # overlooked PROVE Done(pending)'
    <3>1. /\ Done(pending) /\ pending.commit \in Ids(repo.commits)
          /\ pending.commit # None
      BY <1>1, <1>2, <2>1 DEF PendingOK, Settled, Typed, TypeOK, Ids, None
    <3>2. IsAncestor(repo'.commits, pending.commit, repo'.heads[Me])
      BY <1>1, <1>5, <3>1, Places, AncestorsStay DEF Done, Typed
    <3>. QED
      BY <1>2, <3>2 DEF Done
  <2>. QED
    BY <1>2, <2>1 DEF PendingOK
<1>13. (SentOK /\ BranchIsLocal)'
  BY <1>1, <1>2, <1>3, <1>7, <1>8 DEF SentOK, BranchIsLocal, programs
<1>. QED
  BY <1>6, <1>11, <1>12, <1>13 DEF ProcessKept

\* promote-merge, of the merge at hand or of the one that is noted, as a whole or by
\* half: what is asked for is done, or can be, and a conflict means that it is done.
LEMMA PromoteKeepsBranch ==
  ASSUME Kept, pc \in {"resume", "promote"}, repo' = repo \/ Promotes,
         UNCHANGED <<file, pending, misled, overlooked>>
  PROVE  /\ Evolves(repo, repo', {Me}) /\ DropsNothing(repo, repo')
         /\ repo.heads[Me] # None => repo'.heads[Me] # None
         /\ BranchIsLocal'
         /\ Promotes /\ Answer = "ok" =>
              /\ repo'.heads[Me] # None
              /\ pending # Nothing /\ pending.commit # overlooked => Done(pending)'
         /\ Answer = "conflict" /\ offer.commit # overlooked =>
              IsAncestor(repo'.commits, offer.commit, repo'.heads[Me])
         /\ pc = "promote" =>
              \/ Promotable(repo', Me, offer.commit, offer.expected)
              \/ IsAncestor(repo'.commits, offer.commit, repo'.heads[Me])
         /\ pending # Nothing /\ pending.commit # overlooked =>
              /\ Done(pending)' \/ Held(pending)'
              /\ Done(pending) => Done(pending)'
<1> DEFINE Moved == /\ Promotable(repo, Me, offer.commit, offer.expected)
                    /\ repo'.heads[Me] = offer.commit
<1>1. /\ Typed /\ RepoOK(repo) /\ OfferOK /\ PendingOK /\ BranchIsLocal /\ NoteKnown
      /\ pending # Nothing => pending.commit \in Ids(repo.commits)
      /\ offer.commit \in Ids(repo.commits)
  BY DEF Kept, ProcessKept, Remembered, Typed, TypeOK
<1>2. \A i \in Ids(repo.commits) : i # None
  BY DEF Ids, None
<1>3. /\ Evolves(repo, repo', {Me}) /\ repo'.commits = repo.commits
      /\ repo' = repo \/ Moved
      /\ Promotes /\ Promotable(repo, Me, offer.commit, offer.expected) => Moved
  BY <1>1, PromoteStep, EvolvesStays
<1>4. DropsNothing(repo, repo')
  BY <1>3 DEF DropsNothing
<1>5. repo.heads[Me] # None => repo'.heads[Me] # None
  BY <1>3, Places, HeadsStay
<1>6. ASSUME pending # Nothing, Done(pending) PROVE Done(pending)'
  <2>1. IsAncestor(repo'.commits, pending.commit, repo'.heads[Me])
    BY <1>1, <1>2, <1>3, <1>6, Places, AncestorsStay DEF Done
  <2>. QED
    BY <2>1 DEF Done
<1>7. IsAncestor(repo.commits, offer.commit, repo.heads[Me]) =>
        IsAncestor(repo'.commits, offer.commit, repo'.heads[Me])
  BY <1>1, <1>2, <1>3, Places, AncestorsStay
<1>8. ASSUME Moved
      PROVE  /\ Answer = "ok" /\ repo'.heads[Me] # None /\ BranchIsLocal'
             /\ IsAncestor(repo'.commits, offer.commit, repo'.heads[Me])
             /\ pending # Nothing /\ pending.commit # overlooked => Done(pending)'
  <2>1. Answer = "ok" /\ repo.temp[Me] = offer.commit
    BY <1>8 DEF Promotable, Pending, Answer
  <2>2. repo'.heads[Me] = offer.commit /\ offer.commit # None
    BY <1>1, <1>2, <1>8
  <2>3. IsAncestor(repo'.commits, offer.commit, repo'.heads[Me])
    BY <1>1, <1>3, <2>2, ReachBounds DEF RepoOK, Repos, IsAncestor
  <2>4. ASSUME pending # Nothing, pending.commit # overlooked PROVE Done(pending)'
    <3>1. CASE Done(pending)
      BY <1>6, <2>4, <3>1
    <3>2. CASE Held(pending)
      <4>1. pending.commit = offer.commit
        BY <2>1, <3>2 DEF Held, Promotable, Pending
      <4>. QED
        BY <2>3, <4>1 DEF Done
    <3>. QED
      BY <1>1, <2>4, <3>1, <3>2 DEF PendingOK
  <2>5. ~misled => file # NoFile /\ repo.commits[offer.commit].db.entries \subseteq file.entries
    <3>1. CASE pc = "promote"
      BY <3>1 DEF Kept, Typed, TypeOK
    <3>2. CASE pc = "resume"
      BY <1>1, <3>2 DEF OfferOK, NoteKnown, Merged
    <3>. QED
      BY <3>1, <3>2
  <2>6. BranchIsLocal'
    BY <1>3, <2>2, <2>5 DEF BranchIsLocal, Content
  <2>. QED
    BY <2>1, <2>2, <2>3, <2>4, <2>6
<1>9. ASSUME repo' = repo
      PROVE  /\ BranchIsLocal'
             /\ pending # Nothing /\ pending.commit # overlooked => Done(pending)' \/ Held(pending)'
             /\ pc = "promote" =>
                  \/ Promotable(repo', Me, offer.commit, offer.expected)
                  \/ IsAncestor(repo'.commits, offer.commit, repo'.heads[Me])
  BY <1>1, <1>9 DEF BranchIsLocal, PendingOK, OfferOK, Done, Held
<1>10. ASSUME Answer = "conflict", offer.commit # overlooked
       PROVE  IsAncestor(repo.commits, offer.commit, repo.heads[Me])
  <2>1. ~Promotable(repo, Me, offer.commit, offer.expected)
    BY <1>10 DEF Answer
  <2>2. CASE pc = "promote"
    BY <1>1, <2>1, <2>2 DEF OfferOK, Held, Done
  <2>3. CASE pc = "resume"
    BY <1>1, <1>10, <2>1, <2>3 DEF OfferOK, PendingOK, Held, Done
  <2>. QED
    BY <2>2, <2>3
<1>11. Answer = "ok" => Promotable(repo, Me, offer.commit, offer.expected)
  BY DEF Answer
<1>. HIDE DEF Moved
<1>12. /\ BranchIsLocal'
       /\ pending # Nothing /\ pending.commit # overlooked => Done(pending)' \/ Held(pending)'
       /\ pc = "promote" =>
            \/ Promotable(repo', Me, offer.commit, offer.expected)
            \/ IsAncestor(repo'.commits, offer.commit, repo'.heads[Me])
  BY <1>3, <1>8, <1>9
<1>13. Promotes /\ Answer = "ok" =>
         /\ repo'.heads[Me] # None
         /\ pending # Nothing /\ pending.commit # overlooked => Done(pending)'
  BY <1>3, <1>8, <1>11
<1>. QED
  BY <1>3, <1>4, <1>5, <1>6, <1>7, <1>10, <1>12, <1>13

\* So does a promotion, whether the server carries it out or fails.
LEMMA PromoteKeeps == ASSUME Kept, Resume \/ Promote PROVE (ServerKept /\ ProcessKept)'
<1>1. /\ Typed /\ BranchMade /\ OfferOK /\ PendingOK /\ startup \in BOOLEAN
  BY DEF Kept, ProcessKept, Typed, TypeOK
<1>2. /\ pc \in {"resume", "promote"} /\ (repo' = repo \/ Promotes)
      /\ UNCHANGED <<programs, file, pending, startup, sent, overlooked>>
  BY DEF Resume, Promote, Promotes, disk, ghosts
<1>3. UNCHANGED <<file, pending, misled, overlooked>>
  BY <1>2 DEF programs
<1>4. /\ Evolves(repo, repo', {Me}) /\ DropsNothing(repo, repo')
      /\ repo.heads[Me] # None => repo'.heads[Me] # None
      /\ BranchIsLocal'
  BY <1>2, <1>3, PromoteKeepsBranch
<1>5. pc = "promote" => \/ Promotable(repo', Me, offer.commit, offer.expected)
                        \/ IsAncestor(repo'.commits, offer.commit, repo'.heads[Me])
  BY <1>2, <1>3, PromoteKeepsBranch
<1>6. ASSUME pending # Nothing, pending.commit # overlooked
      PROVE  (Done(pending)' \/ Held(pending)') /\ (Done(pending) => Done(pending)')
  BY <1>2, <1>3, <1>6, PromoteKeepsBranch
<1>7. ASSUME Promotes, Answer = "ok"
      PROVE  /\ repo'.heads[Me] # None
             /\ pending # Nothing /\ pending.commit # overlooked => Done(pending)'
  BY <1>2, <1>3, <1>7, PromoteKeepsBranch
<1>8. ASSUME Answer = "conflict", offer.commit # overlooked
      PROVE  IsAncestor(repo'.commits, offer.commit, repo'.heads[Me])
  BY <1>2, <1>3, <1>8, PromoteKeepsBranch
<1>9. ServerKept'
  <2>1. Evolves(repo, repo', {Me, Main})
    BY <1>4 DEF Evolves
  <2>. QED
    BY <1>2, <1>4, <2>1, OwnStepKeepsServer
<1>10. /\ pc' \in {"forget", "clear", "conflict", "exited", "loop", "promote"}
       /\ pc' \in {"forget", "clear"} => Promotes /\ Answer = "ok"
       /\ pc' = "conflict" => Answer = "conflict" /\ UNCHANGED offer
       /\ pc' = "promote" => pc = "promote" /\ UNCHANGED offer
       /\ pc' = "loop" => ~startup /\ pc = "resume"
  <2>1. CASE Promote
    <3>1. UNCHANGED offer /\ pc = "promote"
      BY <2>1 DEF Promote
    <3>2. CASE NoFault /\ ServerPromotes
      BY <2>1, <3>1, <3>2 DEF Promote, Promotes, Goto
    <3>3. CASE UNCHANGED pc
      BY <3>1, <3>3
    <3>. QED
      BY <2>1, <3>2, <3>3 DEF Promote
  <2>2. CASE Resume
    <3>1. CASE ReconcileFails
      BY <1>1, <2>2, <3>1 DEF Resume, ReconcileFails, Goto
    <3>2. CASE ServerPromotes /\ ~ReconcileFails
      BY <2>2, <3>2 DEF Resume, Promotes, Goto
    <3>. QED
      BY <2>2, <3>1, <3>2 DEF Resume
  <2>. QED
    BY <2>1, <2>2
<1>11. (BranchMade /\ OfferOK /\ ConflictsAreDone)'
  <2>1. Watching' => repo'.heads[Me] # None
    BY <1>1, <1>2, <1>4 DEF BranchMade, Watching, Running
  <2>2. BranchMade'
    BY <1>2, <1>7, <1>10, <2>1 DEF BranchMade
  <2>3. OfferOK'
    BY <1>5, <1>10 DEF OfferOK, Held, Done
  <2>4. ConflictsAreDone'
    BY <1>2, <1>8, <1>10 DEF ConflictsAreDone
  <2>. QED
    BY <2>2, <2>3, <2>4
<1>12. PendingOK'
  <2>1. ASSUME pending # Nothing, pending.commit # overlooked, Settled' PROVE Done(pending)'
    <3>1. CASE pc' \in {"forget", "clear"}
      BY <1>7, <1>10, <2>1, <3>1
    <3>2. CASE pc' = "loop"
      BY <1>1, <1>6, <1>10, <2>1, <3>2 DEF PendingOK, Settled, Watching, Running
    <3>. QED
      BY <1>10, <2>1, <3>1, <3>2 DEF Settled, Watching, Running
  <2>2. ASSUME pending # Nothing, pending.commit # overlooked
        PROVE  (Done(pending) \/ Held(pending))' /\ (Settled' => Done(pending)')
    BY <1>6, <2>1, <2>2
  <2>3. pending' = pending /\ overlooked' = overlooked
    BY <1>3
  <2>. QED
    BY <2>2, <2>3 DEF PendingOK, Done, Held
<1>13. SentOK'
  BY <1>10 DEF SentOK
<1>. QED
  BY <1>4, <1>9, <1>11, <1>12, <1>13 DEF ProcessKept

\* An upload: the file still holds it, and it holds what the branch had.
LEMMA UploadKeeps == ASSUME Kept, PutWrite PROVE (ServerKept /\ ProcessKept)'
<1>1. /\ Typed /\ RepoOK(repo) /\ BranchMade /\ PendingOK /\ SentOK /\ BranchIsLocal
      /\ startup \in BOOLEAN /\ sent.db \in Databases
  BY DEF Kept, ProcessKept, Typed, TypeOK
<1>2. /\ pc = "putWrite" /\ pc' = "loop" /\ UNCHANGED <<programs, file, pending, startup, overlooked>>
      /\ repo' = repo \/ Uploaded(repo, Me, sent.db, repo')
  BY DEF PutWrite, PutArrives, PutStopsShort, Goto, Uploaded
<1>3. /\ ~startup /\ repo.heads[Me] # None /\ file # NoFile
      /\ sent.db.entries \subseteq file.entries
      /\ ~misled => Content(repo, Me).entries \subseteq sent.db.entries
      /\ pending # Nothing /\ pending.commit # overlooked => Done(pending)
  BY <1>1, <1>2 DEF BranchMade, Watching, Running, SentOK, PendingOK, Settled
<1>4. Evolves(repo, repo', {Me, Main}) /\ repo'.temp = repo.temp
  BY <1>1, PushRepo
<1>5. ~misled => DropsNothing(repo, repo')
  <2>1. CASE repo' = repo
    BY <2>1 DEF DropsNothing
  <2>2. CASE Uploaded(repo, Me, sent.db, repo')
    BY <1>1, <1>3, <2>2, Places, UploadStep
  <2>. QED
    BY <1>2, <2>1, <2>2
<1>6. ServerKept'
  BY <1>2, <1>4, <1>5, OwnStepKeepsServer
<1>7. repo'.heads[Me] # None
  BY <1>3, <1>4, Places, HeadsStay
<1>8. (BranchMade /\ OfferOK /\ SentOK /\ ConflictsAreDone)'
  BY <1>2, <1>3, <1>7 DEF BranchMade, OfferOK, SentOK, ConflictsAreDone
<1>9. PendingOK'
  <2>1. ASSUME pending # Nothing, pending.commit # overlooked PROVE Done(pending)'
    <3>1. pending.commit # None
      BY <1>1, <2>1 DEF Typed, TypeOK, Ids, None
    <3>2. IsAncestor(repo'.commits, pending.commit, repo'.heads[Me])
      BY <1>1, <1>3, <1>4, <2>1, <3>1, Places, AncestorsStay DEF Done
    <3>. QED
      BY <1>2, <1>3, <1>4, <2>1, <3>2 DEF Done
  <2>. QED
    BY <1>2, <2>1 DEF PendingOK, Done
<1>10. BranchIsLocal'
  <2>1. CASE repo' = repo
    BY <1>1, <1>2, <2>1 DEF BranchIsLocal, programs
  <2>2. CASE Uploaded(repo, Me, sent.db, repo')
    <3>1. repo'.heads[Me] # None /\ Content(repo', Me) = sent.db
      <4> DEFINE db == sent.db
      <4>1. RepoOK(repo) /\ Me \in Clients /\ db \in Databases /\ Uploaded(repo, Me, db, repo')
        BY <1>1, <2>2, Places
      <4>. HIDE DEF db
      <4>2. /\ Evolves(repo, repo', {Me, Main}) /\ repo'.temp = repo.temp
            /\ repo'.heads[Me] # None /\ Content(repo', Me) = db
        BY <4>1, UploadStep
      <4>. QED
        BY <4>2 DEF db
    <3>. QED
      BY <1>2, <1>3, <3>1 DEF BranchIsLocal
  <2>. QED
    BY <1>2, <2>1, <2>2
<1>. QED
  BY <1>6, <1>8, <1>9, <1>10 DEF ProcessKept

\* A step of someone else does not touch what the process works on.
LEMMA OthersKeepProcess ==
  ASSUME Kept, NEW bs, Evolves(repo, repo', bs), Me \notin bs, repo'.temp[Me] = repo.temp[Me],
         misled => misled',
         UNCHANGED <<disk, pc, startup, offer, sent, overlooked>>
  PROVE  ProcessKept'
<1>1. /\ BranchMade /\ OfferOK /\ PendingOK /\ SentOK /\ BranchIsLocal /\ ConflictsAreDone
      /\ Typed
      /\ pending # Nothing => pending.commit \in Ids(repo.commits)
  BY DEF Kept, ProcessKept, Typed, TypeOK
<1>2. /\ repo'.heads[Me] = repo.heads[Me]
      /\ repo.heads[Me] # None => Content(repo', Me) = Content(repo, Me)
  BY <1>1, BranchStays
<1>3. \A d, tip : Promotable(repo', Me, d, tip) <=> Promotable(repo, Me, d, tip)
  BY <1>1, BranchStays
<1>4. /\ \A d : IsAncestor(repo'.commits, d, repo'.heads[Me])
                <=> IsAncestor(repo.commits, d, repo.heads[Me])
      /\ \A i \in Ids(repo.commits) : repo'.commits[i] = repo.commits[i]
  BY <1>1, BranchStays
<1>5. UNCHANGED <<file, pending>>
  BY DEF disk
<1>6. (Watching' <=> Watching) /\ (Settled' <=> Settled)
  BY DEF Watching, Running, Settled
<1>7. (BranchMade /\ ConflictsAreDone)'
  BY <1>1, <1>2, <1>4, <1>6 DEF BranchMade, ConflictsAreDone
<1>8. OfferOK'
  BY <1>1, <1>3, <1>4, <1>5 DEF OfferOK, Held, Done
<1>9. PendingOK'
  <2>1. CASE pending = Nothing
    BY <1>5, <2>1 DEF PendingOK
  <2>2. CASE pending # Nothing
    <3>1. (Done(pending)' <=> Done(pending)) /\ (Held(pending)' <=> Held(pending))
      BY <1>3, <1>4, <1>5 DEF Done, Held
    <3>. QED
      BY <1>1, <1>5, <1>6, <2>2, <3>1 DEF PendingOK, Done, Held
  <2>. QED
    BY <2>1, <2>2
<1>10. (SentOK /\ BranchIsLocal)'
  <2>1. pc \in {"put", "putWrite"} => repo.heads[Me] # None
    BY <1>1 DEF BranchMade, Watching, Running
  <2>. QED
    BY <1>1, <1>2, <1>5, <2>1 DEF SentOK, BranchIsLocal
<1>. QED
  BY <1>7, <1>8, <1>9, <1>10 DEF ProcessKept

\* Another client opens or saves its database.
LEMMA PeerKeeps ==
  ASSUME Kept, NEW user \in Clients, NEW path \in Clients,
         PeerOpens(user, path) \/ \E es \in {{}} \cup {{e} : e \in Entries} : PeerSaves(user, path, es)
  PROVE  (ServerKept /\ ProcessKept)'
<1>1. /\ Typed /\ RepoOK(repo) /\ Whole /\ CopiesHold
      /\ opened \in [Clients -> Databases \cup {NoFile}]
  BY DEF Kept, ServerKept, Typed, TypeOK
<1>2. ASSUME NEW bs, Evolves(repo, repo', bs), bs \subseteq {path, Main}, path \in Clients \ {Me},
             repo'.temp = repo.temp, misled => misled', ~misled' => DropsNothing(repo, repo'),
             UNCHANGED <<disk, pc, startup, offer, sent, overlooked>>,
             \A c \in Clients \ {Me, path} :
               opened'[c] = opened[c] /\ (c \in lost => c \in lost'),
             opened'[path] # NoFile =>
               /\ repo'.heads[path] # None
               /\ path \notin lost' => Content(repo', path).entries \subseteq opened'[path].entries
      PROVE  (ServerKept /\ ProcessKept)'
  <2>1. ProcessKept'
    BY <1>1, <1>2, Places, OthersKeepProcess
  <2>2. Whole'
    BY <1>1, <1>2, Places, HeadsStay DEF Whole, DropsNothing
  <2>3. ASSUME NEW c \in Clients \ {Me}, opened'[c] # NoFile
        PROVE  /\ repo'.heads[c] # None
               /\ c \notin lost' => Content(repo', c).entries \subseteq opened'[c].entries
    <3>1. CASE c = path
      BY <1>2, <2>3, <3>1
    <3>2. CASE c # path
      <4>1. c \notin bs /\ opened[c] # NoFile
        BY <1>2, <2>3, <3>2, MainIsNoClient
      <4>. QED
        BY <1>1, <1>2, <3>2, <4>1, CopyStays
    <3>. QED
      BY <3>1, <3>2
  <2>. QED
    BY <2>1, <2>2, <2>3 DEF ServerKept, CopiesHold
<1>3. CASE PeerOpens(user, path)
  <2>1. /\ path \in Clients \ {Me}
        /\ UNCHANGED <<disk, pc, startup, queue, offer, sent, saved, unsent, overlooked>>
    BY <1>1, <1>3, PeerOpensStep
  <2>2. PICK trouble : Opens(path, trouble)
    BY <1>1, <1>3, PeerOpensStep
  <2>3. /\ Evolves(repo, repo', {path}) /\ repo'.temp = repo.temp /\ DropsNothing(repo, repo')
        /\ repo'.heads[path] # None /\ misled' = misled
        /\ \/ lost' = lost \cup {path} /\ opened' = opened
           \/ lost' = lost \ {path} /\ opened' = [opened EXCEPT ![path] = Served(repo', path)]
    BY <1>1, <2>1, <2>2, OpensStep DEF Whole
  <2>4. Served(repo', path) = Content(repo', path)
    BY <2>3 DEF Served
  <2>5. path \notin lost' => Content(repo', path).entries \subseteq opened'[path].entries
    BY <1>1, <2>1, <2>3, <2>4
  <2>6. \A c \in Clients \ {Me, path} :
          opened'[c] = opened[c] /\ (c \in lost => c \in lost')
    BY <1>1, <2>1, <2>3
  <2>. QED
    BY <1>2, <2>1, <2>3, <2>5, <2>6
<1>4. ASSUME NEW es, PeerSaves(user, path, es) PROVE (ServerKept /\ ProcessKept)'
  <2>1. /\ path \in Clients \ {Me} /\ es \in SUBSET Entries
        /\ UNCHANGED <<disk, pc, startup, queue, offer, sent, saved, unsent, overlooked>>
    BY <1>1, <1>4, PeerSavesStep
  <2>2. CASE \E trouble : Saves(path, es, trouble)
    <3>1. PICK trouble : Saves(path, es, trouble)
      BY <2>2
    <3> DEFINE new == Edited(opened[path], es)
    <3>2. /\ Evolves(repo, repo', {path, Main}) /\ repo'.temp = repo.temp
          /\ repo'.heads[path] # None /\ Content(repo', path) = new
          /\ opened[path] \in Databases /\ opened' = [opened EXCEPT ![path] = new]
          /\ lost' = lost /\ (misled => misled')
      BY <1>1, <2>1, <3>1, SavesStep
    <3>3. (/\ repo.heads[path] # None /\ ~misled'
           /\ path \notin lost => Content(repo, path).entries \subseteq opened[path].entries)
            => DropsNothing(repo, repo')
      BY <1>1, <2>1, <3>1, SavesStep
    <3>4. ~misled' => DropsNothing(repo, repo')
      BY <1>1, <2>1, <3>2, <3>3, NoFileIsNoDatabase DEF CopiesHold
    <3>5. opened'[path] = new /\ \A c \in Clients \ {Me, path} : opened'[c] = opened[c]
      BY <1>1, <2>1, <3>2
    <3>. HIDE DEF new
    <3>. QED
      BY <1>2, <2>1, <3>2, <3>4, <3>5
  <2>3. CASE SaveFails(path, es)
    <3> DEFINE new == Edited(opened[path], es)
    <3>1. /\ opened[path] \in Databases /\ UNCHANGED <<repo, lost, misled>>
          /\ opened' = [opened EXCEPT ![path] = new]
      BY <1>1, <2>1, <2>3, SaveFailsStep
    <3>2. Evolves(repo, repo', {}) /\ DropsNothing(repo, repo')
      BY <1>1, <3>1, EvolvesStays DEF DropsNothing
    <3>3. opened[path].entries \subseteq new.entries
      BY <2>1, <3>1, EditedIsDatabase
    <3>4. opened'[path] = new /\ \A c \in Clients \ {Me, path} : opened'[c] = opened[c]
      BY <1>1, <2>1, <3>1
    <3>. HIDE DEF new
    <3>5. /\ repo'.heads[path] # None
          /\ path \notin lost' => Content(repo', path).entries \subseteq opened'[path].entries
      BY <1>1, <2>1, <3>1, <3>3, <3>4, NoFileIsNoDatabase DEF CopiesHold
    <3>. QED
      BY <1>2, <2>1, <3>1, <3>2, <3>4, <3>5
  <2>. QED
    BY <1>1, <1>4, <2>2, <2>3, PeerSavesStep
<1>. QED
  BY <1>3, <1>4

\* Whatever happens, the repository evolves: branches move forward only.
LEMMA StepEvolves ==
  ASSUME Typed, Next
  PROVE  \E bs : Evolves(repo, repo', bs)
<1>1. CASE repo' = repo
  BY <1>1, EvolvesStays DEF Typed
<1>2. CASE \/ Load \/ Resume \/ Forget \/ RequestMerge \/ WriteFile \/ SaveState \/ Promote
           \/ ClearState
  BY <1>2, PullRepo
<1>3. CASE PutEnsure \/ PutWrite \/ Connect
  BY <1>3, PushRepo
<1>4. ASSUME NEW user \in Clients, NEW path \in Clients, PeerOpens(user, path)
      PROVE  \E bs : Evolves(repo, repo', bs)
  <2>1. PICK trouble : path \in Clients \ {Me} /\ Opens(path, trouble)
    BY <1>4, PeerOpensStep
  <2>. QED
    BY <2>1, OpensStep
<1>5. ASSUME NEW user \in Clients, NEW path \in Clients, NEW es, PeerSaves(user, path, es)
      PROVE  \E bs : Evolves(repo, repo', bs)
  <2>1. path \in Clients \ {Me} /\ es \in SUBSET Entries
    BY <1>5, PeerSavesStep
  <2>2. CASE \E trouble : Saves(path, es, trouble)
    BY <2>1, <2>2, SavesStep
  <2>3. CASE SaveFails(path, es)
    BY <1>1, <2>3 DEF SaveFails
  <2>. QED
    BY <1>5, <2>2, <2>3, PeerSavesStep
<1>6. ASSUME \/ Launch \/ Watch \/ Once \/ TakeMainChanged \/ TakeLocalChanged \/ Deliver
             \/ Drop \/ Crash \/ Wait \/ \E e \in Entries : Edit(e)
      PROVE  repo' = repo
  BY <1>6 DEF Launch, Watch, Once, TakeMainChanged, TakeLocalChanged, Deliver, Drop, Crash, Wait, Edit,
         vars, davVars
<1>. QED
  BY <1>1, <1>2, <1>3, <1>4, <1>5, <1>6 DEF Next, Process

\* Once misled, always misled.
LEMMA MisledStays == ASSUME Typed, Next PROVE misled => misled'
<1>1. CASE \E user, path \in Clients :
             \/ PeerOpens(user, path)
             \/ \E es \in {{}} \cup {{e} : e \in Entries} : PeerSaves(user, path, es)
  <2>1. \/ \E c \in Clients \ {Me} : \E trouble : Opens(c, trouble)
        \/ \E c \in Clients \ {Me} : \E es, trouble : Saves(c, es, trouble)
        \/ misled' = misled
    BY <1>1 DEF PeerOpens, PeerSaves, Authenticated, SaveFails
  <2>2. \A c, trouble : Opens(c, trouble) => misled' = misled
    BY DEF Opens
  <2>3. \A c, es, trouble : Saves(c, es, trouble) => (misled => misled')
    BY DEF Saves
  <2>. QED
    BY <2>1, <2>2, <2>3
<1>2. ASSUME \/ Launch \/ Process \/ Watch \/ Once \/ Wait \/ Connect \/ Deliver \/ Drop
             \/ Crash \/ \E e \in Entries : Edit(e)
      PROVE  misled' = misled
  BY <1>2 DEF Launch, Process, Load, Resume, Forget, RequestMerge, WriteFile, SaveState,
              Promote, ClearState, TakeMainChanged, TakeLocalChanged, PutEnsure, PutWrite,
              Watch, Once, Wait, Connect, Deliver, Drop, Crash, Edit, programs, vars, davVars
<1>. QED
  BY <1>1, <1>2 DEF Next

\* Neither side of a merge loses an edit.
LEMMA SidesGrow ==
  ASSUME Kept, NEW bs, Evolves(repo, repo', bs), Whole', ~misled'
  PROVE  Sides(repo, Me) \subseteq Sides(repo', Me)
<1>1. RepoOK(repo) /\ repo.heads[Main] # None /\ Monotone(repo'.commits)
  BY DEF Kept, Typed, ServerKept, Whole
<1>2. Content(repo, Main).entries \subseteq Content(repo', Main).entries
  BY <1>1, Places, ForwardKeepsEdits
<1>3. ASSUME repo.heads[Me] # None
      PROVE  /\ repo'.heads[Me] # None
             /\ Content(repo, Me).entries \subseteq Content(repo', Me).entries
  BY <1>1, <1>3, Places, HeadsStay, ForwardKeepsEdits
<1>. QED
  BY <1>2, <1>3 DEF Sides

\* The steps that neither take up a merge, nor write it to the file, nor note it.
Elsewhere ==
  /\ pending' \in {pending, Nothing}
  /\ file # NoFile => (file' # NoFile /\ file.entries \subseteq file'.entries)
  /\ pc' \in {"write", "save"} => UNCHANGED <<pc, offer>>

\* All but three are.
LEMMA ElsewhereSteps ==
  ASSUME Typed, Next
  PROVE  Elsewhere \/ RequestMerge \/ WriteFile \/ SaveState
<1>1. CASE \E user, path \in Clients :
             \/ PeerOpens(user, path)
             \/ \E es \in {{}} \cup {{e} : e \in Entries} : PeerSaves(user, path, es)
  BY <1>1 DEF PeerOpens, PeerSaves, disk, Elsewhere
<1>2. CASE \/ Launch \/ Load \/ Resume \/ Forget \/ Promote \/ ClearState \/ TakeMainChanged
           \/ TakeLocalChanged \/ PutEnsure \/ PutWrite \/ Watch \/ Once \/ Crash
  <2>1. pc' \notin {"write", "save"} /\ file' = file /\ pending' \in {pending, Nothing}
    BY <1>2 DEF Launch, Load, Unread, Resume, Forget, Promote, ClearState, TakeMainChanged,
                TakeLocalChanged, PutEnsure, PutWrite, Watch, Once, Crash, Goto, ReconcileFails,
                ReconcileEnds, disk
  <2>. QED
    BY <2>1 DEF Elsewhere
<1>3. CASE Wait \/ Connect \/ Deliver \/ Drop
  BY <1>3 DEF Wait, Connect, Deliver, Drop, vars, disk, Elsewhere
<1>4. ASSUME NEW e \in Entries, Edit(e) PROVE Elsewhere
  <2>1. UNCHANGED <<pending, pc, offer>> /\ file \in Databases /\ file' = Edited(file, {e})
    BY <1>4 DEF Edit, Edited, Typed, TypeOK
  <2>2. file' # NoFile /\ file.entries \subseteq file'.entries
    BY <2>1, EditedIsDatabase, NoFileIsNoDatabase
  <2>. QED
    BY <2>1, <2>2 DEF Elsewhere
<1>. QED
  BY <1>1, <1>2, <1>3, <1>4 DEF Next, Process

\* What is noted stays in the file, and what is offered holds it.
LEMMA RememberedStep ==
  ASSUME Kept, Next, Whole' PROVE Remembered'
<1>1. Typed /\ RepoOK(repo) /\ NoteKnown /\ OfferKnown
  BY DEF Kept, Typed, Remembered
<1>2. PICK bs : Evolves(repo, repo', bs)
  BY <1>1, StepEvolves
<1>3. misled => misled'
  BY <1>1, MisledStays
<1>4. ~misled' => Sides(repo, Me) \subseteq Sides(repo', Me)
  BY <1>2, SidesGrow
<1>5. \A i \in Ids(repo.commits) : repo'.commits[i] = repo.commits[i]
  BY <1>1, <1>2, KnownStays
<1>6. pending # Nothing => /\ pending.commit \in Ids(repo.commits)
                           /\ repo'.commits[pending.commit] = repo.commits[pending.commit]
  BY <1>1, <1>5 DEF Typed, TypeOK
<1>7. CASE Elsewhere
  <2>1. NoteKnown'
    BY <1>1, <1>3, <1>4, <1>6, <1>7 DEF NoteKnown, Merged, Elsewhere
  <2>2. OfferKnown'
    BY <1>1, <1>3, <1>4, <1>6, <1>7 DEF OfferKnown, Merged, Elsewhere
  <2>. QED
    BY <2>1, <2>2 DEF Remembered
<1>8. CASE RequestMerge
  <2>1. UNCHANGED <<pending, file>>
    BY <1>8 DEF RequestMerge, disk
  <2>2. NoteKnown'
    BY <1>1, <1>3, <1>4, <1>6, <2>1 DEF NoteKnown, Merged
  <2>3. CASE pc' # "write"
    <3>1. pc' \notin {"write", "save"}
      BY <1>8, <2>3 DEF RequestMerge, ReconcileFails, ReconcileEnds, Goto
    <3>. QED
      BY <2>2, <3>1 DEF OfferKnown, Remembered
  <2>4. CASE pc' = "write" /\ ~misled'
    <3>1. /\ ~UpToDate(repo, Me) /\ repo' = CreateMerge(repo, Me)
          /\ offer'.db = repo'.commits[repo'.temp[Me]].db
      BY <1>8, <2>4 DEF RequestMerge, ReconcileFails, ReconcileEnds, Goto
    <3>2. Monotone(repo.commits)
      BY <1>3, <2>4 DEF Kept, ServerKept, Whole
    <3>3. offer'.db.entries = Sides(repo, Me)
      BY <1>1, <3>1, <3>2, Places, CreateMergeOffers
    <3>4. OfferKnown'
      BY <1>1, <1>3, <1>4, <1>6, <2>1, <2>4, <3>3 DEF OfferKnown, NoteKnown, Merged
    <3>. QED
      BY <2>2, <3>4 DEF Remembered
  <2>. QED
    BY <2>2, <2>3, <2>4 DEF OfferKnown, Remembered
<1>9. CASE WriteFile
  <2>1. pc = "write" /\ UNCHANGED pending
    BY <1>9 DEF WriteFile
  <2>2. CASE file' = file /\ pc' \notin {"write", "save"}
    BY <1>1, <1>3, <1>4, <1>6, <2>1, <2>2 DEF NoteKnown, OfferKnown, Merged, Remembered
  <2>3. CASE file' = offer.db /\ pc' = "save" /\ UNCHANGED offer
    <3>1. file' # NoFile
      BY <1>1, <2>3, NoFileIsNoDatabase DEF Typed, TypeOK, Offers
    <3>2. NoteKnown'
      BY <1>1, <1>3, <1>4, <1>6, <2>1, <2>3, <3>1 DEF NoteKnown, OfferKnown, Merged
    <3>3. OfferKnown'
      BY <1>1, <1>3, <1>4, <2>1, <2>3 DEF OfferKnown
    <3>. QED
      BY <3>2, <3>3 DEF Remembered
  <2>. QED
    BY <1>9, <2>2, <2>3 DEF WriteFile, ReconcileFails, Goto
<1>10. CASE SaveState
  <2>1. pc = "save" /\ pc' = "promote" /\ UNCHANGED file
    BY <1>10 DEF SaveState, Goto
  <2>2. CASE pending' = pending
    BY <1>1, <1>3, <1>4, <1>6, <2>1, <2>2 DEF NoteKnown, OfferKnown, Merged, Remembered
  <2>3. CASE pending' = [commit |-> offer.commit, expected |-> offer.expected]
    <3>1. /\ offer.commit \in Ids(repo.commits) /\ offer.db = repo.commits[offer.commit].db
          /\ file # NoFile /\ offer.db.entries \subseteq file.entries
      BY <1>1, <2>1 DEF Typed, TypeOK
    <3>2. pending'.commit = offer.commit /\ repo'.commits[offer.commit].db = offer.db
      BY <1>5, <2>3, <3>1
    <3>3. NoteKnown'
      BY <1>1, <1>3, <1>4, <2>1, <3>1, <3>2 DEF NoteKnown, OfferKnown, Merged
    <3>. QED
      BY <2>1, <3>3 DEF OfferKnown, Remembered
  <2>. QED
    BY <1>10, <2>2, <2>3 DEF SaveState
<1>. QED
  BY <1>1, <1>7, <1>8, <1>9, <1>10, ElsewhereSteps

\* It holds at the start, when nothing was sent and the file has not been looked at.
LEMMA InitKept == ASSUME Imported PROVE Init => Kept
<1>. SUFFICES ASSUME Init PROVE Kept
  OBVIOUS
<1>1. Typed
  BY InitTyped
<1>2. PICK d \in Databases : repo = ImportedRepo(d, {})
  BY DEF Init
<1>3. Monotone(repo.commits)
  BY <1>2, NewRepo
<1>4. repo.heads = [b \in Branches |-> IF b \in {} \cup {Main} THEN 1 ELSE None]
  BY <1>2 DEF ImportedRepo, EmptyRepo
<1>5. repo.heads[Main] # None /\ repo.heads[Me] = None
  BY <1>4, Places DEF None
<1>6. pc = "down" /\ pending = Nothing /\ \A c \in Clients : opened[c] = NoFile
  BY DEF Init, NothingOpened
<1>7. ServerKept
  BY <1>3, <1>5, <1>6 DEF ServerKept, Whole, CopiesHold
<1>8. ProcessKept
  BY <1>5, <1>6 DEF ProcessKept, BranchMade, OfferOK, PendingOK, SentOK, BranchIsLocal,
                    ConflictsAreDone, Watching, Running
<1>9. Remembered
  BY <1>6 DEF Remembered, NoteKnown, OfferKnown
<1>. QED
  BY <1>1, <1>7, <1>8, <1>9 DEF Kept

\* Every step keeps it.
LEMMA KeptStep == Kept /\ [Next]_vars => Kept'
<1>1. ASSUME Kept, UNCHANGED vars PROVE Kept'
  <2>1. /\ UNCHANGED <<repo, opened, lost, misled, file, synced, pending, pc, startup, queue>>
        /\ UNCHANGED <<offer, sent, stream, overlooked>>
    BY <1>1 DEF vars, davVars
  <2>2. Typed'
    BY <1>1, TypedStep DEF Kept
  <2>3. ServerKept'
    BY <1>1, <2>1 DEF Kept, ServerKept, Whole, CopiesHold
  <2>4. (BranchMade /\ OfferOK /\ PendingOK)'
    BY <1>1, <2>1 DEF Kept, ProcessKept, BranchMade, OfferOK, PendingOK, Settled, Done, Held,
                      Watching, Running
  <2>5. (SentOK /\ BranchIsLocal /\ ConflictsAreDone)'
    BY <1>1, <2>1 DEF Kept, ProcessKept, SentOK, BranchIsLocal, ConflictsAreDone
  <2>6. Remembered'
    BY <1>1, <2>1 DEF Kept, Remembered, NoteKnown, OfferKnown, Merged
  <2>. QED
    BY <2>2, <2>3, <2>4, <2>5, <2>6 DEF Kept, ProcessKept
<1>2. ASSUME Kept, Next PROVE Kept'
  <2>1. Typed'
    BY <1>2, TypedStep DEF Kept
  <2>2. (ServerKept /\ ProcessKept)'
    <3>1. CASE Quiet
      BY <1>2, <3>1, QuietKeeps
    <3>2. CASE RequestMerge
      BY <1>2, <3>2, RequestKeeps
    <3>3. CASE Resume \/ Promote
      BY <1>2, <3>3, PromoteKeeps
    <3>4. CASE PutWrite
      BY <1>2, <3>4, UploadKeeps
    <3>5. CASE \E user, path \in Clients :
                 \/ PeerOpens(user, path)
                 \/ \E es \in {{}} \cup {{e} : e \in Entries} : PeerSaves(user, path, es)
      BY <1>2, <3>5, PeerKeeps
    <3>6. CASE Wait
      BY <1>1, <1>2, <3>6 DEF Wait, Kept
    <3>. QED
      BY <1>2, <3>1, <3>2, <3>3, <3>4, <3>5, <3>6 DEF Next, Process, Quiet
  <2>3. Remembered'
    BY <1>2, <2>2, RememberedStep DEF ServerKept
  <2>. QED
    BY <2>1, <2>2, <2>3 DEF Kept
<1>. QED
  BY <1>1, <1>2

\* Server and daemon always agree on what has been sent and what is pending.
LEMMA AlwaysKept == ASSUME Imported PROVE Spec => []Kept
BY InitKept, KeptStep, PTL DEF Spec

--------------------------------------------------------------------------------
(* The properties.                                                         *)

\* What the server takes this client to hold is in its file: pulls reach the branch
\* only after the file, through crashes, retries and lost answers (reconcile,
\* steps 3a to 3c).
THEOREM Local == ASSUME Imported PROVE Spec => []BranchIsLocal
<1>1. Kept => BranchIsLocal
  BY DEF Kept, ProcessKept
<1>. QED
  BY <1>1, AlwaysKept, PTL

\* A pending promote on disk can be carried out, or was (SyncState, resume_pending_promote),
\* also after a promote that was carried out by half; unless its note could not be
\* read once.
THEOREM PendingSafe == ASSUME Imported PROVE Spec => []PendingIsSafe
<1>1. Kept => PendingIsSafe
  BY DEF Kept, ProcessKept, PendingIsSafe, PendingOK, Done, Held
<1>. QED
  BY <1>1, AlwaysKept, PTL

\* The 409 that ends the process is the answer to a promote that was carried out
\* (BranchConflictError, do_promote), whatever failed between the server's two ref
\* updates and however often the process asked.
THEOREM ConflictDone == ASSUME Imported PROVE Spec => []ConflictsAreDone
<1>1. Kept => ConflictsAreDone
  BY DEF Kept, ProcessKept
<1>. QED
  BY <1>1, AlwaysKept, PTL

\* No upload, merge or promote takes an edit out of main, unless a client saved
\* without having got the answer that told it of the edit: every commit holds the
\* edits of all that it descends from, and main moves to descendants only.
THEOREM MainKeeps == ASSUME Imported PROVE Spec => MainKeepsEdits
<1>1. ASSUME Kept, Kept', [Next]_vars, repo.heads[Main] # None, ~misled'
      PROVE  Content(repo, Main).entries \subseteq (Content(repo, Main).entries)'
  <2>1. PICK bs : Evolves(repo, repo', bs)
    BY <1>1, StepEvolves, EvolvesStays DEF Kept, Typed, vars, davVars
  <2>2. RepoOK(repo) /\ Monotone(repo'.commits)
    BY <1>1 DEF Kept, Typed, ServerKept, Whole
  <2>3. Content(repo, Main).entries \subseteq Content(repo', Main).entries
    BY <1>1, <2>1, <2>2, Places, ForwardKeepsEdits
  <2>. QED
    BY <2>3 DEF Content
<1>2. Kept /\ Kept' /\ [Next]_vars =>
        [repo.heads[Main] # None /\ ~misled' =>
           Content(repo, Main).entries \subseteq (Content(repo, Main).entries)']_vars
  BY <1>1
<1>. QED
  BY <1>2, AlwaysKept, PTL DEF Spec, MainKeepsEdits
================================================================================
