------------------------------ MODULE StoredForm -------------------------------
(***************************************************************************)
(* How a KeePass file becomes the text in a commit and back                *)
(* (core/src/storage, storage-types): an upload is converted and brought   *)
(* into one order, and is committed only if that text differs from the     *)
(* branch's; a download is rebuilt from the text.                          *)
(*                                                                         *)
(* A KeePass file keeps tags, auto-type associations and old revisions in  *)
(* an order that programs change at will; of the rest that is stored, the  *)
(* groups and an entry's fields stand for all: it is carried over          *)
(* unchanged.  Field values, tags and revisions are numbers, 0 a field     *)
(* that is missing; the number of a revision stands for its fields, by     *)
(* which revisions sort.                                                   *)
(***************************************************************************)
EXTENDS Naturals, FiniteSets, SequencesExt

UsersGroupName == "KeeGate Users"
GroupNames == {UsersGroupName, "other"}
Revisions == [rev: Nat, tags: Seq(Nat)]

\* root is the position of the root group that holds the entry, 0 for the root
\* itself; nested is whether it lies in a subgroup of that group.
StoredEntries ==
  [uuid: Nat, title: Nat, user: Nat, password: Nat, root: Nat, nested: BOOLEAN,
   tags: Seq(Nat), windows: Seq(Nat), history: Seq(Revisions)]

StorageDatabases == [groups: Seq(GroupNames), entries: Seq(StoredEntries)]
\* What a program opens and saves.  The version, and what programs keep in the
\* header of the file (header is whether there is any), are not stored.
KeePassFiles ==
  [version: {"KDB3", "KDB4"}, header: BOOLEAN,
   groups: Seq(GroupNames), entries: Seq(StoredEntries)]

\* Revisions of one number are the same revision.
Numbered(history) ==
  \A i, j \in DOMAIN history :
    history[i].rev = history[j].rev => ToBag(history[i].tags) = ToBag(history[j].tags)

\* Every entry has a uuid of its own.
Orderly(entries) ==
  /\ \A i, j \in DOMAIN entries : entries[i].uuid = entries[j].uuid => i = j
  /\ \A i \in DOMAIN entries : Numbered(entries[i].history)

(* db_to_storage: the groups, entries and revisions in their order.        *)
ToStorage(file) == [groups |-> file.groups, entries |-> file.entries]

(* storage_to_db: each revision is put in front of those before it.        *)
RebuiltHistory(history) == Reverse(history)
ToFile(db) ==
  [version |-> "KDB4", header |-> FALSE, groups |-> db.groups,
   entries |-> [i \in DOMAIN db.entries |->
                  [db.entries[i] EXCEPT !.history = RebuiltHistory(@)]]]

(* The order that serialize brings a database into.                        *)

\* The elements of s at the positions in the domain of key, sorted by key; what key
\* does not tell apart keeps its order.
Place(key, i) ==
  Cardinality({j \in DOMAIN key : key[j] < key[i] \/ (key[j] = key[i] /\ j < i)}) + 1
Sorted(s, key) ==
  [n \in 1..Cardinality(DOMAIN key) |-> s[CHOOSE i \in DOMAIN key : Place(key, i) = n]]

Ascending(s) == Sorted(s, s)
CanonicalRevision(r) == [r EXCEPT !.tags = Ascending(@)]

\* Mutants of CanonicalHistory: revisions keep the order of the file; those
\* drained for sorting are not put back.
HistoryAsItCame(history) == [i \in DOMAIN history |-> CanonicalRevision(history[i])]
HistoryDrained(history) == <<>>

CanonicalHistory(history) ==
  Sorted([i \in DOMAIN history |-> CanonicalRevision(history[i])],
         [i \in DOMAIN history |-> history[i].rev])

CanonicalEntry(e) ==
  [e EXCEPT !.tags = Ascending(@), !.windows = Ascending(@),
            !.history = CanonicalHistory(@)]

\* The text of a database; read_branch gives back the database that it spells.
Serialized(db) ==
  [db EXCEPT !.entries = [i \in DOMAIN db.entries |-> CanonicalEntry(db.entries[i])]]

--------------------------------------------------------------------------------
(* What users see of a database, whatever order a program keeps it in: the *)
(* reference that the stored form is held against.                         *)
RevisionContent(r) == [rev |-> r.rev, tags |-> ToBag(r.tags)]
EntryContent(e) ==
  [uuid |-> e.uuid, title |-> e.title, user |-> e.user, password |-> e.password,
   root |-> e.root, nested |-> e.nested,
   tags |-> ToBag(e.tags), windows |-> ToBag(e.windows),
   history |-> ToBag([i \in DOMAIN e.history |-> RevisionContent(e.history[i])])]
FileContent(db) ==
  [groups |-> db.groups,
   entries |-> [i \in DOMAIN db.entries |-> EntryContent(db.entries[i])]]
================================================================================
