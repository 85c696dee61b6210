------------------------------ MODULE CommitGraph ------------------------------
(***************************************************************************)
(* The git data that kdbx-git keeps: commits, each holding one database    *)
(* snapshot, and the branches that point at them (core/src/store.rs).      *)
(*                                                                         *)
(* A commit is known by its position in the append-only sequence of all    *)
(* commits ever written; 0 stands for the None of branch_tip_id.  Git      *)
(* walks the parent links to answer is_ancestor; here every commit carries *)
(* the set of the commits reachable from it, fixed when it is written.     *)
(*                                                                         *)
(* A database is abstracted to the set of edits it holds (an entry         *)
(* revision or a deletion mark is an edit) and its kdbx_config.            *)
(***************************************************************************)
EXTENDS Naturals, Sequences

CONSTANTS
  Clients,    \* the client ids of the server configuration
  Main,       \* MAIN_BRANCH
  Entries,    \* the edits that users make
  Configs     \* values of kdbx_config

\* The server never checks that no client is called "main"; an operator who
\* names one so has a single branch for both, which is not modelled.
ASSUME MainIsNoClient == Main \notin Clients
ASSUME SomeConfig == Configs # {}

Branches == Clients \cup {Main}
None == 0

Databases == [entries: SUBSET Entries, config: Configs]

\* A database that no one reads: the value of an unused local.
NoDb == CHOOSE d \in Databases : TRUE

\* Mutant of MergeDatabases: the remote side is dropped.
MergeKeepsInto(into, from) == [entries |-> into.entries, config |-> from.config]

(* merge_databases: the keepass crate joins the two sets of edits; the     *)
(* kdbx_config of the result is the one of the database merged in.         *)
MergeDatabases(into, from) ==
  [entries |-> into.entries \cup from.entries, config |-> from.config]

Commits == [parents: SUBSET Nat, db: Databases, reach: SUBSET Nat]

\* Mutant of AddCommit: the parents are left out of the commit object.
AddOrphanCommit(cs, parents, db) ==
  Append(cs, [parents |-> {}, db |-> db, reach |-> {Len(cs) + 1}])

\* The sequence after a commit object is written.
AddCommit(cs, parents, db) ==
  Append(cs, [parents |-> parents, db |-> db,
              reach |-> {Len(cs) + 1} \cup UNION {cs[q].reach : q \in parents}])

\* is_ancestor_sync: equal, or the merge base of the two is the first.
IsAncestor(cs, a, d) == d # None /\ a \in cs[d].reach

\* Moving a ref from a to d keeps everything that a reached; a missing ref has
\* nothing to lose.
Forward(cs, a, d) == a = None \/ IsAncestor(cs, a, d)

Ids(cs) == 1..Len(cs)
Tips(cs) == 0..Len(cs)

(* Parents are older than their children and reach is the reflexive and    *)
(* transitive closure of the parent links.                                 *)
WellFormed(cs) ==
  \A i \in Ids(cs) :
    /\ cs[i].parents \subseteq 1..(i - 1)
    /\ cs[i].reach \subseteq 1..i
    /\ cs[i].reach = {i} \cup UNION {cs[q].reach : q \in cs[i].parents}
================================================================================
