------------------------------ MODULE KeeGateApi -------------------------------
(***************************************************************************)
(* The rules of the KeeGate API (keegate-api/src/lib.rs): who logs in to   *)
(* main, what a filter means, and which entries answer a query.  All are   *)
(* functions of one database as it was read from main.                     *)
(*                                                                         *)
(* A filter is a tree.  The argument of a leaf is the set of titles that   *)
(* its pattern matches, a tag or a uuid; a leaf that does not compile (a   *)
(* malformed regex or uuid) is "invalid".                                  *)
(***************************************************************************)
EXTENDS StoredForm

CONSTANTS
  Filters,       \* the filters that clients send, with their children
  NoLimit,       \* a request that names no limit
  DefaultLimit,  \* DEFAULT_LIMIT
  MaxLimit       \* MAX_LIMIT

ASSUME FiltersAreTrees ==
  \A f \in Filters :
    /\ f.op \in {"title", "tag", "uuid", "invalid", "and", "or"}
    /\ f.kids \subseteq Filters
ASSUME LimitsAreNumbers == {DefaultLimit, MaxLimit} \subseteq Nat /\ NoLimit \notin Nat

NoField == 0
EntriesOf(db) == {db.entries[i] : i \in DOMAIN db.entries}

--------------------------------------------------------------------------------
(* Users.                                                                  *)

UsersGroups(db) == {i \in DOMAIN db.groups : db.groups[i] = UsersGroupName}

\* The first root group of that name, and the entries directly in it.
UsersGroup(db) == CHOOSE i \in UsersGroups(db) : \A j \in UsersGroups(db) : i <= j
UserEntries(db) ==
  {e \in EntriesOf(db) : /\ UsersGroups(db) # {}
                         /\ e.root = UsersGroup(db) /\ ~e.nested}

ValidUserEntry(e) == e.user # NoField /\ e.password # NoField
Candidates(db, user) == {e \in UserEntries(db) : ValidUserEntry(e) /\ e.user = user}

\* Two entries of one name lock the name out, whatever the password.
Authenticates(db, user, password) ==
  /\ Cardinality(Candidates(db, user)) = 1
  /\ \E e \in Candidates(db, user) : e.password = password

\* Mutant of AmbiguousNames: names are compared together with passwords.
DoubledUsers(db) ==
  {e.user : e \in {d \in UserEntries(db) : \E c \in Candidates(db, d.user) :
                     c.uuid # d.uuid /\ c.password = d.password}}
AmbiguousNames(db) ==
  {e.user : e \in {d \in UserEntries(db) : Cardinality(Candidates(db, d.user)) > 1}}

\* startup_warnings: the reasons why an entry of the group would not log in.
StartupWarnings(db) ==
  IF UsersGroups(db) = {} THEN {"no users group"}
  ELSE {"incomplete" : e \in {d \in UserEntries(db) : ~ValidUserEntry(d)}}
       \cup {"ambiguous" : n \in AmbiguousNames(db)}

--------------------------------------------------------------------------------
(* Queries.                                                                *)

Compiles ==
  LET ok[f \in Filters] ==
        /\ f.op # "invalid"
        /\ f.op \in {"and", "or"} => f.kids # {} /\ \A k \in f.kids : ok[k]
  IN {f \in Filters : ok[f]}

Matching(e) ==
  LET fits[f \in Filters] ==
        \/ f.op = "title" /\ e.title # NoField /\ e.title \in f.arg
        \/ f.op = "tag" /\ \E t \in ToSet(e.tags) : t \in f.arg
        \/ f.op = "uuid" /\ e.uuid \in f.arg
        \/ f.op = "and" /\ \A k \in f.kids : fits[k]
        \/ f.op = "or" /\ \E k \in f.kids : fits[k]
  IN {f \in Filters : fits[f]}

LimitOf(asked) ==
  LET n == IF asked = NoLimit THEN DefaultLimit ELSE asked
  IN IF n > MaxLimit THEN MaxLimit ELSE n

TagsOf(db, user) == UNION {ToSet(e.tags) : e \in Candidates(db, user)}
IsAuthorized(e, tags) == ToSet(e.tags) \cap tags # {}

\* Mutant of Searchable: only the group that is searched for users is left out.
SearchableBeside(db) ==
  {e \in EntriesOf(db) : UsersGroups(db) = {} \/ e.root # UsersGroup(db)}

\* Every root group of that name is left out, and its subgroups.
Searchable(db) == {e \in EntriesOf(db) : e.root \notin UsersGroups(db)}

Found(db, tags, filter) ==
  {e \in Searchable(db) : IsAuthorized(e, tags) /\ filter \in Matching(e)}

\* Mutant of Before: by uuid first.
BeforeByUuid(d, e) == d.uuid < e.uuid
\* By title, a missing one first, and by uuid.
Before(d, e) == d.title < e.title \/ (d.title = e.title /\ d.uuid < e.uuid)

Payload(e) == [uuid |-> e.uuid, title |-> e.title, user |-> e.user,
               password |-> e.password, tags |-> e.tags]

\* query_entries: sorted, and then cut off at the limit.
Rank(found, e) == Cardinality({d \in found : Before(d, e)}) + 1
QueryEntries(db, tags, filter, limit) ==
  LET found == Found(db, tags, filter)
      count == IF limit < Cardinality(found) THEN limit ELSE Cardinality(found)
  IN [n \in 1..count |-> Payload(CHOOSE e \in found : Rank(found, e) = n)]

--------------------------------------------------------------------------------
(* Requests: what is asked (kind, filters, limit), and by whom.            *)

Payloads == [uuid: Nat, title: Nat, user: Nat, password: Nat, tags: Seq(Nat)]
Answers == [status: Nat, entries: Seq(Payloads)]
Refusal(status) == [status |-> status, entries |-> <<>>]

\* The parameters of a GET are combined with "and"; without any it is refused.
FilterOf(ask) ==
  IF \E f \in ask.filters : ask.filters = {f} THEN CHOOSE f \in ask.filters : TRUE
  ELSE [op |-> "and", arg |-> {}, kids |-> ask.filters]
LimitFor(ask) == IF ask.kind = "uuid" THEN 1 ELSE LimitOf(ask.limit)

\* What a handler finds out before it looks at main.
Malformed(r) == FilterOf(r.ask) \notin Compiles
Anonymous(r) == r.user = NoField

EntriesFor(db, r) ==
  QueryEntries(db, TagsOf(db, r.user), FilterOf(r.ask), LimitFor(r.ask))

\* The answer to a well-formed request from one database.
AnswerFrom(db, r) ==
  CASE ~Authenticates(db, r.user, r.password) -> Refusal(401)
    [] Authenticates(db, r.user, r.password)
         /\ r.ask.kind = "uuid" /\ EntriesFor(db, r) = <<>> -> Refusal(404)
    [] OTHER -> [status |-> 200, entries |-> EntriesFor(db, r)]
================================================================================
