-------------------------------- MODULE KeeGate --------------------------------
(***************************************************************************)
(* KeeGate at work: an application with the client library                 *)
(* (keegate-client/src/lib.rs), the handlers of the server                 *)
(* (server/src/server/keegate.rs), and users who keep changing the         *)
(* database that the answers come from (dav.rs, core/src/storage).         *)
(*                                                                         *)
(* The client takes host and credentials from its connection string or     *)
(* from an absolute reference.  A handler checks the query, looks for      *)
(* credentials, reads main once with the store locked, and authenticates,  *)
(* authorises and answers from what it read while main may move on.  A     *)
(* user's KeePass program uploads the file with a change, or with none,    *)
(* and in an order of its own.                                             *)
(***************************************************************************)
EXTENDS KeeGateApi

CONSTANTS
  NoDatabase, Nobody, Unanswered,   \* see KeeGateService
  Home,        \* the host of this server
  NoHost,      \* a reference without an authority: kg:///...
  Strings,     \* authorities as they are written in kg:// strings
  Asks,        \* what is asked: kind, filters, limit
  Reserved,    \* names and passwords with characters that a URL reserves
  FirstFiles,  \* KeePass files that the database is created from
  Changed,     \* entries as a user may leave them
  Groupings,   \* root groups as a user may leave them
  MaxUploads,  \* bound: uploads
  MaxFaults    \* bound: lost calls and failed reads

\* Requests on their way, with the authority that was written for them.
Wires ==
  [host: {Home} \cup {s.host : s \in Strings}, user: Nat, password: Nat,
   written: Strings \cup {[host |-> Home, user |-> NoField, password |-> NoField]},
   ask: Asks]

ASSUME StringsAreAuthorities ==
  \A s \in Strings : s.user \in Nat /\ s.password \in Nat
ASSUME NobodyIsNoRequest == Nobody \notin Wires
ASSUME NoneIsNoDatabase == NoDatabase \notin StorageDatabases
ASSUME NoneIsNoAnswer == Unanswered \notin Answers
ASSUME AsksHaveLimits == \A ask \in Asks : ask.limit \in Nat \cup {NoLimit}
ASSUME ReservedAreFields == Reserved \subseteq Nat \ {NoField}
ASSUME KeeGateBounds == {MaxUploads, MaxFaults} \subseteq Nat
ASSUME FirstFilesAreFiles == FirstFiles \subseteq KeePassFiles
ASSUME ChangedAreEntries == Changed \subseteq StoredEntries
ASSUME GroupingsAreGroups == Groupings \subseteq Seq(GroupNames)
ASSUME FirstFilesAreInOrder == \A file \in FirstFiles : Orderly(file.entries)
ASSUME ChangedAreInOrder == \A e \in Changed : Numbered(e.history)

VARIABLES
  main,      \* the text of main
  commits,   \* how many commits main has seen
  saved,     \* ghost: the content that was uploaded last
  client,    \* the client's authority, as written in its connection string
  wire,      \* the request: where it goes, its credentials, what it asks, and
             \* the authority that was written for it
  pc,        \* how far the request is
  snapshot,  \* what the handler read of main
  reply,     \* the answer
  uploads, faults

vars == <<main, commits, saved, client, wire, pc, snapshot, reply, uploads, faults>>
files == <<main, commits, saved, uploads>>
request == <<wire, pc, snapshot, reply>>

AskNothing == wire' = Nobody /\ pc' = "idle" /\ snapshot' = NoDatabase /\ reply' = Unanswered
Fault == faults < MaxFaults /\ faults' = faults + 1

--------------------------------------------------------------------------------
(* The users' KeePass programs.                                            *)

\* What a user changes in a file: an entry, the root groups, or nothing.
Without(entries, uuid) ==
  Sorted(entries, [i \in {j \in DOMAIN entries : entries[j].uuid # uuid} |-> i])
Edits(file) ==
  {file}
  \cup {[file EXCEPT !.entries = Append(Without(@, e.uuid), e)] : e \in Changed}
  \cup {[file EXCEPT !.entries = Without(@, e.uuid)] : e \in Changed}
  \cup {[file EXCEPT !.groups = g] : g \in {h \in Groupings : Len(h) = Len(file.groups)}}

\* A program saves tags, associations and history in the order it likes.
Turned(e) == [e EXCEPT !.tags = Reverse(@), !.windows = Reverse(@), !.history = Reverse(@)]
Reordered(file) ==
  [file EXCEPT !.entries = [i \in DOMAIN file.entries |-> Turned(file.entries[i])]]

\* process_client_write compares texts, and commits a text that differs.  It is
\* the text of the uploader's branch, and the commit is merged into main: this is
\* the upload of a client whose branch is at main, which the merge fast-forwards.
Upload(file) ==
  LET text == Serialized(ToStorage(file)) IN
    /\ uploads < MaxUploads /\ uploads' = uploads + 1
    /\ saved' = FileContent(file)
    /\ IF text = main THEN UNCHANGED <<main, commits>>
                      ELSE main' = text /\ commits' = commits + 1
    /\ UNCHANGED <<client, request, faults>>

\* The first upload creates main; later ones change the file that was downloaded.
Create(file) == main = NoDatabase /\ Upload(file)
Save ==
  /\ main # NoDatabase
  /\ \E file \in Edits(ToFile(main)) : Upload(file) \/ Upload(Reordered(file))

--------------------------------------------------------------------------------
(* The client library.                                                     *)

\* A user writes a name with reserved characters percent-encoded, and the URL
\* parser hands out user name and password as they are written.
Encoded(n) == IF n \in Reserved THEN n + 1000 ELSE n
Authority(s) == [host |-> s.host, user |-> Encoded(s.user), password |-> Encoded(s.password)]

\* A connection string, and an absolute reference, name host, user and password.
Complete(s) == s.host # NoHost /\ s.user # NoField /\ s.password # NoField
\* A relative reference names none of them.
Relative(s) == s.host = NoHost /\ s.user = NoField /\ s.password = NoField

\* from_config: the client is built from its connection string, or not at all.
Build(s) ==
  /\ client = Nobody /\ Complete(s)
  /\ client' = s
  /\ UNCHANGED <<files, request, faults>>

Send(s, ask) ==
  /\ pc = "idle"
  /\ pc' = "sent"
  /\ wire' = [host |-> Authority(s).host, user |-> Authority(s).user,
              password |-> Authority(s).password, written |-> s, ask |-> ask]
  /\ UNCHANGED <<files, client, snapshot, reply, faults>>

\* Mutant of Resolve: credentials that a reference lacks are the client's.
ResolveFilledIn(s, ask) ==
  /\ client # Nobody /\ ask.kind # "post"
  /\ \/ Relative(s) /\ Send(client, ask)
     \/ s.host # NoHost /\ Send([client EXCEPT !.host = s.host], ask)

\* resolve(reference): a uuid or a query, at the authority of the reference or at
\* the client's; anything else fails before a call is made.
Resolve(s, ask) ==
  /\ client # Nobody /\ ask.kind # "post"
  /\ \/ Relative(s) /\ Send(client, ask)
     \/ Complete(s) /\ Send(s, ask)

\* query_entries, query_entries_get
Query(ask) == client # Nobody /\ ask.kind # "uuid" /\ Send(client, ask)

\* Some other program, without an Authorization header.
Stranger(ask) == Send([host |-> Home, user |-> NoField, password |-> NoField], ask)

--------------------------------------------------------------------------------
(* The handlers.                                                           *)

\* 400 for a query that does not compile, then 401 without credentials.
Receive ==
  /\ pc = "sent" /\ wire.host = Home
  /\ \/ /\ Malformed(wire) /\ reply' = Refusal(400) /\ pc' = "replied"
     \/ /\ ~Malformed(wire) /\ Anonymous(wire)
        /\ reply' = Refusal(401) /\ pc' = "replied"
     \/ /\ ~Malformed(wire) /\ ~Anonymous(wire)
        /\ pc' = "load" /\ UNCHANGED reply
  /\ UNCHANGED <<files, client, wire, snapshot, faults>>

\* Mutant of Load: a main that does not exist is answered from all the same.
LoadUnchecked ==
  /\ pc = "load" /\ pc' = "loaded" /\ snapshot' = main
  /\ UNCHANGED <<files, client, wire, reply, faults>>

\* load_main_database: one read under the lock; a failed read and a main that does
\* not exist are both 500.
Load ==
  /\ pc = "load"
  /\ \/ /\ main # NoDatabase
        /\ snapshot' = main /\ pc' = "loaded" /\ UNCHANGED <<reply, faults>>
     \/ /\ (main = NoDatabase /\ UNCHANGED faults) \/ Fault
        /\ reply' = Refusal(500) /\ pc' = "replied" /\ UNCHANGED snapshot
  /\ UNCHANGED <<files, client, wire>>

\* Mutant of Evaluate: what is queried is main as it is by now.
EvaluateMain ==
  /\ pc = "loaded" /\ pc' = "replied"
  /\ reply' = IF Authenticates(snapshot, wire.user, wire.password)
              THEN AnswerFrom(main, wire) ELSE Refusal(401)
  /\ UNCHANGED <<files, client, wire, snapshot, faults>>

\* authenticate and query_entries on what was read; no entry for a uuid is 404.
Evaluate ==
  /\ pc = "loaded" /\ pc' = "replied"
  /\ reply' = AnswerFrom(snapshot, wire)
  /\ UNCHANGED <<files, client, wire, snapshot, faults>>

\* Another server answers as it likes.
Elsewhere ==
  /\ pc = "sent" /\ wire.host # Home
  /\ reply' = Refusal(503) /\ pc' = "replied"
  /\ UNCHANGED <<files, client, wire, snapshot, faults>>

\* The client takes entries from a success and an error from anything else; when
\* the call or its answer is lost it has a transport error.
Take == pc = "replied" /\ AskNothing /\ UNCHANGED <<files, client, faults>>
Lose == pc # "idle" /\ Fault /\ AskNothing /\ UNCHANGED <<files, client>>

--------------------------------------------------------------------------------
Init ==
  /\ main = NoDatabase /\ commits = 0 /\ saved = NoDatabase
  /\ client = Nobody
  /\ wire = Nobody /\ pc = "idle" /\ snapshot = NoDatabase /\ reply = Unanswered
  /\ uploads = 0 /\ faults = 0

Next ==
  \/ \E file \in FirstFiles : Create(file)
  \/ Save
  \/ \E s \in Strings : Build(s)
  \/ \E ask \in Asks :
       \/ \E s \in Strings : Resolve(s, ask)
       \/ Query(ask) \/ Stranger(ask)
  \/ Receive \/ Load \/ Evaluate \/ Elsewhere \/ Take \/ Lose

Spec == Init /\ [][Next]_vars

--------------------------------------------------------------------------------
(* Properties.                                                             *)

\* The types; main is never gone again, and a handler past its read holds some
\* text of main that it once had.
TypeOK ==
  /\ main \in StorageDatabases \cup {NoDatabase}
  /\ commits \in Nat /\ uploads \in 0..MaxUploads /\ faults \in 0..MaxFaults
  /\ client \in Strings \cup {Nobody}
  /\ pc \in {"idle", "sent", "load", "loaded", "replied"}
  /\ wire \in Wires \cup {Nobody} /\ (wire = Nobody <=> pc = "idle")
  /\ snapshot \in StorageDatabases \cup {NoDatabase}
  /\ (pc = "loaded" => snapshot # NoDatabase /\ commits > 0)
  /\ (main = NoDatabase <=> commits = 0)
  /\ (reply = Unanswered <=> pc # "replied")

\* The answer to a request from one version of main.
Respond(db, r) ==
  CASE Malformed(r) -> Refusal(400)
    [] ~Malformed(r) /\ Anonymous(r) -> Refusal(401)
    [] ~Malformed(r) /\ ~Anonymous(r) /\ db = NoDatabase -> Refusal(500)
    [] ~Malformed(r) /\ ~Anonymous(r) /\ db # NoDatabase -> AnswerFrom(db, r)

\* The request and the answer that a caller of this server knows of: the answer
\* is settled as soon as the handler has read main.
AskedHere == IF wire # Nobody /\ wire.host = Home THEN wire ELSE Nobody
AnsweredHere ==
  IF wire = Nobody \/ wire.host # Home THEN Unanswered
  ELSE IF pc = "loaded" THEN AnswerFrom(snapshot, wire) ELSE reply

Service == INSTANCE KeeGateService WITH
  Respond <- Respond, Failed <- Refusal(500),
  main <- main, asked <- AskedHere, answer <- AnsweredHere

\* Every answer comes from one version of main, current between question and
\* answer, although main moves while a handler works (authenticate_request hands
\* the database it authenticated with on to query_entries).
KeepsService == Service!ServiceSpec

\* A user whose entry is in order, and about whom no warning would be given, is
\* never refused when a client was given the name and the password (KEEGATE_API:
\* "reserved URL characters ... normal percent-encoding").
ConfiguredUsersGetIn ==
  pc = "replied" /\ reply.status = 401 /\ snapshot # NoDatabase
    /\ StartupWarnings(snapshot) = {} =>
       \A e \in UserEntries(snapshot) :
         e.user # wire.written.user \/ e.password # wire.written.password

\* No answer holds an entry of a users group, or one that shares no tag with the
\* user, under whatever name and in whatever group main holds them.
AnswersAreAllowed ==
  pc = "replied" /\ reply.status = 200 =>
    \A i \in DOMAIN reply.entries :
      \E e \in EntriesOf(snapshot) :
        /\ e.uuid = reply.entries[i].uuid
        /\ e.root \in DOMAIN snapshot.groups => snapshot.groups[e.root] # UsersGroupName
        /\ \E u \in UserEntries(snapshot) :
             u.user = wire.user /\ ToSet(u.tags) \cap ToSet(e.tags) # {}

\* An entry that the limit cut off comes after those that were answered: whoever
\* takes the first entry gets the first of all that match.
FirstComeFirst ==
  pc = "replied" /\ reply.status = 200 =>
    \A i \in DOMAIN reply.entries, e \in EntriesOf(snapshot) :
      /\ e.root \notin UsersGroups(snapshot) /\ FilterOf(wire.ask) \in Matching(e)
      /\ ToSet(e.tags) \cap TagsOf(snapshot, wire.user) # {}
      /\ e.uuid \notin {reply.entries[j].uuid : j \in DOMAIN reply.entries}
      => reply.entries[i].title <= e.title

\* A request goes with the credentials that were written beside its host: those
\* of the connection string are not sent anywhere else.
CredentialsStayHome ==
  wire # Nobody /\ client # Nobody /\ wire.host # client.host =>
    wire.password # Encoded(client.password)

\* An upload that changes nothing a user could see makes no commit, in whatever
\* order the program wrote the file (process_client_write: "avoid polluting the
\* git history"; serialize sorts what has no order).
SilentSaves ==
  [][commits' # commits /\ main # NoDatabase => FileContent(main) # FileContent(main')]_vars

\* And one that changes something does: main holds what was uploaded last.
SavesLand == main # NoDatabase => FileContent(main) = saved
================================================================================
