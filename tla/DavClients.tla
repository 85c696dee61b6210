------------------------------ MODULE DavClients -------------------------------
(***************************************************************************)
(* The clients that open database.kdbx over WebDAV (server/src/server:     *)
(* auth.rs, dav.rs, kdbx.rs): a KeePass program downloads the database,    *)
(* its user edits the copy, and a save uploads the copy as a whole.        *)
(*                                                                         *)
(* auth_middleware lets a request through only to the path of the client   *)
(* it authenticates as, so that nobody but client c's programs touches the *)
(* branch of c, and a request of c is one step here (GitStore has the      *)
(* interleavings).  Clients upload what they downloaded before; a PUT that *)
(* no GET precedes, which the server takes too, is not modelled.           *)
(***************************************************************************)
EXTENDS StoreOps

CONSTANTS NoFile   \* no database: nothing opened, no local file

ASSUME NoFileIsNoDatabase == NoFile \notin Databases

VARIABLES
  repo,    \* the server's repository
  opened,  \* opened[c] is the copy in the KeePass program of client c
  lost,    \* ghost: clients whose branch was merged with main by a GET that was
           \* never answered, nor any GET since
  misled   \* ghost: one of them saved its older copy on top of that merge

davVars == <<repo, opened, lost, misled>>

(* What goes wrong with a request that the server gets: nothing; the       *)
(* "answer" is lost; the connection breaks ("hangup"), and the handler,    *)
(* done with the store, is dropped before it tells the subscribers; the    *)
(* "merge" with main fails, or the handler is dropped before it.           *)
Troubles == {"no", "answer", "hangup", "merge"}
Unanswered == {"answer", "hangup"}
Untold == {"hangup", "merge"}

\* Mutant of Authenticated: the client of the path is not compared.
AuthenticatedAnywhere(path, user) == user \in Clients

(* auth_middleware: the path names a client, and the credentials are that  *)
(* client's.  A user stands for a user name with its password.             *)
Authenticated(path, user) == path \in Clients /\ path = user

\* The server answers with what the client's branch holds, or 404: the program
\* then starts from an empty database.
Served(g, c) == IF g.heads[c] = None THEN [NoDb EXCEPT !.entries = {}] ELSE Content(g, c)

(* GET database.kdbx: main is merged into the branch, which is then read.  *)
(* A merge that fails is logged and the stale branch is served.            *)
Opens(c, trouble) ==
  LET g == IF trouble = "merge" THEN EnsureBranch(repo, c)
           ELSE MergeInto(EnsureBranch(repo, c), Main, c)
  IN /\ repo' = g
     /\ IF trouble \in Unanswered
        THEN lost' = lost \cup {c} /\ UNCHANGED opened
        ELSE lost' = lost \ {c} /\ opened' = [opened EXCEPT ![c] = Served(g, c)]
     /\ UNCHANGED misled
\* The subscribers of main hear of it, although only the client's branch moved.
OpenAnnounces(c, trouble) ==
  trouble \notin Untold /\ MergeReports(EnsureBranch(repo, c), Main, c)

(* PUT database.kdbx with the edits es: the copy is committed to the       *)
(* branch, and the branch merged into main unless nothing changed.         *)
Saves(c, es, trouble) ==
  /\ opened[c] # NoFile
  /\ LET g == EnsureBranch(repo, c)
         new == [opened[c] EXCEPT !.entries = @ \cup es]
     IN /\ opened' = [opened EXCEPT ![c] = new]
        /\ IF trouble = "merge" /\ ~Unchanged(g, c, new)
           THEN repo' = CommitTo(g, c, new)
           ELSE repo' = ClientWrite(g, c, new)
        /\ misled' = (misled \/ (c \in lost /\ ~Unchanged(g, c, new)))
        /\ UNCHANGED lost
SaveAnnounces(c, es, trouble) ==
  trouble \notin Untold
    /\ WriteReports(EnsureBranch(repo, c), c, [opened[c] EXCEPT !.entries = @ \cup es])

\* The upload does not arrive, or does not parse (403): the edits stay in the copy.
SaveFails(c, es) ==
  /\ opened[c] # NoFile
  /\ opened' = [opened EXCEPT ![c].entries = @ \cup es]
  /\ UNCHANGED <<repo, lost, misled>>

\* Edits that no one made yet.
Unmade ==
  Entries \ (UNION {repo.commits[i].db.entries : i \in Ids(repo.commits)}
             \cup UNION {opened[c].entries : c \in {d \in Clients : opened[d] # NoFile}})

\* Nobody has opened a database yet.
NothingOpened == opened = [c \in Clients |-> NoFile] /\ lost = {} /\ misled = FALSE
================================================================================
