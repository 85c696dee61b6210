---------------------------- MODULE KeeGateService -----------------------------
(***************************************************************************)
(* What the KeeGate API promises a caller: each request is answered from   *)
(* one version of main, the current one at some moment between question    *)
(* and answer, or fails as a whole.                                        *)
(***************************************************************************)
CONSTANTS
  Respond(_, _),  \* the answer that one version of main gives to a request
  Failed,         \* the answer that something went wrong
  NoDatabase,     \* main does not exist
  Nobody,         \* no request
  Unanswered      \* no answer yet

VARIABLES
  main,    \* the database on main
  asked,   \* the request
  answer   \* and its answer

serviceVars == <<main, asked, answer>>

ServiceInit == main = NoDatabase /\ asked = Nobody /\ answer = Unanswered

WriteMain == main' # main /\ UNCHANGED <<asked, answer>>
Ask == asked = Nobody /\ asked' # Nobody /\ UNCHANGED <<main, answer>>
Answer ==
  /\ asked # Nobody /\ answer = Unanswered
  /\ answer' \in {Respond(main, asked), Failed}
  /\ UNCHANGED <<main, asked>>
\* The caller has the answer, or gave up.
Leave == asked # Nobody /\ asked' = Nobody /\ answer' = Unanswered /\ UNCHANGED main

ServiceNext == WriteMain \/ Ask \/ Answer \/ Leave
ServiceSpec == ServiceInit /\ [][ServiceNext]_serviceVars
================================================================================
