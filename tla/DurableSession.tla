--------------------------- MODULE DurableSession ---------------------------
(***************************************************************************)
(* What the persistent runtime promises about one sales session, whatever  *)
(* processes, crashes and retries lie behind it: a log of turns, each      *)
(* request in it once, closed once and for all, and answers that are about *)
(* turns already in the log.                                               *)
(***************************************************************************)
EXTENDS Naturals, Sequences

CONSTANT Requests

VARIABLES log,     \* the requests committed, in order
          status,  \* of the session
          dnc,     \* the lead is on the do-not-call list
          told     \* <<request, position>>: what clients were answered

svars == <<log, status, dnc, told>>

SInit ==
    /\ log = << >>
    /\ status = "ACTIVE"
    /\ dnc = FALSE
    /\ told = {}

SInLog(r) == \E i \in DOMAIN log : log[i] = r

\* One turn joins an open log, and may close it.
SCommitTurn(r) ==
    /\ status = "ACTIVE"
    /\ ~SInLog(r)
    /\ log' = Append(log, r)
    /\ status' \in {"ACTIVE", "COMPLETED"}
    /\ UNCHANGED <<dnc, told>>

SFinish ==
    /\ status = "ACTIVE"
    /\ status' \in {"COMPLETED", "ERROR"}
    /\ UNCHANGED <<log, dnc, told>>

SOptOut ==
    /\ dnc' = TRUE
    /\ UNCHANGED <<log, status, told>>

\* A client is answered, first time or again, with its turn's position.
SAnswer(r) ==
    /\ \E i \in DOMAIN log : log[i] = r /\ told' = told \cup {<<r, i>>}
    /\ UNCHANGED <<log, status, dnc>>

SNext ==
    \/ SFinish
    \/ SOptOut
    \/ \E r \in Requests : SCommitTurn(r) \/ SAnswer(r)

SSpec == SInit /\ [][SNext]_svars
=============================================================================
