----------------------------- MODULE IdvContract -----------------------------
(***************************************************************************)
(* What the stored IDV session promises its readers, whatever webhooks,    *)
(* browser redirects, crashes and redeliveries are interleaved: it changes *)
(* as one record that nobody overwrites from a stale copy.  A status moves *)
(* along the transition table or is re-opened by the hosted-flow redirect, *)
(* a terminal status is final, provider time never runs backwards, and no  *)
(* fact recorded on the session is ever lost.                              *)
(***************************************************************************)
EXTENDS IdvStatus

VARIABLES
  exists,   \* the session row is there
  status,   \* canonical_status
  lastAt,   \* last_provider_event_at
  facts     \* set-once facts: completion stamp, browser return, identity reference

cvars == <<exists, status, lastAt, facts>>

Facts == {"completed", "returned", "reference"}

CInit ==
  /\ exists = FALSE
  /\ status = "CREATED"
  /\ lastAt = NoTime
  /\ facts = {}

Create ==
  /\ ~exists
  /\ exists' = TRUE
  /\ status' \in OPEN_STATUSES
  /\ UNCHANGED <<lastAt, facts>>

\* A provider event moves the session along the table.
Advance ==
  /\ exists
  /\ status' \in ALLOWED(status)
  /\ lastAt' >= lastAt
  /\ facts \subseteq facts'
  /\ status' \in TERMINAL_STATUSES => "completed" \in facts'
  /\ UNCHANGED exists

\* The hosted flow is opened while the session is not yet decided.
Reopen ==
  /\ exists
  /\ status \notin TERMINAL_STATUSES
  /\ status' = "STARTED"
  /\ UNCHANGED <<exists, lastAt, facts>>

\* An event or a browser return adds facts without moving the status.
Note ==
  /\ exists
  /\ lastAt' >= lastAt
  /\ facts \subseteq facts'
  /\ UNCHANGED <<exists, status>>

CNext == Create \/ Advance \/ Reopen \/ Note

CSpec == CInit /\ [][CNext]_cvars
=============================================================================
