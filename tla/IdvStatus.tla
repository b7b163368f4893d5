------------------------------ MODULE IdvStatus ------------------------------
(***************************************************************************)
(* Canonical identity-verification statuses and the pure rule that decides *)
(* what one provider event does to a session (idv/domain/stateMachine.js). *)
(* Times are positive naturals; NoTime (0) is a null last_provider_event_at.*)
(***************************************************************************)
EXTENDS Naturals

TERMINAL_STATUSES == {"VERIFIED", "FAILED", "ABANDONED", "EXPIRED"}

OPEN_STATUSES ==
  {"CREATED", "READY", "STARTED", "PROCESSING", "REQUIRES_RETRY", "ERROR"}

CANONICAL_STATUSES == TERMINAL_STATUSES \cup OPEN_STATUSES

\* The transition table: which statuses a provider event may move s to.
ALLOWED(s) ==
  CASE s = "CREATED"        -> CANONICAL_STATUSES \ {"CREATED"}
    [] s = "READY"          -> CANONICAL_STATUSES \ {"CREATED", "READY"}
    [] s = "STARTED"        -> CANONICAL_STATUSES \ {"CREATED", "READY", "STARTED"}
    [] s = "PROCESSING"     -> TERMINAL_STATUSES \cup {"REQUIRES_RETRY", "ERROR"}
    [] s = "REQUIRES_RETRY" -> TERMINAL_STATUSES \cup {"STARTED", "PROCESSING", "ERROR"}
    [] s = "ERROR"          -> CANONICAL_STATUSES \ {"CREATED", "ERROR"}
    [] OTHER                -> {}

NoTime == 0

\* Mutant: an event as old as the newest one seen counts as out of order.
VerdictStrict(status, lastAt, incoming, at) ==
  IF at <= lastAt                     THEN "OUT_OF_ORDER_EVENT"
  ELSE IF incoming = status           THEN "STATUS_UNCHANGED"
  ELSE IF status \in TERMINAL_STATUSES THEN "TERMINAL_STATUS_PRESERVED"
  ELSE IF incoming \notin ALLOWED(status) THEN "TRANSITION_NOT_ALLOWED"
  ELSE "STATUS_APPLIED"

\* Verdicts, in the order in which the code tests them.
Verdict(status, lastAt, incoming, at) ==
  IF at < lastAt                      THEN "OUT_OF_ORDER_EVENT"
  ELSE IF incoming = status           THEN "STATUS_UNCHANGED"
  ELSE IF status \in TERMINAL_STATUSES THEN "TERMINAL_STATUS_PRESERVED"
  ELSE IF incoming \notin ALLOWED(status) THEN "TRANSITION_NOT_ALLOWED"
  ELSE "STATUS_APPLIED"

ReconciledStatus(status, lastAt, incoming, at) ==
  IF Verdict(status, lastAt, incoming, at) = "STATUS_APPLIED"
  THEN incoming ELSE status

ReconciledTime(status, lastAt, incoming, at) ==
  IF Verdict(status, lastAt, incoming, at) \in {"STATUS_APPLIED", "STATUS_UNCHANGED"}
  THEN at ELSE lastAt
=============================================================================
