------------------------------ MODULE IdvService ------------------------------
(***************************************************************************)
(* IdvService (idv/services/idvService.js) over its Postgres stores, for   *)
(* one verification session.  Every request runs in a handler (one         *)
(* invocation of an HTTP function); every awaited store or provider call   *)
(* is one atomic step, so requests interleave between calls.  A call may   *)
(* fail, a handler may die between two calls, and the provider delivers a  *)
(* webhook again until a delivery is answered with 200.                    *)
(***************************************************************************)
EXTENDS IdvStatus

CONSTANTS
  Handlers,          \* concurrent request handlers
  Events,            \* webhook event ids the provider may issue
  ProviderStatuses,  \* canonical statuses the provider reports
  Kinds,             \* kinds of webhook it sends (Veriff: "result" only; Didit: all)
  InitialStatuses,   \* status of a session as the provider creates it
  MaxTime,           \* bound: provider timestamps are 1..MaxTime
  MaxVisits,         \* bound: browser requests (open, return)
  MaxFaults,         \* bound: failed calls, lost replies and crashes together
  CanCrash,          \* whether a handler may die between two calls
  CanOverlap,        \* whether a webhook may be redelivered while one delivery runs
  NoEvent            \* no webhook is being handled

ASSUME StatusAssumption ==
  /\ ProviderStatuses \subseteq CANONICAL_STATUSES
  /\ InitialStatuses \subseteq OPEN_STATUSES
  /\ Kinds \subseteq {"result", "status", "reconcile"}
ASSUME BoundAssumption ==
  /\ MaxTime \in Nat /\ MaxVisits \in Nat /\ MaxFaults \in Nat
  /\ CanCrash \in BOOLEAN /\ CanOverlap \in BOOLEAN
ASSUME EventAssumption == NoEvent \notin Events

VARIABLES
  provider,  \* the provider's side: session opened, its status, its clock
  events,    \* what each issued webhook says
  acked,     \* webhooks some delivery of which was answered with 200
  receipts,  \* idv_webhook_receipts.state
  session,   \* the idv_sessions row
  result,    \* the idv_results row
  identity,  \* whether an identity record holds the session's attributes
  log,       \* idv_lifecycle_events and idv_cost_ledger (equal entries coincide)
  pc,        \* where each handler stands: the call it makes next
  ev,        \* the webhook it handles
  snap,      \* the session row it read (after its save: the row it stored)
  res,       \* the result it holds
  already,   \* whether IDV_TERMINAL was among the events it listed
  visits, faults   \* counters that carry the bounds

world  == <<provider, events, acked, visits, faults>>
rows   == <<session, result, identity>>
locals == <<ev, snap, res, already>>
vars   == <<world, receipts, rows, log, pc, locals>>

-----------------------------------------------------------------------------
FactNames == {"completed", "returned", "reference"}

SessionRow == [exists: BOOLEAN, status: CANONICAL_STATUSES, lastAt: Nat,
               facts: SUBSET FactNames, version: Nat]
NoSession  == [exists |-> FALSE, status |-> "CREATED", lastAt |-> NoTime,
               facts |-> {}, version |-> 0]

\* A webhook: status and time; "result" carries a trusted decision, "status" is
\* trusted but carries none, "reconcile" must be looked up at the provider.
WebhookKinds == {"result", "status", "reconcile"}
Webhook  == [issued: BOOLEAN, status: CANONICAL_STATUSES, at: Nat, kind: WebhookKinds]
Unissued == [issued |-> FALSE, status |-> "CREATED", at |-> NoTime, kind |-> "status"]

\* A result names the decision and the time of the webhook that brought it.
Result   == [present: BOOLEAN, status: CANONICAL_STATUSES, at: Nat]
NoResult == [present |-> FALSE, status |-> "CREATED", at |-> NoTime]

NoStatus == "NONE"   \* only outcome entries carry the session's status
LogEntry == [type: {"IDV_SESSION_CREATED", "HOSTED_FLOW_OPENED", "ESTIMATED_COST",
                    "CUSTOMER_RETURNED", "PROVIDER_RESULT_RECEIVED",
                    "RESUBMISSION_REQUESTED", "IDV_ABANDONED", "IDV_TERMINAL",
                    "IDV_COMPLETED"},
             status: CANONICAL_STATUSES \cup {NoStatus}, source: Events \cup {NoEvent}]

\* Inside the try block of processWebhook, in its catch block, and elsewhere.
TryBlock == {"readSession", "retrieve", "storeIdentity", "saveResult", "saveSession",
             "listEvents", "emitObserved", "emitRetry", "emitAbandoned",
             "emitTerminal", "emitCompleted", "complete"}
WebhookSteps == TryBlock \cup {"fail"}
OtherSteps   == {"createSession", "emitCreated", "openSave", "openEmit", "openCost",
                 "returnSave", "returnEmit"}
Steps        == WebhookSteps \cup OtherSteps \cup {"idle"}

Init ==
  /\ provider = [opened |-> FALSE, status |-> "CREATED", clock |-> 1]
  /\ events = [e \in Events |-> Unissued] /\ acked = {}
  /\ receipts = [e \in Events |-> "NONE"]
  /\ session = NoSession /\ result = NoResult /\ identity = FALSE /\ log = {}
  /\ pc = [h \in Handlers |-> "idle"] /\ ev = [h \in Handlers |-> NoEvent]
  /\ snap = [h \in Handlers |-> NoSession] /\ res = [h \in Handlers |-> NoResult]
  /\ already = [h \in Handlers |-> FALSE]
  /\ visits = 0 /\ faults = 0

Goto(h, step) == pc' = [pc EXCEPT ![h] = step]

\* The request ends: the invocation's local state is gone.
Return(h) ==
  /\ Goto(h, "idle")
  /\ ev' = [ev EXCEPT ![h] = NoEvent] /\ snap' = [snap EXCEPT ![h] = NoSession]
  /\ res' = [res EXCEPT ![h] = NoResult] /\ already' = [already EXCEPT ![h] = FALSE]

\* Mutant: the UPDATE loses its record_version condition.
FreshAlways(h) == TRUE

\* UPDATE ... WHERE record_version = expected: the row is written only if nobody
\* wrote it since the handler read it.
Fresh(h) == session.version = snap[h].version

\* Mutant: the UPDATE does not count record_version up.
SaveUncounted(h, row) ==
  /\ Fresh(h)
  /\ session' = [row EXCEPT !.version = snap[h].version]
  /\ snap' = [snap EXCEPT ![h] = session']
  /\ UNCHANGED <<world, receipts, result, identity, log, ev, res, already>>

Save(h, row) ==
  /\ Fresh(h)
  /\ session' = [row EXCEPT !.version = snap[h].version + 1]
  /\ snap' = [snap EXCEPT ![h] = session']
  /\ UNCHANGED <<world, receipts, result, identity, log, ev, res, already>>

\* One append to an append-only table, then the next call or the answer.
Emit(h, from, type, status, to) ==
  /\ pc[h] = from
  /\ log' = log \cup {[type |-> type, status |-> status, source |-> ev[h]]}
  /\ UNCHANGED <<world, receipts, rows>>
  /\ \/ to = "idle" /\ Return(h)
     \/ to # "idle" /\ Goto(h, to) /\ UNCHANGED locals

-----------------------------------------------------------------------------
(* startVerification: the provider session first, then the row, whose status *)
(* is the one the provider answered with.                                   *)

StartVerification(h) ==
  /\ pc[h] = "idle" /\ ~provider.opened
  /\ \E s \in InitialStatuses :
        /\ provider' = [provider EXCEPT !.opened = TRUE, !.status = s]
        /\ snap' = [snap EXCEPT ![h] = [NoSession EXCEPT !.exists = TRUE, !.status = s,
                                                        !.version = 1]]
  /\ Goto(h, "createSession")
  /\ UNCHANGED <<events, acked, visits, faults, receipts, rows, log, ev, res, already>>

CreateSession(h) ==
  /\ pc[h] = "createSession"
  /\ session' = snap[h]
  /\ Goto(h, "emitCreated")
  /\ UNCHANGED <<world, receipts, result, identity, log, locals>>

EmitCreated(h) == Emit(h, "emitCreated", "IDV_SESSION_CREATED", NoStatus, "idle")

-----------------------------------------------------------------------------
(* The customer's browser: markHostedFlowOpened and recordCustomerReturn    *)

Visit(h) ==
  /\ pc[h] = "idle" /\ visits < MaxVisits /\ session.exists
  /\ visits' = visits + 1
  /\ UNCHANGED <<provider, events, acked, faults, receipts, rows, log, ev, res, already>>

\* A decided session is answered as it is; an open one is read for the save.
Open(h) ==
  /\ Visit(h)
  /\ \/ session.status \in TERMINAL_STATUSES /\ UNCHANGED <<pc, snap>>
     \/ /\ session.status \notin TERMINAL_STATUSES
        /\ snap' = [snap EXCEPT ![h] = session] /\ Goto(h, "openSave")

OpenSave(h) ==
  /\ pc[h] = "openSave" /\ Save(h, [snap[h] EXCEPT !.status = "STARTED"])
  /\ Goto(h, "openEmit")
OpenEmit(h) == Emit(h, "openEmit", "HOSTED_FLOW_OPENED", NoStatus, "openCost")
OpenCost(h) == Emit(h, "openCost", "ESTIMATED_COST", NoStatus, "idle")

CustomerReturn(h) ==
  /\ Visit(h)
  /\ snap' = [snap EXCEPT ![h] = session] /\ Goto(h, "returnSave")

\* Mutant: the browser's return counts as the decision.
ReturnSaveDecides(h) ==
  /\ pc[h] = "returnSave"
  /\ Save(h, [snap[h] EXCEPT !.status = "VERIFIED", !.facts = @ \cup {"returned"}])
  /\ Goto(h, "returnEmit")

ReturnSave(h) ==
  /\ pc[h] = "returnSave" /\ Save(h, [snap[h] EXCEPT !.facts = @ \cup {"returned"}])
  /\ Goto(h, "returnEmit")
ReturnEmit(h) == Emit(h, "returnEmit", "CUSTOMER_RETURNED", NoStatus, "idle")

\* A save that finds another version throws IDV_CONCURRENT_UPDATE to the caller.
VisitConflict(h) ==
  /\ pc[h] \in {"openSave", "returnSave"} /\ ~Fresh(h)
  /\ Return(h)
  /\ UNCHANGED <<world, receipts, rows, log>>

-----------------------------------------------------------------------------
\* The provider reaches a status and issues a webhook about it; two webhooks may
\* carry one timestamp.
ProviderIssues(e) ==
  /\ provider.opened /\ ~events[e].issued
  /\ \E s \in ProviderStatuses, k \in Kinds, t \in {provider.clock, provider.clock + 1} :
        /\ t <= MaxTime
        /\ events' = [events EXCEPT ![e] = [issued |-> TRUE, status |-> s, at |-> t, kind |-> k]]
        /\ provider' = [provider EXCEPT !.status = s, !.clock = t]
  /\ UNCHANGED <<acked, visits, faults, receipts, rows, log, pc, locals>>

-----------------------------------------------------------------------------
(* processWebhook                                                           *)

\* Mutant: a receipt still being processed can be claimed again.
ClaimRunning(h, e) ==
  /\ pc[h] = "idle" /\ events[e].issued /\ e \notin acked
  /\ receipts[e] # "COMPLETED"
  /\ receipts' = [receipts EXCEPT ![e] = "PROCESSING"]
  /\ ev' = [ev EXCEPT ![h] = e] /\ Goto(h, "readSession")
  /\ UNCHANGED <<world, rows, log, snap, res, already>>

\* webhooks.begin wins the receipt: it is new, or an earlier attempt failed.
Claim(h, e) ==
  /\ pc[h] = "idle" /\ events[e].issued /\ e \notin acked
  /\ receipts[e] \in {"NONE", "FAILED"}
  /\ receipts' = [receipts EXCEPT ![e] = "PROCESSING"]
  /\ ev' = [ev EXCEPT ![h] = e] /\ Goto(h, "readSession")
  /\ UNCHANGED <<world, rows, log, snap, res, already>>

\* webhooks.begin finds the receipt taken: the delivery is answered with 200.
Duplicate(e) ==
  /\ events[e].issued /\ e \notin acked
  /\ receipts[e] \in {"PROCESSING", "COMPLETED"}
  /\ CanOverlap \/ \A h \in Handlers : ev[h] # e
  /\ acked' = acked \cup {e}
  /\ UNCHANGED <<provider, events, visits, faults, receipts, rows, log, pc, locals>>

\* Mutant: the adapter's result carries no canonical status.
HoldResultUnmapped(h, status) ==
  /\ res' = [res EXCEPT ![h] = [present |-> TRUE, status |-> NoStatus, at |-> events[ev[h]].at]]
  /\ Goto(h, "storeIdentity") \/ Goto(h, "saveResult")

\* A result is at hand; with identity attributes it visits the identity store first.
HoldResult(h, status) ==
  /\ res' = [res EXCEPT ![h] = [present |-> TRUE, status |-> status, at |-> events[ev[h]].at]]
  /\ Goto(h, "storeIdentity") \/ Goto(h, "saveResult")

\* sessions.getByProviderSession, and where control goes with what it read.
ReadSession(h) ==
  /\ pc[h] = "readSession"
  /\ snap' = [snap EXCEPT ![h] = session]
  /\ LET w == events[ev[h]] IN
     \/ ~session.exists /\ Goto(h, "fail") /\ UNCHANGED res
     \/ session.exists /\ w.kind = "reconcile" /\ Goto(h, "retrieve") /\ UNCHANGED res
     \/ session.exists /\ w.kind = "status" /\ Goto(h, "saveSession") /\ UNCHANGED res
     \/ session.exists /\ w.kind = "result" /\ HoldResult(h, w.status)
  /\ UNCHANGED <<world, receipts, rows, log, ev, already>>

\* adapter.retrieveVerificationResult answers with the provider's present status.
Retrieve(h) ==
  /\ pc[h] = "retrieve" /\ HoldResult(h, provider.status)
  /\ UNCHANGED <<world, receipts, rows, log, ev, snap, already>>

\* Mutant: a failed write of the identity record is swallowed.
StoreIdentitySwallowed(h) ==
  /\ pc[h] = "storeIdentity"
  /\ identity' \in {identity, TRUE}
  /\ snap' = [snap EXCEPT ![h].facts = @ \cup {"reference"}]
  /\ Goto(h, "saveResult")
  /\ UNCHANGED <<world, receipts, session, result, log, ev, res, already>>

\* The reference goes into the row that SaveSession will write.
StoreIdentity(h) ==
  /\ pc[h] = "storeIdentity"
  /\ identity' = TRUE
  /\ snap' = [snap EXCEPT ![h].facts = @ \cup {"reference"}]
  /\ Goto(h, "saveResult")
  /\ UNCHANGED <<world, receipts, session, result, log, ev, res, already>>

\* results.save overwrites whatever result is stored.
SaveResult(h) ==
  /\ pc[h] = "saveResult"
  /\ result' = res[h]
  /\ Goto(h, "saveSession")
  /\ UNCHANGED <<world, receipts, session, identity, log, locals>>

Incoming(h) == IF res[h].present THEN res[h].status ELSE events[ev[h]].status

\* The row the handler computed from its copy: reconcileSessionStatus, then the
\* completion stamp, which a terminal incoming status sets whatever the verdict.
NextRow(h) ==
  LET row == snap[h]
      at  == events[ev[h]].at
  IN [row EXCEPT
        !.status = ReconciledStatus(row.status, row.lastAt, Incoming(h), at),
        !.lastAt = ReconciledTime(row.status, row.lastAt, Incoming(h), at),
        !.facts  = IF Incoming(h) \in TERMINAL_STATUSES THEN @ \cup {"completed"} ELSE @]

SaveSession(h) ==
  /\ pc[h] = "saveSession" /\ Save(h, NextRow(h))
  /\ Goto(h, IF res[h].present THEN "listEvents" ELSE "complete")

SaveConflict(h) ==
  /\ pc[h] = "saveSession" /\ ~Fresh(h)
  /\ Goto(h, "fail")
  /\ UNCHANGED <<world, receipts, rows, log, locals>>

(* emitResultEvents *)

ListEvents(h) ==
  /\ pc[h] = "listEvents"
  /\ already' = [already EXCEPT ![h] = \E entry \in log : entry.type = "IDV_TERMINAL"]
  /\ Goto(h, "emitObserved")
  /\ UNCHANGED <<world, receipts, rows, log, ev, snap, res>>

\* The document, observation, decision and result events, then the branch on the
\* stored status.
AfterObserved(h) ==
  IF snap[h].status = "REQUIRES_RETRY" THEN "emitRetry"
  ELSE IF snap[h].status \notin TERMINAL_STATUSES \/ already[h] THEN "complete"
  ELSE IF snap[h].status = "ABANDONED" THEN "emitAbandoned"
  ELSE "emitTerminal"

EmitObserved(h) ==
  Emit(h, "emitObserved", "PROVIDER_RESULT_RECEIVED", NoStatus, AfterObserved(h))
EmitRetry(h) == Emit(h, "emitRetry", "RESUBMISSION_REQUESTED", NoStatus, "complete")
\* Mutant: an abandoned session gets no terminal event.
EmitAbandonedOnly(h) ==
  Emit(h, "emitAbandoned", "IDV_ABANDONED", snap[h].status, "complete")
EmitAbandoned(h) ==
  Emit(h, "emitAbandoned", "IDV_ABANDONED", snap[h].status, "emitTerminal")
\* Mutant: the terminal event carries the incoming status, not the stored one.
EmitTerminalIncoming(h) ==
  Emit(h, "emitTerminal", "IDV_TERMINAL", Incoming(h), "emitCompleted")
EmitTerminal(h) ==
  Emit(h, "emitTerminal", "IDV_TERMINAL", snap[h].status, "emitCompleted")
EmitCompleted(h) ==
  Emit(h, "emitCompleted", "IDV_COMPLETED", snap[h].status, "complete")

\* webhooks.complete, and the delivery is answered with 200; the answer may not
\* reach the provider, which then delivers once more.
Complete(h) ==
  /\ pc[h] = "complete"
  /\ receipts' = [receipts EXCEPT ![ev[h]] = "COMPLETED"]
  /\ acked' \in {acked, acked \cup {ev[h]}}
  /\ Return(h)
  /\ UNCHANGED <<provider, events, visits, faults, rows, log>>

\* Mutant: the catch block leaves the receipt as it is.
FailSilently(h) ==
  /\ pc[h] = "fail"
  /\ Return(h)
  /\ UNCHANGED <<world, receipts, rows, log>>

\* The catch block: webhooks.fail (whatever the receipt says) and a 500.
Fail(h) ==
  /\ pc[h] = "fail"
  /\ receipts' = [receipts EXCEPT ![ev[h]] = "FAILED"]
  /\ Return(h)
  /\ UNCHANGED <<world, rows, log>>

-----------------------------------------------------------------------------
(* The environment: failed calls, lost replies, crashes                     *)

SpendFault ==
  /\ faults < MaxFaults /\ faults' = faults + 1
  /\ UNCHANGED <<provider, events, acked, visits, rows, log>>

\* A call inside the try block throws, on to the catch block; webhooks.complete
\* may have committed before its reply was lost.
CallFails(h) ==
  /\ pc[h] \in TryBlock /\ SpendFault /\ Goto(h, "fail")
  /\ \/ UNCHANGED receipts
     \/ pc[h] = "complete" /\ receipts' = [receipts EXCEPT ![ev[h]] = "COMPLETED"]
  /\ UNCHANGED locals

\* Outside the try block nothing catches a call that throws; what was stored stays.
RequestFails(h) ==
  /\ pc[h] \in OtherSteps /\ SpendFault /\ Return(h) /\ UNCHANGED receipts

\* The invocation is killed, or webhooks.fail itself throws.
Crash(h) ==
  /\ CanCrash /\ pc[h] # "idle" /\ SpendFault /\ Return(h) /\ UNCHANGED receipts

-----------------------------------------------------------------------------
WebhookStep(h) ==
  \/ ReadSession(h) \/ Retrieve(h) \/ StoreIdentity(h) \/ SaveResult(h)
  \/ SaveSession(h) \/ SaveConflict(h) \/ ListEvents(h) \/ EmitObserved(h)
  \/ EmitRetry(h) \/ EmitAbandoned(h) \/ EmitTerminal(h) \/ EmitCompleted(h)
  \/ Complete(h) \/ Fail(h)

OtherStep(h) ==
  \/ CreateSession(h) \/ EmitCreated(h)
  \/ OpenSave(h) \/ OpenEmit(h) \/ OpenCost(h)
  \/ ReturnSave(h) \/ ReturnEmit(h) \/ VisitConflict(h)

Request(h) == StartVerification(h) \/ Open(h) \/ CustomerReturn(h)

Fault(h) == CallFails(h) \/ RequestFails(h) \/ Crash(h)

Next ==
  \/ \E h \in Handlers : Request(h) \/ OtherStep(h) \/ WebhookStep(h) \/ Fault(h)
  \/ \E h \in Handlers, e \in Events : Claim(h, e)
  \/ \E e \in Events : ProviderIssues(e) \/ Duplicate(e)

Spec == Init /\ [][Next]_vars

\* A running invocation goes on, and the provider keeps delivering a webhook until
\* it is answered with 200.  Customers' visits, the provider's decisions and faults
\* are owed to nobody.
Fairness ==
  /\ \A h \in Handlers : WF_vars(OtherStep(h) \/ WebhookStep(h))
  /\ \A e \in Events : WF_vars(\E h \in Handlers : Claim(h, e))

FairSpec == Spec /\ Fairness

-----------------------------------------------------------------------------
(* Properties                                                               *)

\* Every variable holds a value of its kind.
TypeOK ==
  /\ provider \in [opened: BOOLEAN, status: CANONICAL_STATUSES, clock: Nat]
  /\ events \in [Events -> Webhook]
  /\ acked \subseteq Events
  /\ receipts \in [Events -> {"NONE", "PROCESSING", "COMPLETED", "FAILED"}]
  /\ session \in SessionRow /\ result \in Result /\ identity \in BOOLEAN
  /\ log \subseteq LogEntry
  /\ pc \in [Handlers -> Steps]
  /\ ev \in [Handlers -> Events \cup {NoEvent}]
  /\ snap \in [Handlers -> SessionRow]
  /\ res \in [Handlers -> Result]
  /\ already \in [Handlers -> BOOLEAN]
  /\ visits \in Nat /\ faults \in Nat

\* A webhook is never worked on by two deliveries at once, however often it is
\* redelivered, failed and claimed again (webhooks.begin).
OneClaimant ==
  \A g, h \in Handlers :
    g # h /\ pc[g] \in WebhookSteps /\ pc[h] \in WebhookSteps => ev[g] # ev[h]

Logged(type) == \E entry \in log : entry.type = type

Settled(e) == receipts[e] = "COMPLETED"

CarriesDecision(e) == events[e].status \in TERMINAL_STATUSES /\ events[e].kind # "reconcile"

TookEffect(e) ==
  session.status \in TERMINAL_STATUSES \/ session.lastAt > events[e].at

\* A terminal decision whose webhook was settled took effect: the session is
\* decided, unless it had already seen a later event (processWebhook's order of
\* result, versioned save and receipt).
NoDecisionLost ==
  \A e \in Events : Settled(e) /\ CarriesDecision(e) => TookEffect(e)

\* A settled terminal decision that carried its result is in the event log as
\* IDV_TERMINAL, with the same exception (emitResultEvents runs before the receipt).
DecisionReported ==
  \A e \in Events : Settled(e) /\ CarriesDecision(e) /\ events[e].kind = "result" =>
    Logged("IDV_TERMINAL") \/ session.lastAt > events[e].at

\* However many terminal events concurrent webhooks append, they all carry the
\* outcome the session has, so metrics count it under one outcome.
OutcomeEventsAgree ==
  \A entry \in log :
    entry.type \in {"IDV_ABANDONED", "IDV_TERMINAL", "IDV_COMPLETED"} =>
      entry.status = session.status /\ session.status \in TERMINAL_STATUSES

\* Only the provider decides: a session is decided only as some issued webhook
\* said, never by a browser redirect, a crash or an empty result.
ProviderDecides ==
  session.status \in TERMINAL_STATUSES =>
    \E e \in Events : events[e].issued /\ events[e].status = session.status

\* What a row or an event refers to was stored before it: the identity record
\* before the session's reference, the result before a terminal event.
NothingDangling ==
  /\ "reference" \in session.facts => identity
  /\ Logged("IDV_TERMINAL") => result.present

-----------------------------------------------------------------------------
(* The inductive invariant behind the claims and the contract               *)

\* A handler in processWebhook holds one webhook, whose receipt it has claimed
\* (COMPLETED already when only the reply of webhooks.complete was lost).
ClaimHeld(h) ==
  /\ pc[h] \in WebhookSteps => /\ ev[h] \in Events
                               /\ events[ev[h]].issued
                               /\ receipts[ev[h]] \in {"PROCESSING", "COMPLETED"}
  /\ pc[h] \in TryBlock => receipts[ev[h]] = "PROCESSING"
Claims == (\A h \in Handlers : ClaimHeld(h)) /\ OneClaimant

\* Between reading the row and saving it a handler holds a copy: if the row still
\* has the version of the copy, nothing in it has changed.
HoldsCopy == {"retrieve", "storeIdentity", "saveResult", "saveSession",
              "openSave", "returnSave"}
CopyAgrees(h) ==
  pc[h] \in HoldsCopy =>
    /\ session.exists /\ snap[h].exists
    /\ snap[h].version <= session.version
    /\ snap[h].version = session.version =>
         /\ snap[h].status = session.status /\ snap[h].lastAt = session.lastAt
         /\ session.facts \subseteq snap[h].facts
         /\ pc[h] = "openSave" => snap[h].facts = session.facts
    /\ pc[h] = "openSave" => snap[h].status \notin TERMINAL_STATUSES
Copies == \A h \in Handlers : CopyAgrees(h)

\* The row is created once, by the one handler that opened the provider session.
CreatedOnce ==
  /\ session.exists \/ session = NoSession
  /\ session.exists => provider.opened
  /\ \A h \in Handlers : pc[h] = "createSession" =>
       /\ provider.opened /\ ~session.exists
       /\ snap[h].exists /\ snap[h].status \in OPEN_STATUSES
       /\ snap[h].lastAt = NoTime /\ snap[h].facts = {}
       /\ \A g \in Handlers : pc[g] = "createSession" => g = h

\* Claims are exclusive and copies of the row are stale or right.
IInv ==
  /\ TypeOK
  /\ Claims
  /\ Copies
  /\ CreatedOnce

\* On its way to the receipt a decision is carried in the handler, then in the row.
AfterSave == {"listEvents", "emitObserved", "emitRetry", "emitAbandoned",
              "emitTerminal", "emitCompleted", "complete"}
Carried(h) ==
  /\ pc[h] \in {"idle", "readSession"} => ~res[h].present
  /\ pc[h] = "retrieve" => events[ev[h]].kind = "reconcile"
  /\ pc[h] \in {"storeIdentity", "saveResult", "saveSession"}
       /\ events[ev[h]].kind # "reconcile" => Incoming(h) = events[ev[h]].status
  /\ pc[h] \in AfterSave /\ CarriesDecision(ev[h]) => TookEffect(ev[h])

\* The invariant behind NoDecisionLost: at every call of processWebhook, claims are
\* exclusive, a copy whose version is the row's holds what the row holds, and a
\* decision is either still in its handler or already in effect.
DInv ==
  /\ IInv
  /\ \A h \in Handlers : Carried(h)
  /\ \A e \in Events : receipts[e] # "NONE" => events[e].issued
  /\ NoDecisionLost

\* The row, read without its version, changes as the contract allows: no handler
\* writes from a stale copy.
Contract == INSTANCE IdvContract WITH
  exists <- session.exists, status <- session.status,
  lastAt <- session.lastAt, facts <- session.facts
KeepsContract == Contract!CSpec

\* Without crashes, and if a delivery is not repeated while it runs, every issued
\* webhook is in the end processed, through failed calls and version conflicts.
EveryWebhookSettled == \A e \in Events : (events[e].issued /\ session.exists) ~> Settled(e)
=============================================================================
