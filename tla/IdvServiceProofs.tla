--------------------------- MODULE IdvServiceProofs ---------------------------
(* What IdvService guarantees for any number of handlers and webhooks.      *)
EXTENDS IdvService, TLAPS

-----------------------------------------------------------------------------
(* The pure rule of stateMachine.js                                         *)

\* The transition table stays within the canonical statuses, lets nothing out of a
\* terminal status, and admits every decision from every open status.
LEMMA TransitionTable ==
  ASSUME NEW s \in CANONICAL_STATUSES
  PROVE  /\ ALLOWED(s) \subseteq CANONICAL_STATUSES
         /\ s \in TERMINAL_STATUSES => ALLOWED(s) = {}
         /\ s \notin TERMINAL_STATUSES => TERMINAL_STATUSES \subseteq ALLOWED(s)
BY DEF ALLOWED, CANONICAL_STATUSES, TERMINAL_STATUSES, OPEN_STATUSES

\* Reconciling keeps the status canonical and never turns the clock back.
LEMMA ReconcileType ==
  ASSUME NEW s \in CANONICAL_STATUSES, NEW lastAt \in Nat,
         NEW in \in CANONICAL_STATUSES, NEW at \in Nat
  PROVE  /\ ReconciledStatus(s, lastAt, in, at) \in CANONICAL_STATUSES
         /\ ReconciledTime(s, lastAt, in, at) \in Nat
         /\ ReconciledTime(s, lastAt, in, at) >= lastAt
         /\ ReconciledStatus(s, lastAt, in, at) # s =>
              /\ ReconciledStatus(s, lastAt, in, at) \in ALLOWED(s)
              /\ ReconciledStatus(s, lastAt, in, at) = in
BY DEF ReconciledStatus, ReconciledTime, Verdict

\* A terminal incoming status decides the session, unless it is older than what the
\* session has seen.
LEMMA ReconcileDecides ==
  ASSUME NEW s \in CANONICAL_STATUSES, NEW lastAt \in Nat,
         NEW in \in TERMINAL_STATUSES, NEW at \in Nat
  PROVE  \/ ReconciledStatus(s, lastAt, in, at) \in TERMINAL_STATUSES
         \/ ReconciledTime(s, lastAt, in, at) > at
BY TransitionTable DEF ReconciledStatus, ReconciledTime, Verdict

-----------------------------------------------------------------------------
(* Type correctness                                                         *)

USE DEF NoTime

\* What the constants of the module are.
LEMMA ConstantTypes ==
  /\ NoSession \in SessionRow /\ Unissued \in Webhook /\ NoResult \in Result
  /\ InitialStatuses \subseteq CANONICAL_STATUSES
BY StatusAssumption
   DEF NoSession, SessionRow, Unissued, Webhook, WebhookKinds, NoResult, Result,
       CANONICAL_STATUSES, OPEN_STATUSES

LEMMA InitTypeOK == Init => TypeOK
<1> SUFFICES ASSUME Init PROVE TypeOK  OBVIOUS
<1> USE ConstantTypes DEF Init
<1>1. provider \in [opened: BOOLEAN, status: CANONICAL_STATUSES, clock: Nat]
  BY DEF CANONICAL_STATUSES, OPEN_STATUSES
<1>2. /\ events \in [Events -> Webhook] /\ acked \subseteq Events
      /\ receipts \in [Events -> {"NONE", "PROCESSING", "COMPLETED", "FAILED"}]
  OBVIOUS
<1>3. /\ session \in SessionRow /\ result \in Result /\ identity \in BOOLEAN
      /\ log \subseteq LogEntry /\ visits \in Nat /\ faults \in Nat
  OBVIOUS
<1>4. pc \in [Handlers -> Steps]  BY DEF Steps
<1>5. ev \in [Handlers -> Events \cup {NoEvent}]  OBVIOUS
<1>6. snap \in [Handlers -> SessionRow] /\ res \in [Handlers -> Result]
  OBVIOUS
<1>7. already \in [Handlers -> BOOLEAN]  OBVIOUS
<1> QED BY <1>1, <1>2, <1>3, <1>4, <1>5, <1>6, <1>7 DEF TypeOK

\* Ending a request leaves the local state well-typed.
LEMMA ReturnType ==
  ASSUME TypeOK, NEW h \in Handlers, Return(h)
  PROVE  /\ pc' \in [Handlers -> Steps]
         /\ ev' \in [Handlers -> Events \cup {NoEvent}]
         /\ snap' \in [Handlers -> SessionRow] /\ res' \in [Handlers -> Result]
         /\ already' \in [Handlers -> BOOLEAN]
BY ConstantTypes DEF TypeOK, Return, Goto, Steps

\* A versioned save stores a row and hands it back.
LEMMA SaveType ==
  ASSUME TypeOK, NEW h \in Handlers, NEW row \in SessionRow, Save(h, row)
  PROVE  /\ session' \in SessionRow /\ snap' \in [Handlers -> SessionRow]
         /\ session'.version = session.version + 1
         /\ session'.exists = row.exists /\ session'.status = row.status
         /\ session'.lastAt = row.lastAt /\ session'.facts = row.facts
         /\ session.version = snap[h].version
<1>1. snap[h] \in SessionRow  BY DEF TypeOK
<1>2. snap[h].version \in Nat  BY <1>1 DEF SessionRow
<1>3. session' = [row EXCEPT !.version = snap[h].version + 1]  BY DEF Save
<1>4. /\ session' \in SessionRow /\ session'.exists = row.exists
      /\ session'.version = snap[h].version + 1 /\ session'.status = row.status
      /\ session'.lastAt = row.lastAt /\ session'.facts = row.facts
  BY <1>2, <1>3 DEF SessionRow
<1>5. snap' = [snap EXCEPT ![h] = session']  BY DEF Save
<1> QED BY <1>4, <1>5 DEF Save, Fresh, TypeOK

\* The row SaveSession writes is a session row, derived from the handler's copy.
LEMMA NextRowType ==
  ASSUME TypeOK, NEW h \in Handlers, ev[h] \in Events
  PROVE  /\ NextRow(h) \in SessionRow /\ NextRow(h).exists = snap[h].exists
         /\ NextRow(h).status =
              ReconciledStatus(snap[h].status, snap[h].lastAt, Incoming(h), events[ev[h]].at)
         /\ NextRow(h).lastAt =
              ReconciledTime(snap[h].status, snap[h].lastAt, Incoming(h), events[ev[h]].at)
         /\ snap[h].facts \subseteq NextRow(h).facts
         /\ Incoming(h) \in TERMINAL_STATUSES => "completed" \in NextRow(h).facts
         /\ Incoming(h) \in CANONICAL_STATUSES /\ events[ev[h]].at \in Nat
<1> DEFINE row == snap[h]
           at  == events[ev[h]].at
           st  == ReconciledStatus(row.status, row.lastAt, Incoming(h), at)
           tm  == ReconciledTime(row.status, row.lastAt, Incoming(h), at)
           fs  == IF Incoming(h) \in TERMINAL_STATUSES
                  THEN row.facts \cup {"completed"} ELSE row.facts
<1>1. row \in SessionRow /\ events[ev[h]] \in Webhook /\ res[h] \in Result
  BY DEF TypeOK
<1>2. at \in Nat /\ Incoming(h) \in CANONICAL_STATUSES
  BY <1>1 DEF Webhook, Result, Incoming
<1>3. /\ row.status \in CANONICAL_STATUSES /\ row.lastAt \in Nat
      /\ row.facts \subseteq FactNames
  BY <1>1 DEF SessionRow
<1>4. st \in CANONICAL_STATUSES /\ tm \in Nat
  BY <1>2, <1>3, ReconcileType
<1>5. fs \subseteq FactNames /\ row.facts \subseteq fs
  BY <1>3 DEF FactNames
<1>6. NextRow(h) = [row EXCEPT !.status = st, !.lastAt = tm, !.facts = fs]
  BY DEF NextRow
<1> HIDE DEF row, at, st, tm, fs
<1>7. /\ NextRow(h) \in SessionRow /\ NextRow(h).exists = row.exists
      /\ NextRow(h).status = st /\ NextRow(h).lastAt = tm /\ NextRow(h).facts = fs
  BY <1>1, <1>4, <1>5, <1>6 DEF SessionRow
<1> QED BY <1>2, <1>5, <1>7 DEF row, at, st, tm, fs

\* A handler holds a well-typed result.
LEMMA HoldType ==
  ASSUME TypeOK, NEW h \in Handlers, NEW status \in CANONICAL_STATUSES,
         events[ev[h]] \in Webhook, HoldResult(h, status)
  PROVE  res' \in [Handlers -> Result]
BY DEF HoldResult, TypeOK, Result, Webhook

\* Appending an entry changes the log and the handler, nothing else.
LEMMA EmitType ==
  ASSUME TypeOK, NEW h \in Handlers, NEW from, NEW type, NEW status, NEW to \in Steps,
         Emit(h, from, type, status, to),
         \A source \in Events \cup {NoEvent} :
            [type |-> type, status |-> status, source |-> source] \in LogEntry
  PROVE  TypeOK'
<1>1. log' \subseteq LogEntry  BY DEF TypeOK, Emit
<1>2. CASE Return(h)
  BY <1>1, <1>2, ReturnType DEF TypeOK, Emit, world, rows
<1>3. CASE Goto(h, to) /\ UNCHANGED locals
  BY <1>1, <1>3 DEF TypeOK, Emit, world, rows, locals, Goto
<1> QED BY <1>2, <1>3 DEF Emit

\* The kinds of entry the service appends.
LEMMA EntryTypes ==
  ASSUME NEW source \in Events \cup {NoEvent}
  PROVE  /\ \A type \in {"IDV_SESSION_CREATED", "HOSTED_FLOW_OPENED", "ESTIMATED_COST",
                         "CUSTOMER_RETURNED", "PROVIDER_RESULT_RECEIVED",
                         "RESUBMISSION_REQUESTED"} :
              [type |-> type, status |-> NoStatus, source |-> source] \in LogEntry
         /\ \A type \in {"IDV_ABANDONED", "IDV_TERMINAL", "IDV_COMPLETED"},
               status \in CANONICAL_STATUSES :
              [type |-> type, status |-> status, source |-> source] \in LogEntry
BY DEF LogEntry

\* Every action keeps every variable in its type.
LEMMA StepTypeOK ==
  ASSUME TypeOK, \A h \in Handlers : ClaimHeld(h), Next
  PROVE  TypeOK'
<1> USE DEF world, rows, locals
<1>1. ASSUME NEW h \in Handlers, Request(h) \/ OtherStep(h)  PROVE TypeOK'
  <2>1. CASE StartVerification(h)
    <3>1. PICK s \in InitialStatuses :
             /\ provider' = [provider EXCEPT !.opened = TRUE, !.status = s]
             /\ snap' = [snap EXCEPT ![h] = [NoSession EXCEPT !.exists = TRUE, !.status = s,
                                                             !.version = 1]]
      BY <2>1 DEF StartVerification
    <3>2. [NoSession EXCEPT !.exists = TRUE, !.status = s, !.version = 1] \in SessionRow
      BY ConstantTypes DEF NoSession, SessionRow
    <3>3. provider' \in [opened: BOOLEAN, status: CANONICAL_STATUSES, clock: Nat]
      BY <3>1, ConstantTypes DEF TypeOK
    <3> QED BY <2>1, <3>1, <3>2, <3>3 DEF StartVerification, TypeOK, Goto, Steps, OtherSteps
  <2>2. CASE Open(h)
    BY <2>2 DEF Open, Visit, TypeOK, Goto, Steps, OtherSteps
  <2>3. CASE CustomerReturn(h)
    BY <2>3 DEF CustomerReturn, Visit, TypeOK, Goto, Steps, OtherSteps
  <2>4. CASE CreateSession(h)
    BY <2>4 DEF CreateSession, TypeOK, Goto, Steps, OtherSteps
  <2>5. CASE EmitCreated(h) \/ OpenEmit(h) \/ OpenCost(h) \/ ReturnEmit(h)
    <3>1. "idle" \in Steps /\ "openCost" \in Steps  BY DEF Steps, OtherSteps
    <3> QED BY <2>5, <3>1, EntryTypes, EmitType
            DEF EmitCreated, OpenEmit, OpenCost, ReturnEmit
  <2>6. CASE OpenSave(h)
    <3>1. ev[h] \in Events \cup {NoEvent} /\ snap[h] \in SessionRow  BY DEF TypeOK
    <3>2. [snap[h] EXCEPT !.status = "STARTED"] \in SessionRow
      BY <3>1 DEF SessionRow, CANONICAL_STATUSES, OPEN_STATUSES
    <3>3. session' \in SessionRow /\ snap' \in [Handlers -> SessionRow]
      BY <2>6, <3>2, SaveType DEF OpenSave
    <3> QED BY <2>6, <3>3 DEF OpenSave, Save, TypeOK, Goto, Steps, OtherSteps
  <2>7. CASE ReturnSave(h)
    <3>1. snap[h] \in SessionRow  BY DEF TypeOK
    <3>2. [snap[h] EXCEPT !.facts = snap[h].facts \cup {"returned"}] \in SessionRow
      BY <3>1 DEF SessionRow, FactNames
    <3>3. session' \in SessionRow /\ snap' \in [Handlers -> SessionRow]
      BY <2>7, <3>2, SaveType DEF ReturnSave
    <3> QED BY <2>7, <3>3 DEF ReturnSave, Save, TypeOK, Goto, Steps, OtherSteps
  <2>8. CASE VisitConflict(h)
    BY <2>8, ReturnType DEF VisitConflict, TypeOK
  <2> QED BY <1>1, <2>1, <2>2, <2>3, <2>4, <2>5, <2>6, <2>7, <2>8
          DEF Request, OtherStep
<1>2. ASSUME NEW h \in Handlers, WebhookStep(h)  PROVE TypeOK'
  <2> USE DEF Goto
  <2>0. Steps = TryBlock \cup {"fail"} \cup OtherSteps \cup {"idle"}
    BY DEF Steps, WebhookSteps
  <2>1. ASSUME pc[h] \in WebhookSteps
        PROVE  ev[h] \in Events /\ events[ev[h]] \in Webhook
    BY <2>1 DEF ClaimHeld, TypeOK
  <2>2. CASE ReadSession(h)
    <3>1. ev[h] \in Events /\ events[ev[h]] \in Webhook
      BY <2>1, <2>2 DEF ReadSession, WebhookSteps, TryBlock
    <3>2. res' \in [Handlers -> Result]
      BY <2>2, <3>1, HoldType DEF ReadSession, TypeOK, Webhook
    <3>3. pc' \in [Handlers -> Steps]
      BY <2>0, <2>2 DEF ReadSession, HoldResult, TypeOK, TryBlock
    <3> QED BY <2>2, <3>2, <3>3 DEF ReadSession, TypeOK
  <2>3. CASE Retrieve(h)
    <3>1. ev[h] \in Events /\ events[ev[h]] \in Webhook
      BY <2>1, <2>3 DEF Retrieve, WebhookSteps, TryBlock
    <3>2. res' \in [Handlers -> Result]
      BY <2>3, <3>1, HoldType DEF Retrieve, TypeOK
    <3>3. pc' \in [Handlers -> Steps]
      BY <2>0, <2>3 DEF Retrieve, HoldResult, TypeOK, TryBlock
    <3> QED BY <2>3, <3>2, <3>3 DEF Retrieve, TypeOK
  <2>4. CASE StoreIdentity(h)
    <3>1. snap' \in [Handlers -> SessionRow]
      BY <2>4 DEF StoreIdentity, TypeOK, SessionRow, FactNames
    <3> QED BY <2>0, <2>4, <3>1 DEF StoreIdentity, TypeOK, TryBlock
  <2>5. CASE SaveResult(h)
    BY <2>0, <2>5 DEF SaveResult, TypeOK, TryBlock
  <2>6. CASE SaveSession(h)
    <3>1. ev[h] \in Events
      BY <2>1, <2>6 DEF SaveSession, WebhookSteps, TryBlock
    <3>2. NextRow(h) \in SessionRow  BY <3>1, NextRowType
    <3>3. session' \in SessionRow /\ snap' \in [Handlers -> SessionRow]
      BY <2>6, <3>2, SaveType DEF SaveSession
    <3> QED BY <2>0, <2>6, <3>3 DEF SaveSession, Save, TypeOK, TryBlock
  <2>7. CASE SaveConflict(h)
    BY <2>0, <2>7 DEF SaveConflict, TypeOK
  <2>8. CASE ListEvents(h)
    BY <2>0, <2>8 DEF ListEvents, TypeOK, TryBlock
  <2>9. CASE EmitObserved(h) \/ EmitRetry(h)
    <3>1. AfterObserved(h) \in Steps /\ "complete" \in Steps
      BY <2>0 DEF AfterObserved, TryBlock
    <3> QED BY <2>9, <3>1, EntryTypes, EmitType DEF EmitObserved, EmitRetry
  <2>10. CASE EmitAbandoned(h) \/ EmitTerminal(h) \/ EmitCompleted(h)
    <3>1. /\ "emitTerminal" \in Steps /\ "emitCompleted" \in Steps
          /\ "complete" \in Steps
      BY <2>0 DEF TryBlock
    <3>2. snap[h].status \in CANONICAL_STATUSES  BY DEF TypeOK, SessionRow
    <3>3. \A type \in {"IDV_ABANDONED", "IDV_TERMINAL", "IDV_COMPLETED"},
             source \in Events \cup {NoEvent} :
            [type |-> type, status |-> snap[h].status, source |-> source] \in LogEntry
      BY <3>2, EntryTypes
    <3>4. CASE EmitAbandoned(h)  BY <3>1, <3>3, <3>4, EmitType DEF EmitAbandoned
    <3>5. CASE EmitTerminal(h)   BY <3>1, <3>3, <3>5, EmitType DEF EmitTerminal
    <3>6. CASE EmitCompleted(h)  BY <3>1, <3>3, <3>6, EmitType DEF EmitCompleted
    <3> QED BY <2>10, <3>4, <3>5, <3>6
  <2>11. CASE Complete(h)
    <3>1. ev[h] \in Events
      BY <2>1, <2>11 DEF Complete, WebhookSteps, TryBlock
    <3>2. acked' \subseteq Events  BY <2>11, <3>1 DEF Complete, TypeOK
    <3>3. receipts' \in [Events -> {"NONE", "PROCESSING", "COMPLETED", "FAILED"}]
      BY <2>11 DEF Complete, TypeOK
    <3> QED BY <2>11, <3>2, <3>3, ReturnType DEF Complete, TypeOK
  <2>12. CASE Fail(h)
    BY <2>12, ReturnType DEF Fail, TypeOK
  <2> QED BY <1>2, <2>2, <2>3, <2>4, <2>5, <2>6, <2>7, <2>8, <2>9, <2>10, <2>11, <2>12
          DEF WebhookStep
<1>3. ASSUME NEW h \in Handlers, Fault(h)  PROVE TypeOK'
  <2>1. faults' \in Nat /\ UNCHANGED <<provider, events, acked, visits, rows, log>>
    BY <1>3 DEF Fault, CallFails, RequestFails, Crash, SpendFault, TypeOK
  <2>2. CASE CallFails(h)
    <3>1. receipts' \in [Events -> {"NONE", "PROCESSING", "COMPLETED", "FAILED"}]
      BY <2>2 DEF CallFails, TypeOK
    <3> QED BY <2>1, <2>2, <3>1 DEF CallFails, TypeOK, Goto, Steps, WebhookSteps
  <2>3. CASE RequestFails(h) \/ Crash(h)
    BY <2>1, <2>3, ReturnType DEF RequestFails, Crash, TypeOK
  <2> QED BY <1>3, <2>2, <2>3 DEF Fault
<1>4. ASSUME NEW h \in Handlers, NEW e \in Events, Claim(h, e)  PROVE TypeOK'
  BY <1>4 DEF Claim, TypeOK, Goto, Steps, WebhookSteps, TryBlock
<1>5. ASSUME NEW e \in Events, ProviderIssues(e)  PROVE TypeOK'
  <2>1. PICK s \in ProviderStatuses, k \in Kinds, t \in {provider.clock, provider.clock + 1} :
          /\ events' = [events EXCEPT ![e] = [issued |-> TRUE, status |-> s, at |-> t, kind |-> k]]
          /\ provider' = [provider EXCEPT !.status = s, !.clock = t]
    BY <1>5 DEF ProviderIssues
  <2>2. t \in Nat /\ s \in CANONICAL_STATUSES /\ k \in WebhookKinds
    BY StatusAssumption DEF TypeOK, WebhookKinds
  <2>3. events' \in [Events -> Webhook]  BY <2>1, <2>2 DEF TypeOK, Webhook
  <2>4. provider' \in [opened: BOOLEAN, status: CANONICAL_STATUSES, clock: Nat]
    BY <2>1, <2>2 DEF TypeOK
  <2> QED BY <1>5, <2>3, <2>4 DEF ProviderIssues, TypeOK
<1>6. ASSUME NEW e \in Events, Duplicate(e)  PROVE TypeOK'
  BY <1>6 DEF Duplicate, TypeOK
<1> QED BY <1>1, <1>2, <1>3, <1>4, <1>5, <1>6 DEF Next

-----------------------------------------------------------------------------
(* Webhooks are claimed by one delivery at a time                           *)

\* A handler that goes on keeps its claim; one outside processWebhook has none.
LEMMA ClaimsGoOn ==
  ASSUME TypeOK, Claims, NEW h \in Handlers,
         \A g \in Handlers : g # h => pc'[g] = pc[g],
         pc'[h] \in WebhookSteps => pc[h] \in TryBlock,
         UNCHANGED <<receipts, ev, events>>
  PROVE  Claims'
<1>1. TryBlock \subseteq WebhookSteps  BY DEF WebhookSteps
<1>2. ASSUME NEW g \in Handlers  PROVE ClaimHeld(g)'
  BY <1>1 DEF Claims, ClaimHeld
<1>3. OneClaimant'
  BY <1>1 DEF Claims, OneClaimant
<1> QED BY <1>2, <1>3 DEF Claims

\* A handler that ends may change the receipt it holds, which no other holds.
LEMMA ClaimsReturn ==
  ASSUME TypeOK, Claims, NEW h \in Handlers, Return(h), UNCHANGED events,
         \/ UNCHANGED receipts
         \/ /\ pc[h] \in WebhookSteps
            /\ \A e \in Events : e # ev[h] => receipts'[e] = receipts[e]
  PROVE  Claims'
<1>1. /\ "idle" \notin WebhookSteps /\ "idle" \notin TryBlock
      /\ TryBlock \subseteq WebhookSteps
  BY DEF WebhookSteps, TryBlock
<1>2. /\ pc'[h] = "idle"
      /\ \A g \in Handlers : g # h => pc'[g] = pc[g] /\ ev'[g] = ev[g]
  BY DEF TypeOK, Return, Goto
<1>3. ASSUME NEW g \in Handlers  PROVE ClaimHeld(g)'
  <2>1. CASE g = h  BY <1>1, <1>2, <2>1 DEF ClaimHeld
  <2>2. CASE g # h /\ pc[g] \in WebhookSteps
    <3>1. receipts'[ev[g]] = receipts[ev[g]]
      BY <2>2 DEF Claims, OneClaimant, ClaimHeld
    <3> QED BY <1>2, <2>2, <3>1 DEF Claims, ClaimHeld
  <2>3. CASE g # h /\ pc[g] \notin WebhookSteps
    BY <1>1, <1>2, <2>3 DEF ClaimHeld
  <2> QED BY <2>1, <2>2, <2>3
<1>4. OneClaimant'
  BY <1>1, <1>2 DEF Claims, OneClaimant
<1> QED BY <1>3, <1>4 DEF Claims

\* Every action keeps the claims.
LEMMA StepClaims ==
  ASSUME TypeOK, Claims, Next
  PROVE  Claims'
<1> USE DEF world, locals
<1>0. /\ TryBlock \subseteq WebhookSteps /\ OtherSteps \cap WebhookSteps = {}
      /\ "idle" \notin WebhookSteps
  BY DEF WebhookSteps, OtherSteps, TryBlock
<1>1. ASSUME NEW h \in Handlers, NEW from, NEW type, NEW status, NEW to,
             Emit(h, from, type, status, to),
             to \in WebhookSteps => from \in TryBlock
      PROVE  Claims'
  <2>1. CASE Return(h)  BY <1>1, <2>1, ClaimsReturn DEF Emit
  <2>2. CASE Goto(h, to) /\ UNCHANGED locals
    <3>1. pc'[h] = to /\ \A g \in Handlers : g # h => pc'[g] = pc[g]
      BY <2>2 DEF Goto, TypeOK
    <3> QED BY <1>1, <2>2, <3>1, ClaimsGoOn DEF Emit
  <2> QED BY <1>1, <2>1, <2>2 DEF Emit
<1>2. ASSUME NEW h \in Handlers, Request(h) \/ OtherStep(h)  PROVE Claims'
  <2>1. CASE EmitCreated(h) \/ OpenEmit(h) \/ OpenCost(h) \/ ReturnEmit(h)
    <3>1. "idle" \notin WebhookSteps /\ "openCost" \notin WebhookSteps
      BY DEF WebhookSteps, TryBlock
    <3> QED BY <1>1, <2>1, <3>1 DEF EmitCreated, OpenEmit, OpenCost, ReturnEmit
  <2>2. CASE VisitConflict(h)
    BY <2>2, ClaimsReturn DEF VisitConflict
  <2>3. CASE StartVerification(h) \/ Open(h) \/ CustomerReturn(h)
             \/ CreateSession(h) \/ OpenSave(h) \/ ReturnSave(h)
    <3>1. UNCHANGED <<receipts, ev, events>>
      BY <2>3 DEF StartVerification, Open, CustomerReturn, Visit, CreateSession,
                  OpenSave, ReturnSave, Save
    <3>2. /\ \A g \in Handlers : g # h => pc'[g] = pc[g]
          /\ pc'[h] \in OtherSteps \/ (pc'[h] = "idle" /\ pc[h] = "idle")
      BY <2>3 DEF StartVerification, Open, CustomerReturn, Visit, CreateSession,
                  OpenSave, ReturnSave, Goto, TypeOK, OtherSteps
    <3> QED BY <1>0, <3>1, <3>2, ClaimsGoOn
  <2> QED BY <1>2, <2>1, <2>2, <2>3 DEF Request, OtherStep
<1>3. ASSUME NEW h \in Handlers, WebhookStep(h)  PROVE Claims'
  <2>1. CASE EmitObserved(h) \/ EmitRetry(h) \/ EmitAbandoned(h) \/ EmitTerminal(h)
             \/ EmitCompleted(h)
    <3>1. {"emitObserved", "emitRetry", "emitAbandoned", "emitTerminal", "emitCompleted"}
             \subseteq TryBlock
      BY DEF TryBlock
    <3> QED BY <1>1, <2>1, <3>1
            DEF EmitObserved, EmitRetry, EmitAbandoned, EmitTerminal, EmitCompleted
  <2>2. CASE Complete(h)
    <3>1. pc[h] \in WebhookSteps  BY <2>2 DEF Complete, WebhookSteps, TryBlock
    <3>2. \A e \in Events : e # ev[h] => receipts'[e] = receipts[e]
      BY <2>2 DEF Complete, TypeOK
    <3> QED BY <2>2, <3>1, <3>2, ClaimsReturn DEF Complete
  <2>3. CASE Fail(h)
    <3>1. pc[h] \in WebhookSteps  BY <2>3 DEF Fail, WebhookSteps
    <3>2. \A e \in Events : e # ev[h] => receipts'[e] = receipts[e]
      BY <2>3 DEF Fail, TypeOK
    <3> QED BY <2>3, <3>1, <3>2, ClaimsReturn DEF Fail
  <2>4. CASE ReadSession(h) \/ Retrieve(h) \/ StoreIdentity(h) \/ SaveResult(h)
             \/ SaveSession(h) \/ SaveConflict(h) \/ ListEvents(h)
    <3>1. UNCHANGED <<receipts, ev, events>>
      BY <2>4 DEF ReadSession, Retrieve, StoreIdentity, SaveResult, SaveSession, Save,
                  SaveConflict, ListEvents
    <3>2. \A g \in Handlers : g # h => pc'[g] = pc[g]
      BY <2>4 DEF ReadSession, Retrieve, HoldResult, StoreIdentity, SaveResult,
                  SaveSession, SaveConflict, ListEvents, Goto, TypeOK
    <3>3. pc[h] \in TryBlock
      BY <2>4 DEF ReadSession, Retrieve, StoreIdentity, SaveResult, SaveSession,
                  SaveConflict, ListEvents, TryBlock
    <3> QED BY <3>1, <3>2, <3>3, ClaimsGoOn
  <2> QED BY <1>3, <2>1, <2>2, <2>3, <2>4 DEF WebhookStep
<1>4. ASSUME NEW h \in Handlers, Fault(h)  PROVE Claims'
  <2>1. CASE CallFails(h)
    <3>1. /\ pc[h] \in TryBlock /\ pc'[h] = "fail" /\ UNCHANGED <<ev, events>>
          /\ \A g \in Handlers : g # h => pc'[g] = pc[g]
      BY <2>1 DEF CallFails, Goto, SpendFault, TypeOK
    <3>2. CASE UNCHANGED receipts  BY <3>1, <3>2, ClaimsGoOn
    <3>3. CASE receipts' = [receipts EXCEPT ![ev[h]] = "COMPLETED"]
      <4>1. ASSUME NEW g \in Handlers  PROVE ClaimHeld(g)'
        <5>1. CASE g = h
          BY <1>0, <3>1, <3>3, <5>1 DEF Claims, ClaimHeld, TypeOK, TryBlock
        <5>2. CASE g # h /\ pc[g] \in WebhookSteps
          <6>1. receipts'[ev[g]] = receipts[ev[g]]
            BY <1>0, <3>1, <3>3, <5>2 DEF Claims, OneClaimant, ClaimHeld, TypeOK
          <6> QED BY <3>1, <5>2, <6>1 DEF Claims, ClaimHeld
        <5>3. CASE g # h /\ pc[g] \notin WebhookSteps
          BY <1>0, <3>1, <5>3 DEF ClaimHeld
        <5> QED BY <5>1, <5>2, <5>3
      <4>2. OneClaimant'  BY <1>0, <3>1 DEF Claims, OneClaimant
      <4> QED BY <4>1, <4>2 DEF Claims
    <3> QED BY <2>1, <3>2, <3>3 DEF CallFails
  <2>2. CASE RequestFails(h) \/ Crash(h)
    BY <2>2, ClaimsReturn DEF RequestFails, Crash, SpendFault
  <2> QED BY <1>4, <2>1, <2>2 DEF Fault
<1>5. ASSUME NEW h \in Handlers, NEW e \in Events, Claim(h, e)  PROVE Claims'
  <2>1. /\ pc'[h] = "readSession" /\ ev'[h] = e /\ UNCHANGED events
        /\ \A g \in Handlers : g # h => pc'[g] = pc[g] /\ ev'[g] = ev[g]
        /\ receipts'[e] = "PROCESSING" /\ events[e].issued
        /\ \A f \in Events : f # e => receipts'[f] = receipts[f]
    BY <1>5 DEF Claim, Goto, TypeOK
  <2>2. \A g \in Handlers : pc[g] \in WebhookSteps => ev[g] # e
    BY <1>5 DEF Claim, Claims, ClaimHeld
  <2>3. ASSUME NEW g \in Handlers  PROVE ClaimHeld(g)'
    BY <1>0, <2>1, <2>2 DEF Claims, ClaimHeld
  <2>4. OneClaimant'
    BY <2>1, <2>2 DEF Claims, OneClaimant
  <2> QED BY <2>3, <2>4 DEF Claims
<1>6. ASSUME NEW e \in Events, ProviderIssues(e)  PROVE Claims'
  <2>1. UNCHANGED <<receipts, ev, pc>> /\ \A f \in Events : f # e => events'[f] = events[f]
    BY <1>6 DEF ProviderIssues, TypeOK
  <2>2. \A g \in Handlers : pc[g] \in WebhookSteps => ev[g] # e
    BY <1>6 DEF ProviderIssues, Claims, ClaimHeld
  <2>3. ASSUME NEW g \in Handlers  PROVE ClaimHeld(g)'
    BY <1>0, <2>1, <2>2 DEF Claims, ClaimHeld
  <2> QED BY <2>1, <2>3 DEF Claims, OneClaimant
<1>7. ASSUME NEW e \in Events, Duplicate(e)  PROVE Claims'
  BY <1>7 DEF Duplicate, Claims, ClaimHeld, OneClaimant
<1> QED BY <1>2, <1>3, <1>4, <1>5, <1>6, <1>7 DEF Next

-----------------------------------------------------------------------------
(* The session row changes as the contract allows                           *)

\* What h does leaves the row and the other handlers' copies alone.
Local(h) ==
  /\ UNCHANGED session
  /\ \A g \in Handlers : g # h => pc'[g] = pc[g] /\ snap'[g] = snap[g]

\* Actions other than those that write the row or take a copy of it: the copy the
\* handler goes on with, if any, is the one it had.
LEMMA CopiesLocal ==
  ASSUME TypeOK, Copies, CreatedOnce, NEW h \in Handlers, Local(h),
         provider'.opened = provider.opened, pc'[h] # "createSession",
         pc'[h] \in HoldsCopy =>
            /\ pc[h] \in HoldsCopy /\ snap'[h] = snap[h]
            /\ pc[h] # "openSave" /\ pc'[h] # "openSave"
  PROVE  Copies' /\ CreatedOnce'
<1>1. ASSUME NEW g \in Handlers  PROVE CopyAgrees(g)'
  BY DEF Copies, CopyAgrees, Local
<1>2. CreatedOnce'
  BY DEF CreatedOnce, Local
<1> QED BY <1>1, <1>2 DEF Copies

\* A handler takes a copy of the row it reads.
LEMMA CopiesRead ==
  ASSUME TypeOK, Copies, CreatedOnce, NEW h \in Handlers, Local(h),
         provider'.opened = provider.opened, snap'[h] = session, pc'[h] # "createSession",
         pc'[h] \in HoldsCopy => session.exists,
         pc'[h] = "openSave" => session.status \notin TERMINAL_STATUSES
  PROVE  Copies' /\ CreatedOnce'
<1>1. session.version \in Nat  BY DEF TypeOK, SessionRow
<1>2. ASSUME NEW g \in Handlers  PROVE CopyAgrees(g)'
  <2>1. CASE g = h  BY <1>1, <2>1 DEF CopyAgrees, Local
  <2>2. CASE g # h  BY <2>2 DEF Copies, CopyAgrees, Local
  <2> QED BY <2>1, <2>2
<1>3. CreatedOnce'
  BY DEF CreatedOnce, Local
<1> QED BY <1>2, <1>3 DEF Copies

\* A save makes every other copy stale.
LEMMA CopiesSave ==
  ASSUME TypeOK, Copies, CreatedOnce, NEW h \in Handlers, NEW row \in SessionRow,
         Save(h, row), row.exists, pc[h] \in HoldsCopy,
         pc'[h] \notin HoldsCopy \cup {"createSession"},
         \A g \in Handlers : g # h => pc'[g] = pc[g]
  PROVE  Copies' /\ CreatedOnce'
<1>1. /\ session' \in SessionRow /\ session'.exists
      /\ session'.version = session.version + 1
  BY SaveType
<1>2. session.exists  BY DEF Copies, CopyAgrees
<1>3. \A g \in Handlers : g # h => snap'[g] = snap[g]
  BY DEF Save, TypeOK
<1>4. /\ session.version \in Nat
      /\ \A g \in Handlers : snap[g].version \in Nat
  BY DEF TypeOK, SessionRow
<1>5. ASSUME NEW g \in Handlers  PROVE CopyAgrees(g)'
  <2>1. CASE g = h  BY <2>1 DEF CopyAgrees
  <2>2. CASE g # h
    <3>1. pc[g] \in HoldsCopy =>
             snap[g].version <= session.version /\ snap[g].exists
             /\ (pc[g] = "openSave" => snap[g].status \notin TERMINAL_STATUSES)
      BY DEF Copies, CopyAgrees
    <3>2. pc[g] \in HoldsCopy =>
             snap[g].version <= session'.version /\ snap[g].version # session'.version
      BY <1>1, <1>4, <3>1
    <3> QED BY <1>1, <1>3, <2>2, <3>1, <3>2 DEF CopyAgrees
  <2> QED BY <2>1, <2>2
<1>6. CreatedOnce'
  <2>1. UNCHANGED provider  BY DEF Save, world
  <2>2. \A g \in Handlers : pc'[g] # "createSession"
    BY <1>2 DEF CreatedOnce
  <2> QED BY <1>1, <1>2, <2>1, <2>2 DEF CreatedOnce
<1> QED BY <1>5, <1>6 DEF Copies

\* Every action keeps the copies right.
LEMMA StepCopies ==
  ASSUME TypeOK, Claims, Copies, CreatedOnce, Next
  PROVE  Copies' /\ CreatedOnce'
<1> USE DEF world, rows, locals
<1>0. /\ "createSession" \notin HoldsCopy /\ "idle" \notin HoldsCopy
      /\ "fail" \notin HoldsCopy /\ "complete" \notin HoldsCopy
      /\ "openCost" \notin HoldsCopy /\ "emitObserved" \notin HoldsCopy
      /\ "emitTerminal" \notin HoldsCopy /\ "emitCompleted" \notin HoldsCopy
  BY DEF HoldsCopy
<1>1. ASSUME NEW h \in Handlers, Return(h), UNCHANGED <<session, provider>>
      PROVE  Copies' /\ CreatedOnce'
  <2>1. Local(h) /\ pc'[h] = "idle"
    BY <1>1 DEF Return, Goto, Local, TypeOK
  <2> QED BY <1>0, <1>1, <2>1, CopiesLocal
<1>2. ASSUME NEW h \in Handlers, NEW from, NEW type, NEW status,
             NEW to, to \notin HoldsCopy \cup {"createSession"},
             Emit(h, from, type, status, to)
      PROVE  Copies' /\ CreatedOnce'
  <2>1. UNCHANGED <<session, provider>>  BY <1>2 DEF Emit
  <2>2. CASE Return(h)  BY <1>1, <2>1, <2>2
  <2>3. CASE Goto(h, to) /\ UNCHANGED locals
    <3>1. Local(h) /\ pc'[h] = to  BY <2>1, <2>3 DEF Goto, Local, TypeOK
    <3> QED BY <1>2, <2>1, <3>1, CopiesLocal
  <2> QED BY <1>2, <2>2, <2>3 DEF Emit
<1>3. ASSUME NEW h \in Handlers, Request(h) \/ OtherStep(h)
      PROVE  Copies' /\ CreatedOnce'
  <2>1. CASE StartVerification(h)
    <3>1. PICK s \in InitialStatuses :
             /\ provider' = [provider EXCEPT !.opened = TRUE, !.status = s]
             /\ snap' = [snap EXCEPT ![h] = [NoSession EXCEPT !.exists = TRUE, !.status = s,
                                                             !.version = 1]]
      BY <2>1 DEF StartVerification
    <3>2. /\ snap'[h].exists /\ snap'[h].status \in OPEN_STATUSES
          /\ snap'[h].lastAt = NoTime /\ snap'[h].facts = {}
      BY <3>1, StatusAssumption DEF NoSession, TypeOK
    <3>3. /\ ~session.exists /\ UNCHANGED session /\ provider'.opened
          /\ \A g \in Handlers : pc[g] # "createSession"
      BY <2>1, <3>1 DEF StartVerification, CreatedOnce, TypeOK
    <3>4. /\ pc'[h] = "createSession"
          /\ \A g \in Handlers : g # h => pc'[g] = pc[g] /\ snap'[g] = snap[g]
      BY <2>1, <3>1 DEF StartVerification, Goto, TypeOK
    <3>5. ASSUME NEW g \in Handlers  PROVE CopyAgrees(g)'
      BY <1>0, <3>3, <3>4 DEF Copies, CopyAgrees
    <3>6. CreatedOnce'
      BY <3>2, <3>3, <3>4 DEF CreatedOnce
    <3> QED BY <3>5, <3>6 DEF Copies
  <2>2. CASE Open(h) \/ CustomerReturn(h)
    <3>1. UNCHANGED <<session, provider>> /\ session.exists /\ pc[h] = "idle"
      BY <2>2 DEF Open, CustomerReturn, Visit
    <3>2. CASE UNCHANGED <<pc, snap>>
      <4>1. Local(h) /\ pc'[h] = "idle"  BY <3>1, <3>2 DEF Local
      <4> QED BY <1>0, <3>1, <4>1, CopiesLocal
    <3>3. CASE /\ snap' = [snap EXCEPT ![h] = session] /\ session.status \notin TERMINAL_STATUSES
               /\ Goto(h, "openSave")
      <4>1. Local(h) /\ snap'[h] = session /\ pc'[h] = "openSave"
        BY <3>1, <3>3 DEF Local, Goto, TypeOK
      <4> QED BY <3>1, <3>3, <4>1, CopiesRead
    <3>4. CASE snap' = [snap EXCEPT ![h] = session] /\ Goto(h, "returnSave")
      <4>1. Local(h) /\ snap'[h] = session /\ pc'[h] = "returnSave"
        BY <3>1, <3>4 DEF Local, Goto, TypeOK
      <4> QED BY <3>1, <3>4, <4>1, CopiesRead
    <3> QED BY <2>2, <3>2, <3>3, <3>4 DEF Open, CustomerReturn
  <2>3. CASE CreateSession(h)
    <3>1. /\ session' = snap[h] /\ UNCHANGED <<provider, snap>> /\ provider.opened
          /\ pc'[h] = "emitCreated" /\ pc[h] = "createSession"
          /\ \A g \in Handlers : g # h => pc'[g] = pc[g]
      BY <2>3 DEF CreateSession, Goto, TypeOK, CreatedOnce
    <3>2. session'.exists /\ ~session.exists /\ "emitCreated" \notin HoldsCopy
      BY <3>1 DEF CreatedOnce, HoldsCopy
    <3>3. ASSUME NEW g \in Handlers  PROVE CopyAgrees(g)'
      BY <3>1, <3>2 DEF Copies, CopyAgrees
    <3>4. \A g \in Handlers : pc'[g] # "createSession"
      BY <3>1 DEF CreatedOnce
    <3>5. CreatedOnce'  BY <3>1, <3>2, <3>4 DEF CreatedOnce
    <3> QED BY <3>3, <3>5 DEF Copies
  <2>4. CASE EmitCreated(h) \/ OpenEmit(h) \/ OpenCost(h) \/ ReturnEmit(h)
    BY <1>0, <1>2, <2>4 DEF EmitCreated, OpenEmit, OpenCost, ReturnEmit
  <2>5. CASE OpenSave(h) \/ ReturnSave(h)
    <3>1. PICK row \in SessionRow : Save(h, row) /\ row.exists = snap[h].exists
      <4>1. snap[h] \in SessionRow  BY DEF TypeOK
      <4>2. /\ [snap[h] EXCEPT !.status = "STARTED"] \in SessionRow
            /\ [snap[h] EXCEPT !.facts = snap[h].facts \cup {"returned"}] \in SessionRow
            /\ [snap[h] EXCEPT !.status = "STARTED"].exists = snap[h].exists
            /\ [snap[h] EXCEPT !.facts = snap[h].facts \cup {"returned"}].exists
                  = snap[h].exists
        BY <4>1 DEF SessionRow, CANONICAL_STATUSES, OPEN_STATUSES, FactNames
      <4> QED BY <2>5, <4>2 DEF OpenSave, ReturnSave
    <3>2. /\ pc[h] \in HoldsCopy /\ pc'[h] \notin HoldsCopy \cup {"createSession"}
          /\ \A g \in Handlers : g # h => pc'[g] = pc[g]
      BY <2>5 DEF OpenSave, ReturnSave, Goto, TypeOK, HoldsCopy
    <3>3. snap[h].exists  BY <3>2 DEF Copies, CopyAgrees
    <3> QED BY <3>1, <3>2, <3>3, CopiesSave
  <2>6. CASE VisitConflict(h)
    BY <1>1, <2>6 DEF VisitConflict
  <2> QED BY <1>3, <2>1, <2>2, <2>3, <2>4, <2>5, <2>6 DEF Request, OtherStep
<1>4. ASSUME NEW h \in Handlers, WebhookStep(h)  PROVE Copies' /\ CreatedOnce'
  <2>1. CASE EmitObserved(h)
    <3>1. AfterObserved(h) \notin HoldsCopy \cup {"createSession"}
      BY DEF AfterObserved, HoldsCopy
    <3> QED BY <1>2, <2>1, <3>1 DEF EmitObserved
  <2>2. CASE EmitRetry(h) \/ EmitAbandoned(h) \/ EmitTerminal(h) \/ EmitCompleted(h)
    BY <1>0, <1>2, <2>2 DEF EmitRetry, EmitAbandoned, EmitTerminal, EmitCompleted
  <2>3. CASE Complete(h) \/ Fail(h)
    BY <1>1, <2>3 DEF Complete, Fail
  <2>4. CASE ReadSession(h)
    <3>1. UNCHANGED <<session, provider>> /\ snap' = [snap EXCEPT ![h] = session]
      BY <2>4 DEF ReadSession
    <3>2. /\ \A g \in Handlers : g # h => pc'[g] = pc[g]
          /\ \/ pc'[h] = "fail"
             \/ session.exists /\ pc'[h] \in {"retrieve", "saveSession", "storeIdentity",
                                              "saveResult"}
      BY <2>4 DEF ReadSession, HoldResult, Goto, TypeOK
    <3>3. Local(h) /\ snap'[h] = session  BY <3>1, <3>2 DEF Local, TypeOK
    <3> QED BY <1>0, <3>1, <3>2, <3>3, CopiesRead
  <2>5. CASE Retrieve(h) \/ SaveResult(h) \/ ListEvents(h) \/ SaveConflict(h)
    <3>1. UNCHANGED <<session, provider, snap>>
      BY <2>5 DEF Retrieve, SaveResult, ListEvents, SaveConflict
    <3>2. /\ \A g \in Handlers : g # h => pc'[g] = pc[g]
          /\ \/ pc'[h] \in {"fail", "emitObserved"}
             \/ pc[h] \in {"retrieve", "saveResult"}
                /\ pc'[h] \in {"storeIdentity", "saveResult", "saveSession"}
      BY <2>5 DEF Retrieve, HoldResult, SaveResult, ListEvents, SaveConflict, Goto, TypeOK
    <3>3. Local(h)  BY <3>1, <3>2 DEF Local
    <3>4. pc'[h] \in HoldsCopy => /\ pc[h] \in HoldsCopy /\ snap'[h] = snap[h]
                                  /\ pc[h] # "openSave" /\ pc'[h] # "openSave"
      BY <1>0, <3>1, <3>2 DEF HoldsCopy
    <3> QED BY <3>1, <3>2, <3>3, <3>4, CopiesLocal
  <2>6. CASE StoreIdentity(h)
    <3>1. /\ UNCHANGED <<session, provider>> /\ pc[h] = "storeIdentity"
          /\ pc'[h] = "saveResult"
          /\ \A g \in Handlers : g # h => pc'[g] = pc[g] /\ snap'[g] = snap[g]
      BY <2>6 DEF StoreIdentity, Goto, TypeOK
    <3>2. /\ snap'[h].status = snap[h].status /\ snap'[h].lastAt = snap[h].lastAt
          /\ snap'[h].exists = snap[h].exists /\ snap'[h].version = snap[h].version
          /\ snap[h].facts \subseteq snap'[h].facts
      BY <2>6 DEF StoreIdentity, TypeOK, SessionRow
    <3>3. CopyAgrees(h)  BY DEF Copies
    <3>4. "storeIdentity" \in HoldsCopy  BY DEF HoldsCopy
    <3>5. CopyAgrees(h)'  BY <3>1, <3>2, <3>3, <3>4 DEF CopyAgrees
    <3>6. ASSUME NEW g \in Handlers, g # h  PROVE CopyAgrees(g)'
      BY <3>1, <3>6 DEF Copies, CopyAgrees
    <3>7. CreatedOnce'  BY <3>1 DEF CreatedOnce
    <3> QED BY <3>5, <3>6, <3>7 DEF Copies
  <2>7. CASE SaveSession(h)
    <3>1. /\ pc[h] \in HoldsCopy /\ pc'[h] \notin HoldsCopy \cup {"createSession"}
          /\ \A g \in Handlers : g # h => pc'[g] = pc[g]
      BY <2>7 DEF SaveSession, Goto, TypeOK, HoldsCopy
    <3>2. ev[h] \in Events
      BY <2>7 DEF SaveSession, Claims, ClaimHeld, WebhookSteps, TryBlock
    <3>3. NextRow(h) \in SessionRow /\ NextRow(h).exists
      BY <3>1, <3>2, NextRowType DEF Copies, CopyAgrees
    <3> QED BY <2>7, <3>1, <3>3, CopiesSave DEF SaveSession
  <2> QED BY <1>4, <2>1, <2>2, <2>3, <2>4, <2>5, <2>6, <2>7 DEF WebhookStep
<1>5. ASSUME NEW h \in Handlers, Fault(h)  PROVE Copies' /\ CreatedOnce'
  <2>1. CASE CallFails(h)
    <3>1. /\ UNCHANGED <<session, provider, snap>> /\ pc'[h] = "fail"
          /\ \A g \in Handlers : g # h => pc'[g] = pc[g]
      BY <2>1 DEF CallFails, SpendFault, Goto, TypeOK
    <3>2. Local(h)  BY <3>1 DEF Local
    <3> QED BY <1>0, <3>1, <3>2, CopiesLocal
  <2>2. CASE RequestFails(h) \/ Crash(h)
    BY <1>1, <2>2 DEF RequestFails, Crash, SpendFault
  <2> QED BY <1>5, <2>1, <2>2 DEF Fault
<1>6. ASSUME NEW h \in Handlers, NEW e \in Events, Claim(h, e)
      PROVE  Copies' /\ CreatedOnce'
  <2>1. /\ UNCHANGED <<session, provider>> /\ pc'[h] = "readSession" /\ Local(h)
    BY <1>6 DEF Claim, Goto, Local, TypeOK
  <2>2. "readSession" \notin HoldsCopy  BY DEF HoldsCopy
  <2> QED BY <2>1, <2>2, CopiesLocal
<1>7. ASSUME NEW e \in Events, ProviderIssues(e)  PROVE Copies' /\ CreatedOnce'
  <2>1. UNCHANGED <<session, pc, snap>> /\ provider'.opened = provider.opened
    BY <1>7 DEF ProviderIssues, TypeOK
  <2> QED BY <2>1 DEF Copies, CopyAgrees, CreatedOnce
<1>8. ASSUME NEW e \in Events, Duplicate(e)  PROVE Copies' /\ CreatedOnce'
  BY <1>8 DEF Duplicate, Copies, CopyAgrees, CreatedOnce
<1> QED BY <1>3, <1>4, <1>5, <1>6, <1>7, <1>8 DEF Next

-----------------------------------------------------------------------------
(* The inductive invariant, and what follows from it                        *)

LEMMA InitIInv == Init => IInv
<1> SUFFICES ASSUME Init PROVE IInv  OBVIOUS
<1>1. TypeOK  BY InitTypeOK
<1>2. /\ "idle" \notin WebhookSteps /\ "idle" \notin TryBlock
      /\ "idle" \notin HoldsCopy
  BY DEF WebhookSteps, TryBlock, HoldsCopy
<1>3. \A h \in Handlers : pc[h] = "idle"  BY DEF Init
<1>4. Claims  BY <1>2, <1>3 DEF Claims, ClaimHeld, OneClaimant
<1>5. Copies  BY <1>2, <1>3 DEF Copies, CopyAgrees
<1>6. CreatedOnce  BY <1>3 DEF Init, CreatedOnce, NoSession
<1> QED BY <1>1, <1>4, <1>5, <1>6 DEF IInv

LEMMA StepIInv == IInv /\ [Next]_vars => IInv'
<1> SUFFICES ASSUME IInv, [Next]_vars PROVE IInv'  OBVIOUS
<1>1. CASE Next
  BY <1>1, StepTypeOK, StepClaims, StepCopies DEF IInv, Claims
<1>2. CASE UNCHANGED vars
  BY <1>2 DEF vars, world, rows, locals, IInv, TypeOK, Claims, ClaimHeld, OneClaimant,
              Copies, CopyAgrees, CreatedOnce
<1> QED BY <1>1, <1>2

\* The inductive invariant: claims are exclusive, and a handler whose copy has the
\* version of the row holds what the row holds.
THEOREM Inductive == Spec => []IInv
BY InitIInv, StepIInv, PTL DEF Spec

\* Every variable keeps its type, for any number of handlers and webhooks.
THEOREM TypeCorrect == Spec => []TypeOK
<1>1. IInv => TypeOK  BY DEF IInv
<1> QED BY <1>1, Inductive, PTL

\* However often a webhook is redelivered, failed, crashed on and claimed again, no
\* two deliveries are ever inside processWebhook's try or catch with it.
THEOREM ExclusiveClaims == Spec => []OneClaimant
<1>1. IInv => OneClaimant  BY DEF IInv, Claims
<1> QED BY <1>1, Inductive, PTL

-----------------------------------------------------------------------------
(* The stored row implements IdvContract                                    *)

RowKept == UNCHANGED <<session.exists, session.status, session.lastAt, session.facts>>

\* Every action that does not write the row keeps it.
LEMMA WritersOfTheRow ==
  ASSUME Next
  PROVE  \/ UNCHANGED session
         \/ \E h \in Handlers :
               CreateSession(h) \/ OpenSave(h) \/ ReturnSave(h) \/ SaveSession(h)
<1> USE DEF world, rows, locals, Emit
<1>1. ASSUME NEW h \in Handlers, Request(h)  PROVE UNCHANGED session
  BY <1>1 DEF Request, StartVerification, Open, CustomerReturn, Visit
<1>2. ASSUME NEW h \in Handlers, OtherStep(h),
             ~(CreateSession(h) \/ OpenSave(h) \/ ReturnSave(h))
      PROVE  UNCHANGED session
  BY <1>2 DEF OtherStep, EmitCreated, OpenEmit, OpenCost, ReturnEmit, VisitConflict
<1>3. ASSUME NEW h \in Handlers, WebhookStep(h), ~SaveSession(h)  PROVE UNCHANGED session
  BY <1>3 DEF WebhookStep, ReadSession, Retrieve, StoreIdentity, SaveResult, SaveConflict,
              ListEvents, EmitObserved, EmitRetry, EmitAbandoned, EmitTerminal,
              EmitCompleted, Complete, Fail
<1>4. ASSUME NEW h \in Handlers, Fault(h)  PROVE UNCHANGED session
  BY <1>4 DEF Fault, CallFails, RequestFails, Crash, SpendFault
<1>5. ASSUME NEW h \in Handlers, NEW e \in Events, Claim(h, e)  PROVE UNCHANGED session
  BY <1>5 DEF Claim
<1>6. ASSUME NEW e \in Events, ProviderIssues(e) \/ Duplicate(e)  PROVE UNCHANGED session
  BY <1>6 DEF ProviderIssues, Duplicate
<1> QED BY <1>1, <1>2, <1>3, <1>4, <1>5, <1>6 DEF Next

\* A save writes over the row its handler read: what it derives from its copy, it
\* derives from the row.
LEMMA SavedFromRow ==
  ASSUME IInv, NEW h \in Handlers, pc[h] \in HoldsCopy, Fresh(h)
  PROVE  /\ session.exists /\ snap[h].exists
         /\ snap[h].status = session.status /\ snap[h].lastAt = session.lastAt
         /\ session.facts \subseteq snap[h].facts
         /\ pc[h] = "openSave" => /\ snap[h].facts = session.facts
                                  /\ session.status \notin TERMINAL_STATUSES
BY DEF IInv, Copies, CopyAgrees, Fresh

\* What SaveSession does to the row.
LEMMA SaveSessionRow ==
  ASSUME IInv, NEW h \in Handlers, SaveSession(h)
  PROVE  LET in == Incoming(h)
             at == events[ev[h]].at
         IN /\ ev[h] \in Events /\ in \in CANONICAL_STATUSES /\ at \in Nat
            /\ session.exists /\ session'.exists
            /\ session'.status = ReconciledStatus(session.status, session.lastAt, in, at)
            /\ session'.lastAt = ReconciledTime(session.status, session.lastAt, in, at)
            /\ session.facts \subseteq session'.facts
            /\ in \in TERMINAL_STATUSES => "completed" \in session'.facts
<1>1. TypeOK  BY DEF IInv
<1>2. /\ pc[h] = "saveSession" /\ Fresh(h) /\ Save(h, NextRow(h))
  BY DEF SaveSession, Save
<1>3. ev[h] \in Events
  BY <1>2 DEF IInv, Claims, ClaimHeld, WebhookSteps, TryBlock
<1>4. /\ session.exists /\ snap[h].exists
      /\ snap[h].status = session.status /\ snap[h].lastAt = session.lastAt
      /\ session.facts \subseteq snap[h].facts
  BY <1>2, SavedFromRow DEF HoldsCopy
<1>5. NextRow(h) \in SessionRow  BY <1>1, <1>3, NextRowType
<1>6. /\ session'.exists = NextRow(h).exists /\ session'.status = NextRow(h).status
      /\ session'.lastAt = NextRow(h).lastAt /\ session'.facts = NextRow(h).facts
  BY <1>1, <1>2, <1>5, SaveType
<1> QED BY <1>1, <1>3, <1>4, <1>6, NextRowType

\* Every step is a step of the contract or leaves what it speaks of unchanged.
LEMMA StepContract == IInv /\ [Next]_vars => [Contract!CNext]_(Contract!cvars)
<1> SUFFICES ASSUME IInv, [Next]_vars
             PROVE  Contract!CNext \/ RowKept
  BY DEF Contract!cvars, RowKept
<1>0. TypeOK /\ session \in SessionRow  BY DEF IInv, TypeOK
<1>1. CASE UNCHANGED vars  BY <1>1 DEF vars, rows, RowKept
<1>2. CASE UNCHANGED session  BY <1>2 DEF RowKept
<1>3. ASSUME NEW h \in Handlers, CreateSession(h)  PROVE Contract!Create
  <2>1. /\ session' = snap[h] /\ session = NoSession /\ ~session.exists
        /\ snap[h].exists /\ snap[h].status \in OPEN_STATUSES
        /\ snap[h].lastAt = NoTime /\ snap[h].facts = {}
    BY <1>3 DEF CreateSession, IInv, CreatedOnce
  <2>2. session'.exists = TRUE  BY <1>0, <2>1 DEF TypeOK, SessionRow
  <2> QED BY <2>1, <2>2 DEF Contract!Create, Contract!OPEN_STATUSES, OPEN_STATUSES, NoSession
<1>4. ASSUME NEW h \in Handlers, OpenSave(h)  PROVE Contract!Reopen
  <2>1. /\ pc[h] = "openSave" /\ Fresh(h)
        /\ Save(h, [snap[h] EXCEPT !.status = "STARTED"])
    BY <1>4 DEF OpenSave, Save
  <2>2. snap[h] \in SessionRow  BY <1>0 DEF TypeOK
  <2>3. [snap[h] EXCEPT !.status = "STARTED"] \in SessionRow
    BY <2>2 DEF SessionRow, CANONICAL_STATUSES, OPEN_STATUSES
  <2>4. /\ session'.exists = snap[h].exists /\ session'.status = "STARTED"
        /\ session'.lastAt = snap[h].lastAt /\ session'.facts = snap[h].facts
    BY <1>0, <2>1, <2>2, <2>3, SaveType DEF SessionRow
  <2>5. /\ session.exists /\ snap[h].exists /\ snap[h].lastAt = session.lastAt
        /\ snap[h].facts = session.facts /\ session.status \notin TERMINAL_STATUSES
    BY <2>1, SavedFromRow DEF HoldsCopy
  <2>6. session'.exists = session.exists  BY <1>0, <2>2, <2>4, <2>5 DEF SessionRow
  <2> QED BY <2>4, <2>5, <2>6
          DEF Contract!Reopen, Contract!TERMINAL_STATUSES, TERMINAL_STATUSES
<1>5. ASSUME NEW h \in Handlers, ReturnSave(h)  PROVE Contract!Note
  <2>1. /\ pc[h] = "returnSave" /\ Fresh(h)
        /\ Save(h, [snap[h] EXCEPT !.facts = snap[h].facts \cup {"returned"}])
    BY <1>5 DEF ReturnSave, Save
  <2>2. snap[h] \in SessionRow  BY <1>0 DEF TypeOK
  <2>3. [snap[h] EXCEPT !.facts = snap[h].facts \cup {"returned"}] \in SessionRow
    BY <2>2 DEF SessionRow, FactNames
  <2>4. /\ session'.exists = snap[h].exists /\ session'.status = snap[h].status
        /\ session'.lastAt = snap[h].lastAt /\ snap[h].facts \subseteq session'.facts
    BY <1>0, <2>1, <2>2, <2>3, SaveType DEF SessionRow
  <2>5. /\ session.exists /\ snap[h].exists /\ snap[h].lastAt = session.lastAt
        /\ snap[h].status = session.status /\ session.facts \subseteq snap[h].facts
    BY <2>1, SavedFromRow DEF HoldsCopy
  <2>6. session'.exists = session.exists /\ session'.lastAt >= session.lastAt
    BY <1>0, <2>2, <2>4, <2>5 DEF SessionRow
  <2> QED BY <2>4, <2>5, <2>6 DEF Contract!Note
<1>6. ASSUME NEW h \in Handlers, SaveSession(h)  PROVE Contract!Advance \/ Contract!Note
  <2>1. PICK in \in CANONICAL_STATUSES, at \in Nat :
        /\ session.exists /\ session'.exists
        /\ session'.status = ReconciledStatus(session.status, session.lastAt, in, at)
        /\ session'.lastAt = ReconciledTime(session.status, session.lastAt, in, at)
        /\ session.facts \subseteq session'.facts
        /\ in \in TERMINAL_STATUSES => "completed" \in session'.facts
    BY <1>6, SaveSessionRow
  <2>2. session.status \in CANONICAL_STATUSES /\ session.lastAt \in Nat
    BY <1>0 DEF SessionRow
  <2>3. session'.exists = session.exists
    <3>1. session' \in SessionRow  BY StepIInv DEF IInv, TypeOK
    <3> QED BY <1>0, <2>1, <3>1 DEF SessionRow
  <2>4. session'.lastAt >= session.lastAt  BY <2>1, <2>2, ReconcileType
  <2>5. CASE session'.status = session.status
    BY <2>1, <2>3, <2>4, <2>5 DEF Contract!Note
  <2>6. CASE session'.status # session.status
    <3> DEFINE st == ReconciledStatus(session.status, session.lastAt, in, at)
    <3>0. st # session.status => st \in ALLOWED(session.status) /\ st = in
      <4> DEFINE s == session.status
                 l == session.lastAt
      <4>1. s \in CANONICAL_STATUSES /\ l \in Nat  BY <2>2
      <4>2. in \in CANONICAL_STATUSES /\ at \in Nat  BY <2>1
      <4> HIDE DEF s, l
      <4>3. ReconciledStatus(s, l, in, at) # s =>
              ReconciledStatus(s, l, in, at) \in ALLOWED(s) /\ ReconciledStatus(s, l, in, at) = in
        BY ONLY <4>1, <4>2, ReconcileType
      <4> QED  BY <4>3 DEF s, l
    <3>1. session'.status \in ALLOWED(session.status) /\ session'.status = in
      BY <2>1, <2>6, <3>0
    <3>2. ALLOWED(session.status) = Contract!ALLOWED(session.status)
      BY DEF ALLOWED, Contract!ALLOWED, CANONICAL_STATUSES, Contract!CANONICAL_STATUSES,
             TERMINAL_STATUSES, Contract!TERMINAL_STATUSES, OPEN_STATUSES,
             Contract!OPEN_STATUSES
    <3> QED BY <2>1, <2>3, <2>4, <3>1, <3>2
            DEF Contract!Advance, Contract!TERMINAL_STATUSES, TERMINAL_STATUSES
  <2> QED BY <2>5, <2>6
<1> QED BY <1>1, <1>2, <1>3, <1>4, <1>5, <1>6, WritersOfTheRow DEF Contract!CNext

\* Whatever handlers, redeliveries, failures and crashes do, the stored row keeps the
\* contract: no decision is reopened, no fact lost, provider time never runs back.
THEOREM RowKeepsContract == Spec => KeepsContract
<1>1. Init => Contract!CInit
  BY DEF Init, NoSession, Contract!CInit, Contract!NoTime
<1> QED BY <1>1, StepContract, Inductive, PTL DEF Spec, KeepsContract, Contract!CSpec

-----------------------------------------------------------------------------
(* A settled decision took effect                                           *)

\* What a webhook says is fixed once it is issued.
LEMMA EventsFixed ==
  ASSUME TypeOK, Next, NEW e \in Events, events[e].issued
  PROVE  events'[e] = events[e]
<1> USE DEF world, Emit
<1>1. ASSUME NEW f \in Events, ProviderIssues(f)  PROVE events'[e] = events[e]
  BY <1>1 DEF ProviderIssues, TypeOK
<1>2. ASSUME NEW f \in Events, Duplicate(f)  PROVE events'[e] = events[e]
  BY <1>2 DEF Duplicate
<1>3. ASSUME NEW h \in Handlers, NEW f \in Events, Claim(h, f)
      PROVE  events'[e] = events[e]
  BY <1>3 DEF Claim
<1>4. ASSUME NEW h \in Handlers, Request(h) \/ OtherStep(h)  PROVE UNCHANGED events
  BY <1>4 DEF Request, StartVerification, Open, CustomerReturn, Visit, OtherStep,
              CreateSession, EmitCreated, OpenSave, OpenEmit, OpenCost, ReturnSave,
              ReturnEmit, VisitConflict, Save
<1>5. ASSUME NEW h \in Handlers, WebhookStep(h)  PROVE UNCHANGED events
  BY <1>5 DEF WebhookStep, ReadSession, Retrieve, StoreIdentity, SaveResult, SaveSession,
              Save, SaveConflict, ListEvents, EmitObserved, EmitRetry, EmitAbandoned,
              EmitTerminal, EmitCompleted, Complete, Fail
<1>6. ASSUME NEW h \in Handlers, Fault(h)  PROVE UNCHANGED events
  BY <1>6 DEF Fault, CallFails, RequestFails, Crash, SpendFault
<1> QED BY <1>1, <1>2, <1>3, <1>4, <1>5, <1>6 DEF Next

\* The contract makes a decision final and keeps provider time.
LEMMA RowLasts ==
  ASSUME IInv, Next
  PROVE  /\ session'.lastAt >= session.lastAt
         /\ session.lastAt \in Nat /\ session'.lastAt \in Nat
         /\ session.status \in TERMINAL_STATUSES => session'.status = session.status
<1>1. IInv' /\ session.lastAt \in Nat /\ session'.lastAt \in Nat
  BY StepIInv DEF IInv, TypeOK, SessionRow
<1>2. Contract!CNext \/ RowKept  BY StepContract DEF RowKept, Contract!cvars
<1>3. session'.lastAt >= session.lastAt
  <2>1. session'.lastAt >= session.lastAt \/ session'.lastAt = session.lastAt
    BY <1>2 DEF Contract!CNext, Contract!Create, Contract!Advance, Contract!Reopen,
                Contract!Note, RowKept
  <2> QED BY <1>1, <2>1
<1>4. ASSUME session.status \in TERMINAL_STATUSES
      PROVE  session'.status = session.status
  <2>1. session.exists
    BY <1>4 DEF IInv, CreatedOnce, NoSession, TERMINAL_STATUSES
  <2>2. ASSUME Contract!Advance  PROVE FALSE
    <3>1. ALLOWED(session.status) = {}
      BY <1>4, TransitionTable DEF CANONICAL_STATUSES
    <3>2. ALLOWED(session.status) = Contract!ALLOWED(session.status)
      BY DEF ALLOWED, Contract!ALLOWED, CANONICAL_STATUSES, Contract!CANONICAL_STATUSES,
             TERMINAL_STATUSES, Contract!TERMINAL_STATUSES, OPEN_STATUSES,
             Contract!OPEN_STATUSES
    <3> QED BY <2>2, <3>1, <3>2 DEF Contract!Advance
  <2> QED BY <1>2, <1>4, <2>1, <2>2
          DEF Contract!CNext, Contract!Create, Contract!Reopen, Contract!Note, RowKept,
              Contract!TERMINAL_STATUSES, TERMINAL_STATUSES
<1> QED BY <1>1, <1>3, <1>4

\* So an effect lasts.
LEMMA EffectLasts ==
  ASSUME IInv, Next, NEW e \in Events, events[e].issued, TookEffect(e)
  PROVE  TookEffect(e)'
<1>1. events'[e] = events[e] /\ events[e].at \in Nat
  BY EventsFixed DEF IInv, TypeOK, Webhook
<1>2. events[e].at < session.lastAt => events[e].at < session'.lastAt
  BY <1>1, RowLasts
<1> QED BY <1>1, <1>2, RowLasts DEF TookEffect

\* Saving the row makes the decision of the webhook take effect.
LEMMA SaveDecides ==
  ASSUME IInv, NEW h \in Handlers, Carried(h), SaveSession(h), CarriesDecision(ev[h])
  PROVE  TookEffect(ev[h])'
<1>1. /\ pc[h] = "saveSession" /\ UNCHANGED <<events, ev>>
  BY DEF SaveSession, Save, world
<1>2. Incoming(h) = events[ev[h]].status /\ Incoming(h) \in TERMINAL_STATUSES
  BY <1>1 DEF Carried, CarriesDecision
<1>3. /\ session'.status = ReconciledStatus(session.status, session.lastAt, Incoming(h),
                                            events[ev[h]].at)
      /\ session'.lastAt = ReconciledTime(session.status, session.lastAt, Incoming(h),
                                          events[ev[h]].at)
      /\ events[ev[h]].at \in Nat
  BY SaveSessionRow
<1>4. session.status \in CANONICAL_STATUSES /\ session.lastAt \in Nat
  BY DEF IInv, TypeOK, SessionRow
<1>5. \A in \in TERMINAL_STATUSES, at \in Nat :
         \/ ReconciledStatus(session.status, session.lastAt, in, at) \in TERMINAL_STATUSES
         \/ ReconciledTime(session.status, session.lastAt, in, at) > at
  BY <1>4, ReconcileDecides
<1> QED BY <1>1, <1>2, <1>3, <1>5 DEF TookEffect

\* A handler that does nothing goes on carrying what it carries.
LEMMA CarriedKept ==
  ASSUME IInv, Next, NEW g \in Handlers, Carried(g),
         pc'[g] = pc[g], ev'[g] = ev[g], res'[g] = res[g]
  PROVE  Carried(g)'
<1>1. {"retrieve", "storeIdentity", "saveResult", "saveSession"} \cup AfterSave \subseteq WebhookSteps
  BY DEF AfterSave, WebhookSteps, TryBlock
<1>2. CASE pc[g] \in WebhookSteps
  <2>1. ev[g] \in Events /\ events[ev[g]].issued
    BY <1>2 DEF IInv, Claims, ClaimHeld
  <2>2. events'[ev[g]] = events[ev[g]]  BY <2>1, EventsFixed DEF IInv
  <2>3. TookEffect(ev[g]) => TookEffect(ev[g])'  BY <2>1, EffectLasts
  <2> QED BY <2>2, <2>3 DEF Carried, Incoming, CarriesDecision, TookEffect
<1>3. CASE pc[g] \notin WebhookSteps
  BY <1>1, <1>3 DEF Carried
<1> QED BY <1>2, <1>3

\* One handler's step: only it moves, and only completing settles a receipt.
Moves(h) ==
  /\ \A g \in Handlers : g # h => pc'[g] = pc[g] /\ ev'[g] = ev[g] /\ res'[g] = res[g]
  /\ \A e \in Events :
       /\ receipts'[e] = "COMPLETED" =>
            receipts[e] = "COMPLETED" \/ (pc[h] = "complete" /\ ev[h] = e)
       /\ receipts'[e] # "NONE" => events[e].issued

LEMMA DecisionStep ==
  ASSUME DInv, Next, NEW h \in Handlers, Moves(h), Carried(h)'
  PROVE  DInv'
<1>1. IInv /\ IInv'  BY StepIInv DEF DInv
<1>2. ASSUME NEW g \in Handlers  PROVE Carried(g)'
  BY <1>1, CarriedKept DEF Moves, DInv
<1>3. ASSUME NEW e \in Events, receipts'[e] # "NONE"
      PROVE  events[e].issued /\ events'[e] = events[e]
  BY <1>1, <1>3, EventsFixed DEF Moves, IInv
<1>4. ASSUME NEW e \in Events, receipts'[e] = "COMPLETED", CarriesDecision(e)'
      PROVE  TookEffect(e)'
  <2>1. events[e].issued /\ CarriesDecision(e)
    BY <1>3, <1>4 DEF CarriesDecision
  <2>2. TookEffect(e)
    BY <1>4, <2>1 DEF Moves, DInv, NoDecisionLost, Settled, Carried, AfterSave
  <2> QED BY <1>1, <2>1, <2>2, EffectLasts
<1>5. NoDecisionLost'  BY <1>4 DEF NoDecisionLost, Settled
<1> QED BY <1>1, <1>2, <1>3, <1>5 DEF DInv

\* A handler that is back to idle, or gives up, carries nothing.
LEMMA CarriesNothing ==
  ASSUME TypeOK, NEW h \in Handlers, Return(h) \/ pc'[h] = "fail"
  PROVE  Carried(h)'
<1>1. Return(h) => pc'[h] = "idle" /\ ~res'[h].present
  BY DEF Return, Goto, TypeOK, NoResult
<1> QED BY <1>1 DEF Carried, AfterSave

\* Every action keeps decisions on their way or in effect.
LEMMA StepDInv == DInv /\ [Next]_vars => DInv'
<1> SUFFICES ASSUME DInv, [Next]_vars PROVE DInv'  OBVIOUS
<1> USE DEF world, locals
<1>0. /\ TypeOK /\ IInv
      /\ \A e \in Events : receipts[e] # "NONE" => events[e].issued
      /\ \A h \in Handlers : pc[h] \in WebhookSteps => ev[h] \in Events /\ events[ev[h]].issued
  BY DEF DInv, IInv, Claims, ClaimHeld
<1>1. CASE UNCHANGED vars
  BY <1>1 DEF vars, rows, DInv, IInv, TypeOK, Claims, ClaimHeld, OneClaimant, Copies,
              CopyAgrees, CreatedOnce, Carried, Incoming, CarriesDecision, TookEffect,
              NoDecisionLost, Settled
<1>2. ASSUME Next, NEW h \in Handlers, Return(h), UNCHANGED receipts  PROVE DInv'
  <2>1. Moves(h)  BY <1>0, <1>2 DEF Return, Goto, Moves, TypeOK
  <2> QED BY <1>0, <1>2, <2>1, CarriesNothing, DecisionStep
<1>3. ASSUME Next, NEW h \in Handlers, NEW from, NEW type, NEW status, NEW to,
             Emit(h, from, type, status, to),
             to \notin {"idle", "readSession", "retrieve", "storeIdentity", "saveResult",
                        "saveSession"},
             to \in AfterSave => from \in AfterSave
      PROVE  DInv'
  <2>1. CASE Return(h)  BY <1>2, <1>3, <2>1 DEF Emit
  <2>2. CASE Goto(h, to) /\ UNCHANGED locals
    <3>1. /\ Moves(h) /\ pc[h] = from /\ pc'[h] = to /\ ev'[h] = ev[h]
      BY <1>0, <1>3, <2>2 DEF Emit, Goto, Moves, TypeOK
    <3>2. pc[h] \in AfterSave /\ CarriesDecision(ev[h]) => TookEffect(ev[h])
      BY DEF DInv, Carried
    <3>3. AfterSave \subseteq WebhookSteps  BY DEF AfterSave, WebhookSteps, TryBlock
    <3>4. pc[h] \in AfterSave => events'[ev[h]] = events[ev[h]]
      BY <1>0, <1>3, <3>3, EventsFixed
    <3>5. pc[h] \in AfterSave /\ TookEffect(ev[h]) => TookEffect(ev[h])'
      BY <1>0, <1>3, <3>1, <3>3, EffectLasts
    <3>6. Carried(h)'
      BY <1>3, <3>1, <3>2, <3>4, <3>5 DEF Carried, CarriesDecision
    <3> QED BY <1>3, <3>1, <3>6, DecisionStep
  <2> QED BY <1>3, <2>1, <2>2 DEF Emit
<1>4. ASSUME Next, NEW h \in Handlers, Request(h) \/ OtherStep(h)  PROVE DInv'
  <2>1. CASE EmitCreated(h) \/ OpenCost(h) \/ ReturnEmit(h) \/ VisitConflict(h)
    BY <1>2, <1>4, <2>1
       DEF EmitCreated, OpenCost, ReturnEmit, VisitConflict, Emit
  <2>2. CASE OpenEmit(h)
    <3>1. "openCost" \notin AfterSave  BY DEF AfterSave
    <3> QED BY <1>3, <1>4, <2>2, <3>1 DEF OpenEmit
  <2>3. CASE StartVerification(h) \/ Open(h) \/ CustomerReturn(h)
             \/ CreateSession(h) \/ OpenSave(h) \/ ReturnSave(h)
    <3>1. UNCHANGED <<receipts, ev, res>>
      BY <2>3 DEF StartVerification, Open, CustomerReturn, Visit, CreateSession,
                  OpenSave, ReturnSave, Save
    <3>2. /\ \A g \in Handlers : g # h => pc'[g] = pc[g]
          /\ pc'[h] \in OtherSteps \/ (pc'[h] = "idle" /\ pc[h] = "idle")
      BY <1>0, <2>3 DEF StartVerification, Open, CustomerReturn, Visit, CreateSession,
                  OpenSave, ReturnSave, Goto, TypeOK, OtherSteps
    <3>3. Moves(h)  BY <1>0, <3>1, <3>2 DEF Moves
    <3>4. Carried(h)'
      BY <3>1, <3>2 DEF DInv, Carried, OtherSteps, AfterSave
    <3> QED BY <1>4, <3>3, <3>4, DecisionStep
  <2> QED BY <1>4, <2>1, <2>2, <2>3 DEF Request, OtherStep
<1>5. ASSUME Next, NEW h \in Handlers, WebhookStep(h)  PROVE DInv'
  <2>1. CASE EmitObserved(h) \/ EmitRetry(h) \/ EmitAbandoned(h) \/ EmitTerminal(h)
             \/ EmitCompleted(h)
    <3>1. {"emitObserved", "emitRetry", "emitAbandoned", "emitTerminal", "emitCompleted"}
             \subseteq AfterSave
      BY DEF AfterSave
    <3>2. AfterObserved(h) \in {"emitRetry", "complete", "emitAbandoned", "emitTerminal"}
      BY DEF AfterObserved
    <3> QED BY <1>3, <1>5, <2>1, <3>1, <3>2
            DEF EmitObserved, EmitRetry, EmitAbandoned, EmitTerminal, EmitCompleted
  <2>2. CASE Complete(h)
    <3>1. Moves(h)
      BY <1>0, <2>2 DEF Complete, Return, Goto, Moves, TypeOK, WebhookSteps, TryBlock
    <3> QED BY <1>0, <1>5, <2>2, <3>1, CarriesNothing, DecisionStep DEF Complete
  <2>3. CASE Fail(h)
    <3>1. Moves(h)
      BY <1>0, <2>3 DEF Fail, Return, Goto, Moves, TypeOK, WebhookSteps
    <3> QED BY <1>0, <1>5, <2>3, <3>1, CarriesNothing, DecisionStep DEF Fail
  <2>4. CASE ReadSession(h)
    <3>1. /\ Moves(h) /\ pc[h] = "readSession" /\ UNCHANGED <<ev, events>>
      BY <1>0, <2>4 DEF ReadSession, HoldResult, Goto, Moves, TypeOK
    <3>2. \/ pc'[h] = "fail"
          \/ pc'[h] = "retrieve" /\ events[ev[h]].kind = "reconcile"
          \/ pc'[h] = "saveSession" /\ res'[h] = res[h]
          \/ /\ pc'[h] \in {"storeIdentity", "saveResult"}
             /\ res'[h].present /\ res'[h].status = events[ev[h]].status
      BY <1>0, <2>4 DEF ReadSession, HoldResult, Goto, TypeOK
    <3>3. ~res[h].present  BY <3>1 DEF DInv, Carried
    <3>4. Carried(h)'
      BY <3>1, <3>2, <3>3 DEF Carried, Incoming, AfterSave
    <3> QED BY <1>5, <3>1, <3>4, DecisionStep
  <2>5. CASE Retrieve(h)
    <3>1. /\ Moves(h) /\ pc'[h] \in {"storeIdentity", "saveResult"}
          /\ UNCHANGED <<ev, events>>
      BY <1>0, <2>5 DEF Retrieve, HoldResult, Goto, Moves, TypeOK
    <3>2. events[ev[h]].kind = "reconcile"
      BY <2>5 DEF DInv, Carried, Retrieve
    <3> QED BY <1>5, <3>1, <3>2, DecisionStep DEF Carried, AfterSave
  <2>6. CASE StoreIdentity(h) \/ SaveResult(h)
    <3>1. /\ Moves(h) /\ UNCHANGED <<ev, events, res>>
          /\ pc[h] \in {"storeIdentity", "saveResult"}
          /\ pc'[h] \in {"saveResult", "saveSession"}
      BY <1>0, <2>6 DEF StoreIdentity, SaveResult, Goto, Moves, TypeOK
    <3>2. Carried(h)'
      BY <3>1 DEF DInv, Carried, Incoming, AfterSave
    <3> QED BY <1>5, <3>1, <3>2, DecisionStep
  <2>7. CASE SaveSession(h)
    <3>1. /\ Moves(h) /\ UNCHANGED <<ev, events>> /\ pc'[h] \in {"listEvents", "complete"}
      BY <1>0, <2>7 DEF SaveSession, Save, Goto, Moves, TypeOK
    <3>2. CarriesDecision(ev[h]) => TookEffect(ev[h])'
      BY <1>0, <2>7, SaveDecides DEF DInv
    <3>3. Carried(h)'
      BY <3>1, <3>2 DEF Carried, CarriesDecision
    <3> QED BY <1>5, <3>1, <3>3, DecisionStep
  <2>8. CASE ListEvents(h)
    <3>1. /\ Moves(h) /\ UNCHANGED <<ev, events, session>> /\ pc[h] = "listEvents"
          /\ pc'[h] = "emitObserved"
      BY <1>0, <2>8 DEF ListEvents, Goto, Moves, TypeOK, rows
    <3>2. Carried(h)'
      BY <3>1 DEF DInv, Carried, CarriesDecision, TookEffect, AfterSave
    <3> QED BY <1>5, <3>1, <3>2, DecisionStep
  <2>9. CASE SaveConflict(h)
    <3>1. Moves(h) /\ pc'[h] = "fail"
      BY <1>0, <2>9 DEF SaveConflict, Goto, Moves, TypeOK
    <3> QED BY <1>0, <1>5, <3>1, CarriesNothing, DecisionStep
  <2> QED BY <1>5, <2>1, <2>2, <2>3, <2>4, <2>5, <2>6, <2>7, <2>8, <2>9 DEF WebhookStep
<1>6. ASSUME Next, NEW h \in Handlers, Fault(h)  PROVE DInv'
  <2>1. CASE CallFails(h)
    <3>1. Moves(h) /\ pc'[h] = "fail"
      BY <1>0, <2>1 DEF CallFails, Goto, Moves, TypeOK, WebhookSteps, TryBlock
    <3> QED BY <1>0, <1>6, <3>1, CarriesNothing, DecisionStep
  <2>2. CASE RequestFails(h) \/ Crash(h)
    BY <1>2, <1>6, <2>2 DEF RequestFails, Crash
  <2> QED BY <1>6, <2>1, <2>2 DEF Fault
<1>7. ASSUME Next, NEW h \in Handlers, NEW e \in Events, Claim(h, e)  PROVE DInv'
  <2>1. /\ Moves(h) /\ pc[h] = "idle" /\ pc'[h] = "readSession" /\ res'[h] = res[h]
    BY <1>0, <1>7 DEF Claim, Goto, Moves, TypeOK
  <2>2. Carried(h)'  BY <2>1 DEF DInv, Carried, AfterSave
  <2> QED BY <1>7, <2>1, <2>2, DecisionStep
<1>8. ASSUME Next, NEW e \in Events, ProviderIssues(e) \/ Duplicate(e)  PROVE DInv'
  <2>1. UNCHANGED <<receipts, session, pc, ev, res>>
    BY <1>8 DEF ProviderIssues, Duplicate, rows
  <2>2. \A f \in Events : events[f].issued => events'[f] = events[f]
    BY <1>0, <1>8, EventsFixed
  <2>3. ASSUME NEW h \in Handlers  PROVE Carried(h)'
    BY <1>0, <1>8, <2>1, CarriedKept DEF DInv
  <2>4. IInv'  BY <1>0, StepIInv
  <2>5. \A f \in Events : receipts'[f] # "NONE" => events'[f].issued
    BY <1>0, <2>1, <2>2
  <2>6. NoDecisionLost'
    BY <1>0, <2>1, <2>2 DEF DInv, NoDecisionLost, Settled, CarriesDecision, TookEffect
  <2> QED BY <2>3, <2>4, <2>5, <2>6 DEF DInv
<1> QED BY <1>1, <1>4, <1>5, <1>6, <1>7, <1>8 DEF Next

LEMMA InitDInv == Init => DInv
<1> SUFFICES ASSUME Init PROVE DInv  OBVIOUS
<1>1. IInv  BY InitIInv
<1>2. \A h \in Handlers : Carried(h)
  BY DEF Init, Carried, NoResult, AfterSave
<1> QED BY <1>1, <1>2 DEF Init, DInv, NoDecisionLost, Settled

\* The inductive invariant of the decisions' way from webhook to row.
THEOREM DecisionInvariant == Spec => []DInv
BY InitDInv, StepDInv, PTL DEF Spec

\* A terminal decision whose webhook was settled is in the row, or a later event was
\* there first: no failure, crash, conflict or redelivery loses it.
THEOREM DecisionsKept == Spec => []NoDecisionLost
<1>1. DInv => NoDecisionLost  BY DEF DInv
<1> QED BY <1>1, DecisionInvariant, PTL
=============================================================================
