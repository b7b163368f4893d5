---------------------------- MODULE IdvEventsProofs ----------------------------
(***************************************************************************)
(* Proofs about what IdvService reports, for any number of handlers and    *)
(* webhooks: who decides a session, that a settled decision is in the      *)
(* event log, that outcome events agree with the row, and that nothing     *)
(* refers to what was not stored.                                          *)
(***************************************************************************)
EXTENDS IdvServiceProofs

\* A decision is one that an issued webhook announced.
Said(status) == status \in TERMINAL_STATUSES =>
  \E e \in Events : events[e].issued /\ events[e].status = status

Reportable(e) == CarriesDecision(e) /\ events[e].kind = "result"

Reported(e) == Logged("IDV_TERMINAL") \/ session.lastAt > events[e].at

\* The result a handler holds was announced, and is stored before the session is saved.
HoldsResult(h) ==
  /\ res[h].present => Said(res[h].status)
  /\ pc[h] \in {"storeIdentity", "saveResult"} => res[h].present
  /\ pc[h] = "saveSession" => /\ events[ev[h]].kind = "result" => res[h].present
                              /\ res[h].present => result.present
  /\ pc[h] \in AfterSave \ {"complete"} => result.present

\* A handler that has saved the session reports the status the session has: what it
\* stored is final if it is a decision.
HoldsOutcome(h) ==
  /\ pc[h] \in AfterSave /\ snap[h].status \in TERMINAL_STATUSES =>
       snap[h].status = session.status
  /\ pc[h] = "emitRetry" => snap[h].status \notin TERMINAL_STATUSES
  /\ pc[h] \in {"emitAbandoned", "emitTerminal", "emitCompleted"} =>
       snap[h].status \in TERMINAL_STATUSES

\* On its way to the receipt a decision is in the handler's row, then in the log.
Reports(h) ==
  /\ already[h] \/ pc[h] = "emitCompleted" => Logged("IDV_TERMINAL")
  /\ pc[h] \in AfterSave /\ Reportable(ev[h]) =>
       snap[h].status \in TERMINAL_STATUSES \/ session.lastAt > events[ev[h]].at
  /\ pc[h] = "complete" /\ Reportable(ev[h]) => Reported(ev[h])

Referred(h) == "reference" \in snap[h].facts => identity

Reporting(h) == HoldsResult(h) /\ HoldsOutcome(h) /\ Reports(h) /\ Referred(h)

EInv ==
  /\ DInv
  /\ \A h \in Handlers : Reporting(h)
  /\ Said(provider.status)
  /\ ProviderDecides
  /\ DecisionReported
  /\ OutcomeEventsAgree
  /\ NothingDangling

-----------------------------------------------------------------------------
(* Who writes what                                                          *)

\* What the invariants of IdvServiceProofs say of the handlers.
LEMMA Basics ==
  ASSUME EInv
  PROVE  /\ IInv /\ TypeOK
         /\ \A h \in Handlers : pc[h] \in WebhookSteps =>
              ev[h] \in Events /\ events[ev[h]].issued
BY DEF EInv, DInv, IInv, Claims, ClaimHeld

\* The log grows by one entry; an outcome entry is appended by a handler on its branch
\* for decided sessions, with the status it holds.
LEMMA WritersOfTheLog ==
  ASSUME Next
  PROVE  \/ UNCHANGED log
         \/ /\ UNCHANGED <<session, result, identity>>
            /\ \E h \in Handlers : \E entry :
                 /\ log' = log \cup {entry}
                 /\ entry.type \in {"IDV_ABANDONED", "IDV_TERMINAL", "IDV_COMPLETED"} =>
                      /\ pc[h] \in {"emitAbandoned", "emitTerminal", "emitCompleted"}
                      /\ entry.status = snap[h].status
<1> USE DEF world, rows
<1>1. ASSUME NEW h \in Handlers, NEW from, NEW type, NEW status, NEW to,
             Emit(h, from, type, status, to),
             type \in {"IDV_ABANDONED", "IDV_TERMINAL", "IDV_COMPLETED"} =>
               /\ pc[h] \in {"emitAbandoned", "emitTerminal", "emitCompleted"}
               /\ status = snap[h].status
      PROVE  /\ UNCHANGED <<session, result, identity>>
             /\ \E g \in Handlers : \E entry :
                  /\ log' = log \cup {entry}
                  /\ entry.type \in {"IDV_ABANDONED", "IDV_TERMINAL", "IDV_COMPLETED"} =>
                       /\ pc[g] \in {"emitAbandoned", "emitTerminal", "emitCompleted"}
                       /\ entry.status = snap[g].status
  <2> DEFINE entry == [type |-> type, status |-> status, source |-> ev[h]]
  <2>1. log' = log \cup {entry} /\ UNCHANGED <<session, result, identity>>
    BY <1>1 DEF Emit
  <2>2. entry.type = type /\ entry.status = status  OBVIOUS
  <2> QED  BY <1>1, <2>1, <2>2
<1>2. ASSUME NEW h \in Handlers, Request(h) \/ OtherStep(h),
             ~(EmitCreated(h) \/ OpenEmit(h) \/ OpenCost(h) \/ ReturnEmit(h))
      PROVE  UNCHANGED log
  BY <1>2 DEF Request, StartVerification, Open, CustomerReturn, Visit, OtherStep,
              CreateSession, OpenSave, ReturnSave, VisitConflict, Save
<1>3. ASSUME NEW h \in Handlers, WebhookStep(h),
             ~(EmitObserved(h) \/ EmitRetry(h) \/ EmitAbandoned(h) \/ EmitTerminal(h)
               \/ EmitCompleted(h))
      PROVE  UNCHANGED log
  BY <1>3 DEF WebhookStep, ReadSession, Retrieve, StoreIdentity, SaveResult, SaveSession,
              Save, SaveConflict, ListEvents, Complete, Fail
<1>4. ASSUME NEW h \in Handlers, Fault(h)  PROVE UNCHANGED log
  BY <1>4 DEF Fault, CallFails, RequestFails, Crash, SpendFault
<1>5. ASSUME NEW h \in Handlers, NEW e \in Events, Claim(h, e)  PROVE UNCHANGED log
  BY <1>5 DEF Claim
<1>6. ASSUME NEW e \in Events, ProviderIssues(e) \/ Duplicate(e)  PROVE UNCHANGED log
  BY <1>6 DEF ProviderIssues, Duplicate
<1>7. ASSUME NEW h \in Handlers,
             EmitCreated(h) \/ OpenEmit(h) \/ OpenCost(h) \/ ReturnEmit(h)
             \/ EmitObserved(h) \/ EmitRetry(h)
      PROVE  \E from, type, status, to :
               /\ Emit(h, from, type, status, to)
               /\ type \notin {"IDV_ABANDONED", "IDV_TERMINAL", "IDV_COMPLETED"}
  BY <1>7 DEF EmitCreated, OpenEmit, OpenCost, ReturnEmit, EmitObserved, EmitRetry
<1>8. ASSUME NEW h \in Handlers, EmitAbandoned(h) \/ EmitTerminal(h) \/ EmitCompleted(h)
      PROVE  \E from, type, to :
               /\ Emit(h, from, type, snap[h].status, to)
               /\ pc[h] \in {"emitAbandoned", "emitTerminal", "emitCompleted"}
  BY <1>8 DEF EmitAbandoned, EmitTerminal, EmitCompleted, Emit
<1> QED  BY <1>1, <1>2, <1>3, <1>4, <1>5, <1>6, <1>7, <1>8 DEF Next

\* Results are overwritten by results, and the identity record stays.
LEMMA WritersOfTheResult ==
  ASSUME Next
  PROVE  /\ \/ UNCHANGED result
            \/ \E h \in Handlers : pc[h] = "saveResult" /\ result' = res[h]
         /\ identity => identity'
<1> USE DEF rows, Emit
<1>1. ASSUME NEW h \in Handlers, Request(h) \/ OtherStep(h)
      PROVE  UNCHANGED <<result, identity>>
  BY <1>1 DEF Request, StartVerification, Open, CustomerReturn, Visit, OtherStep,
              CreateSession, EmitCreated, OpenSave, OpenEmit, OpenCost, ReturnSave,
              ReturnEmit, VisitConflict, Save
<1>2. ASSUME NEW h \in Handlers, WebhookStep(h), ~SaveResult(h), ~StoreIdentity(h)
      PROVE  UNCHANGED <<result, identity>>
  BY <1>2 DEF WebhookStep, ReadSession, Retrieve, SaveSession, Save, SaveConflict,
              ListEvents, EmitObserved, EmitRetry, EmitAbandoned, EmitTerminal,
              EmitCompleted, Complete, Fail
<1>3. ASSUME NEW h \in Handlers, Fault(h)  PROVE UNCHANGED <<result, identity>>
  BY <1>3 DEF Fault, CallFails, RequestFails, Crash, SpendFault
<1>4. ASSUME NEW h \in Handlers, NEW e \in Events, Claim(h, e)
      PROVE  UNCHANGED <<result, identity>>
  BY <1>4 DEF Claim
<1>5. ASSUME NEW e \in Events, ProviderIssues(e) \/ Duplicate(e)
      PROVE  UNCHANGED <<result, identity>>
  BY <1>5 DEF ProviderIssues, Duplicate
<1>6. ASSUME NEW h \in Handlers, SaveResult(h) \/ StoreIdentity(h)
      PROVE  /\ UNCHANGED result \/ (pc[h] = "saveResult" /\ result' = res[h])
             /\ identity => identity'
  BY <1>6 DEF SaveResult, StoreIdentity
<1> QED  BY <1>1, <1>2, <1>3, <1>4, <1>5, <1>6 DEF Next

\* A receipt is settled by the handler that has come to webhooks.complete.
LEMMA WritersOfReceipts ==
  ASSUME TypeOK, Next, NEW e \in Events, receipts'[e] = "COMPLETED"
  PROVE  \/ receipts[e] = "COMPLETED"
         \/ \E h \in Handlers : pc[h] = "complete" /\ ev[h] = e
<1> USE DEF world, Emit
<1>1. ASSUME NEW h \in Handlers, Request(h) \/ OtherStep(h)  PROVE UNCHANGED receipts
  BY <1>1 DEF Request, StartVerification, Open, CustomerReturn, Visit, OtherStep,
              CreateSession, EmitCreated, OpenSave, OpenEmit, OpenCost, ReturnSave,
              ReturnEmit, VisitConflict, Save
<1>2. ASSUME NEW h \in Handlers, WebhookStep(h), ~Complete(h), ~Fail(h)
      PROVE  UNCHANGED receipts
  BY <1>2 DEF WebhookStep, ReadSession, Retrieve, StoreIdentity, SaveResult, SaveSession,
              Save, SaveConflict, ListEvents, EmitObserved, EmitRetry, EmitAbandoned,
              EmitTerminal, EmitCompleted
<1>3. ASSUME NEW h \in Handlers, Fault(h)
      PROVE  \/ UNCHANGED receipts
             \/ pc[h] = "complete" /\ receipts' = [receipts EXCEPT ![ev[h]] = "COMPLETED"]
  BY <1>3 DEF Fault, CallFails, RequestFails, Crash
<1>4. ASSUME NEW h \in Handlers, NEW f \in Events, Claim(h, f)
      PROVE  receipts' = [receipts EXCEPT ![f] = "PROCESSING"]
  BY <1>4 DEF Claim
<1>5. ASSUME NEW f \in Events, ProviderIssues(f) \/ Duplicate(f)  PROVE UNCHANGED receipts
  BY <1>5 DEF ProviderIssues, Duplicate
<1>6. ASSUME NEW h \in Handlers, Complete(h) \/ Fail(h)
      PROVE  \/ receipts' = [receipts EXCEPT ![ev[h]] = "FAILED"]
             \/ pc[h] = "complete" /\ receipts' = [receipts EXCEPT ![ev[h]] = "COMPLETED"]
  BY <1>6 DEF Complete, Fail
<1>7. receipts \in [Events -> {"NONE", "PROCESSING", "COMPLETED", "FAILED"}]  BY DEF TypeOK
<1>8. CASE UNCHANGED receipts  BY <1>8
<1>9. ASSUME NEW f, NEW x \in {"PROCESSING", "FAILED"}, receipts' = [receipts EXCEPT ![f] = x]
      PROVE  receipts[e] = "COMPLETED"
  BY <1>7, <1>9
<1>10. ASSUME NEW h \in Handlers, pc[h] = "complete",
              receipts' = [receipts EXCEPT ![ev[h]] = "COMPLETED"]
       PROVE  receipts[e] = "COMPLETED" \/ ev[h] = e
  BY <1>7, <1>10
<1> QED  BY <1>1, <1>2, <1>3, <1>4, <1>5, <1>6, <1>8, <1>9, <1>10 DEF Next

\* A decision the row gets is the one some handler holds; a reference it gets, too.
LEMMA RowWritten ==
  ASSUME EInv, Next
  PROVE  \/ UNCHANGED session
         \/ \E h \in Handlers :
              /\ \/ session'.status = session.status
                 \/ session'.status \notin TERMINAL_STATUSES
                 \/ pc[h] = "saveSession" /\ session'.status = Incoming(h)
              /\ session'.facts \subseteq snap[h].facts \cup {"completed", "returned"}
<1>1. IInv /\ TypeOK  BY Basics
<1>2. ASSUME NEW h \in Handlers, CreateSession(h)
      PROVE  session'.status \notin TERMINAL_STATUSES /\ session'.facts = snap[h].facts
  BY <1>1, <1>2 DEF CreateSession, IInv, CreatedOnce, OPEN_STATUSES, TERMINAL_STATUSES
<1>3. ASSUME NEW h \in Handlers, OpenSave(h)
      PROVE  session'.status \notin TERMINAL_STATUSES /\ session'.facts = snap[h].facts
  <2>1. snap[h] \in SessionRow  BY <1>1 DEF TypeOK
  <2>2. [snap[h] EXCEPT !.status = "STARTED"] \in SessionRow
    BY <2>1 DEF SessionRow, CANONICAL_STATUSES, OPEN_STATUSES
  <2>3. session'.status = "STARTED" /\ session'.facts = snap[h].facts
    BY <1>1, <1>3, <2>1, <2>2, SaveType DEF OpenSave, SessionRow
  <2> QED  BY <2>3 DEF TERMINAL_STATUSES
<1>4. ASSUME NEW h \in Handlers, ReturnSave(h)
      PROVE  /\ session'.status = session.status
             /\ session'.facts = snap[h].facts \cup {"returned"}
  <2>1. snap[h] \in SessionRow  BY <1>1 DEF TypeOK
  <2>2. [snap[h] EXCEPT !.facts = snap[h].facts \cup {"returned"}] \in SessionRow
    BY <2>1 DEF SessionRow, FactNames
  <2>3. /\ session'.status = snap[h].status
        /\ session'.facts = snap[h].facts \cup {"returned"}
    BY <1>1, <1>4, <2>1, <2>2, SaveType DEF ReturnSave, SessionRow
  <2>4. snap[h].status = session.status
    BY <1>1, <1>4, SavedFromRow DEF ReturnSave, Save, HoldsCopy
  <2> QED  BY <2>3, <2>4
<1>5. ASSUME NEW h \in Handlers, SaveSession(h)
      PROVE  /\ pc[h] = "saveSession"
             /\ session'.status = session.status \/ session'.status = Incoming(h)
             /\ session'.facts \subseteq snap[h].facts \cup {"completed", "returned"}
  <2>1. pc[h] = "saveSession" /\ Save(h, NextRow(h))  BY <1>5 DEF SaveSession
  <2>2. /\ session'.status = ReconciledStatus(session.status, session.lastAt, Incoming(h),
                                              events[ev[h]].at)
        /\ ev[h] \in Events
    BY <1>1, <1>5, SaveSessionRow
  <2>3. session'.status = session.status \/ session'.status = Incoming(h)
    BY <2>2 DEF ReconciledStatus
  <2>4. session'.facts = NextRow(h).facts
    BY <1>1, <2>1, <2>2, NextRowType, SaveType
  <2>5. NextRow(h).facts \subseteq snap[h].facts \cup {"completed"}
    <3>1. snap[h] \in SessionRow  BY <1>1 DEF TypeOK
    <3> QED  BY <3>1 DEF NextRow, SessionRow
  <2> QED  BY <2>1, <2>3, <2>4, <2>5
<1> QED  BY <1>2, <1>3, <1>4, <1>5, WritersOfTheRow

-----------------------------------------------------------------------------
(* What lasts                                                               *)

\* What was announced, stored, logged or decided stays so.
LEMMA Lasting ==
  ASSUME EInv, Next
  PROVE  /\ \A e \in Events : events[e].issued => events'[e] = events[e]
         /\ log \subseteq log' /\ identity => identity'
         /\ Logged("IDV_TERMINAL") => Logged("IDV_TERMINAL")'
         /\ result.present => result'.present
         /\ session.status \in TERMINAL_STATUSES => session'.status = session.status
         /\ \A at \in Nat : session.lastAt > at => session'.lastAt > at
<1>1. IInv /\ TypeOK  BY Basics
<1>2. \A e \in Events : events[e].issued => events'[e] = events[e]  BY <1>1, EventsFixed
<1>3. log \subseteq log'  BY WritersOfTheLog
<1>4. Logged("IDV_TERMINAL") => Logged("IDV_TERMINAL")'  BY <1>3 DEF Logged
<1>5. result.present => result'.present
  BY WritersOfTheResult DEF EInv, Reporting, HoldsResult
<1>6. \A at \in Nat : session.lastAt > at => session'.lastAt > at  BY <1>1, RowLasts
<1>7. session.status \in TERMINAL_STATUSES => session'.status = session.status
  BY <1>1, RowLasts
<1>8. identity => identity'  BY WritersOfTheResult
<1> QED  BY <1>2, <1>3, <1>4, <1>5, <1>6, <1>7, <1>8

\* What is announced stays announced.
LEMMA SaidLasts ==
  ASSUME EInv, Next
  PROVE  \A status : Said(status) => (status \in TERMINAL_STATUSES =>
           \E e \in Events : events'[e].issued /\ events'[e].status = status)
BY Lasting DEF Said

\* A handler that does nothing goes on reporting what it reports.
LEMMA ReportingKept ==
  ASSUME EInv, Next, NEW g \in Handlers, pc'[g] = pc[g], ev'[g] = ev[g],
         snap'[g] = snap[g], res'[g] = res[g], already'[g] = already[g]
  PROVE  Reporting(g)'
<1>1. /\ HoldsResult(g) /\ HoldsOutcome(g) /\ Reports(g) /\ Referred(g)
      /\ \A e \in Events : events[e].at \in Nat
  BY Basics DEF EInv, Reporting, TypeOK, Webhook
<1>2. pc[g] \in {"saveSession"} \cup AfterSave =>
        ev[g] \in Events /\ events'[ev[g]] = events[ev[g]]
  BY Basics, Lasting DEF AfterSave, WebhookSteps, TryBlock
<1>3. HoldsResult(g)'
  <2>1. res[g].present => Said(res[g].status)'
    BY <1>1, SaidLasts DEF HoldsResult, Said
  <2> QED  BY <1>1, <1>2, <2>1, Lasting DEF HoldsResult
<1>4. HoldsOutcome(g)'  BY <1>1, Lasting DEF HoldsOutcome
<1>5. Reports(g)'
  <2>1. Logged("IDV_TERMINAL") => Logged("IDV_TERMINAL")'  BY Lasting
  <2>2. pc[g] \in AfterSave /\ session.lastAt > events[ev[g]].at =>
          session'.lastAt > events'[ev[g]].at
    BY <1>1, <1>2, Lasting
  <2>3. pc[g] \in AfterSave => (Reportable(ev[g])' <=> Reportable(ev[g]))
    BY <1>2 DEF Reportable, CarriesDecision
  <2>4. "complete" \in AfterSave  BY DEF AfterSave
  <2> QED  BY <1>1, <1>2, <2>1, <2>2, <2>3, <2>4 DEF Reports, Reported
<1>6. Referred(g)'
  <2>1. identity => identity'  BY WritersOfTheResult
  <2> QED  BY <1>1, <2>1 DEF Referred
<1> QED  BY <1>3, <1>4, <1>5, <1>6 DEF Reporting

-----------------------------------------------------------------------------
(* The parts of the invariant that are not about one handler                *)

\* Whatever a handler would store as a decision was announced.
LEMMA IncomingSaid ==
  ASSUME EInv, NEW h \in Handlers, pc[h] = "saveSession"
  PROVE  Said(Incoming(h))
<1>1. ev[h] \in Events /\ events[ev[h]].issued
  BY Basics DEF WebhookSteps, TryBlock
<1>2. CASE res[h].present  BY <1>2 DEF Incoming, EInv, Reporting, HoldsResult
<1>3. CASE ~res[h].present  BY <1>1, <1>3 DEF Incoming, Said
<1> QED  BY <1>2, <1>3

LEMMA StepProviderDecides == ASSUME EInv, Next PROVE ProviderDecides'
<1> SUFFICES ASSUME session'.status \in TERMINAL_STATUSES
             PROVE  \E e \in Events : events'[e].issued /\ events'[e].status = session'.status
  BY DEF ProviderDecides
<1>1. ASSUME NEW status \in TERMINAL_STATUSES, Said(status), session'.status = status
      PROVE  \E e \in Events : events'[e].issued /\ events'[e].status = session'.status
  BY <1>1, SaidLasts
<1>2. CASE session'.status = session.status
  BY <1>1, <1>2 DEF EInv, ProviderDecides, Said
<1>3. ASSUME NEW h \in Handlers, pc[h] = "saveSession", session'.status = Incoming(h)
      PROVE  \E e \in Events : events'[e].issued /\ events'[e].status = session'.status
  BY <1>1, <1>3, IncomingSaid
<1> QED  BY <1>2, <1>3, RowWritten

\* The provider's own status was announced as soon as it is a decision.
LEMMA StepProviderSaid == ASSUME EInv, Next PROVE Said(provider.status)'
<1> USE DEF world
<1>1. ASSUME NEW h \in Handlers, StartVerification(h)  PROVE Said(provider.status)'
  <2>1. PICK s \in InitialStatuses : provider' = [provider EXCEPT !.opened = TRUE, !.status = s]
    BY <1>1 DEF StartVerification
  <2>2. provider'.status = s  BY <2>1, Basics DEF TypeOK
  <2> QED  BY <2>2, StatusAssumption DEF Said, OPEN_STATUSES, TERMINAL_STATUSES
<1>2. ASSUME NEW e \in Events, ProviderIssues(e)  PROVE Said(provider.status)'
  <2>1. PICK s \in ProviderStatuses, k \in Kinds, t \in {provider.clock, provider.clock + 1} :
          /\ events' = [events EXCEPT ![e] = [issued |-> TRUE, status |-> s, at |-> t, kind |-> k]]
          /\ provider' = [provider EXCEPT !.status = s, !.clock = t]
    BY <1>2 DEF ProviderIssues
  <2>2. provider'.status = s /\ events'[e].issued /\ events'[e].status = s
    BY <2>1, Basics DEF TypeOK
  <2> QED  BY <2>2 DEF Said
<1>3. CASE UNCHANGED provider  BY <1>3, SaidLasts DEF EInv, Said
<1>4. ASSUME NEW h \in Handlers,
             (Request(h) /\ ~StartVerification(h)) \/ OtherStep(h) \/ WebhookStep(h) \/ Fault(h)
      PROVE  UNCHANGED provider
  <2>1. CASE Request(h) /\ ~StartVerification(h)
    BY <2>1 DEF Request, Open, CustomerReturn, Visit
  <2>2. CASE OtherStep(h)
    BY <2>2 DEF OtherStep, CreateSession, EmitCreated, OpenSave, OpenEmit, OpenCost,
                ReturnSave, ReturnEmit, VisitConflict, Save, Emit
  <2>3. CASE WebhookStep(h)
    BY <2>3 DEF WebhookStep, ReadSession, Retrieve, StoreIdentity, SaveResult, SaveSession,
                Save, SaveConflict, ListEvents, EmitObserved, EmitRetry, EmitAbandoned,
                EmitTerminal, EmitCompleted, Complete, Fail, Emit
  <2>4. CASE Fault(h)  BY <2>4 DEF Fault, CallFails, RequestFails, Crash, SpendFault
  <2> QED  BY <1>4, <2>1, <2>2, <2>3, <2>4
<1>5. ASSUME NEW h \in Handlers, NEW e \in Events, Claim(h, e)  PROVE UNCHANGED provider
  BY <1>5 DEF Claim
<1>6. ASSUME NEW e \in Events, Duplicate(e)  PROVE UNCHANGED provider
  BY <1>6 DEF Duplicate
<1> QED  BY <1>1, <1>2, <1>3, <1>4, <1>5, <1>6 DEF Next

LEMMA StepOutcomeEventsAgree == ASSUME EInv, Next PROVE OutcomeEventsAgree'
<1> SUFFICES ASSUME NEW x \in log',
                    x.type \in {"IDV_ABANDONED", "IDV_TERMINAL", "IDV_COMPLETED"}
             PROVE  x.status = session'.status /\ session'.status \in TERMINAL_STATUSES
  BY DEF OutcomeEventsAgree
<1>1. CASE x \in log
  BY <1>1, Lasting DEF EInv, OutcomeEventsAgree
<1>2. CASE x \notin log
  <2>1. PICK h \in Handlers :
          /\ UNCHANGED session /\ x.status = snap[h].status
          /\ pc[h] \in {"emitAbandoned", "emitTerminal", "emitCompleted"}
    BY <1>2, WritersOfTheLog
  <2>2. snap[h].status \in TERMINAL_STATUSES /\ snap[h].status = session.status
    BY <2>1 DEF EInv, Reporting, HoldsOutcome, AfterSave
  <2> QED  BY <2>1, <2>2
<1> QED  BY <1>1, <1>2

LEMMA StepNothingDangling == ASSUME EInv, Next PROVE NothingDangling'
<1>1. ASSUME "reference" \in session'.facts  PROVE identity'
  <2>1. "reference" \in session.facts \/ \E h \in Handlers : "reference" \in snap[h].facts
    BY <1>1, RowWritten
  <2>2. identity  BY <2>1 DEF EInv, NothingDangling, Reporting, Referred
  <2> QED  BY <2>2, WritersOfTheResult
<1>2. ASSUME Logged("IDV_TERMINAL")'  PROVE result'.present
  <2>1. CASE Logged("IDV_TERMINAL")  BY <2>1, Lasting DEF EInv, NothingDangling
  <2>2. CASE ~Logged("IDV_TERMINAL")
    <3>1. PICK x \in log' : x.type = "IDV_TERMINAL" /\ x \notin log
      BY <1>2, <2>2 DEF Logged
    <3>2. PICK h \in Handlers :
            pc[h] \in {"emitAbandoned", "emitTerminal", "emitCompleted"} /\ UNCHANGED result
      BY <3>1, WritersOfTheLog
    <3> QED  BY <3>2 DEF EInv, Reporting, HoldsResult, AfterSave
  <2> QED  BY <2>1, <2>2
<1> QED  BY <1>1, <1>2 DEF NothingDangling

LEMMA StepDecisionReported == ASSUME EInv, Next PROVE DecisionReported'
<1> SUFFICES ASSUME NEW e \in Events, receipts'[e] = "COMPLETED", Reportable(e)'
             PROVE  Logged("IDV_TERMINAL")' \/ session'.lastAt > events'[e].at
  BY DEF DecisionReported, Settled, Reportable
<1>1. /\ receipts[e] = "COMPLETED" \/ \E h \in Handlers : pc[h] = "complete" /\ ev[h] = e
      /\ \A f \in Events : receipts[f] # "NONE" => events[f].issued
  BY Basics, WritersOfReceipts DEF EInv, DInv
<1>2. events[e].issued
  BY <1>1, Basics DEF WebhookSteps, TryBlock
<1>3. events'[e] = events[e] /\ events[e].at \in Nat
  BY <1>2, Lasting, Basics DEF TypeOK, Webhook
<1>4. Reportable(e)  BY <1>3 DEF Reportable, CarriesDecision
<1>5. Reported(e)
  <2>1. CASE receipts[e] = "COMPLETED"
    BY <1>4, <2>1 DEF EInv, DecisionReported, Settled, Reportable, Reported
  <2>2. ASSUME NEW h \in Handlers, pc[h] = "complete", ev[h] = e  PROVE Reported(e)
    BY <1>4, <2>2 DEF EInv, Reporting, Reports
  <2> QED  BY <1>1, <2>1, <2>2
<1> QED  BY <1>3, <1>5, Lasting DEF Reported

-----------------------------------------------------------------------------
(* What each handler reports                                                *)

\* Only h moves.
Alone(h) == \A g \in Handlers : g # h =>
  /\ pc'[g] = pc[g] /\ ev'[g] = ev[g] /\ snap'[g] = snap[g]
  /\ res'[g] = res[g] /\ already'[g] = already[g]

\* The steps of processWebhook at which a result or an outcome is in the handler.
OnRecord == {"storeIdentity", "saveResult", "saveSession"} \cup AfterSave

\* A handler that is not there has little to answer for.
LEMMA OffRecord ==
  ASSUME EInv, Next, NEW h \in Handlers, pc'[h] \notin OnRecord,
         res'[h] = res[h] \/ ~res'[h].present,
         already'[h] => already[h],
         "reference" \in snap'[h].facts => identity'
  PROVE  Reporting(h)'
<1>1. res[h].present => Said(res[h].status)  BY DEF EInv, Reporting, HoldsResult
<1>2. already[h] => Logged("IDV_TERMINAL")'  BY Lasting DEF EInv, Reporting, Reports
<1>3. HoldsResult(h)'  BY <1>1, SaidLasts DEF HoldsResult, Said, OnRecord
<1>4. HoldsOutcome(h)'  BY DEF HoldsOutcome, OnRecord, AfterSave
<1>5. Reports(h)'  BY <1>2 DEF Reports, OnRecord, AfterSave
<1>6. Referred(h)'  BY DEF Referred
<1> QED  BY <1>3, <1>4, <1>5, <1>6 DEF Reporting

\* The end of a request leaves nothing behind.
LEMMA Ended ==
  ASSUME EInv, Next, NEW h \in Handlers, Return(h)
  PROVE  Alone(h) /\ Reporting(h)'
<1>1. /\ pc'[h] = "idle" /\ snap'[h] = NoSession /\ res'[h] = NoResult /\ ~already'[h]
      /\ Alone(h)
  BY Basics DEF Return, Goto, TypeOK, Alone
<1>2. "reference" \notin snap'[h].facts /\ ~res'[h].present  BY <1>1 DEF NoSession, NoResult
<1>3. pc'[h] \notin OnRecord  BY <1>1 DEF OnRecord, AfterSave
<1> QED  BY <1>1, <1>2, <1>3, OffRecord

LEMMA RequestReports ==
  ASSUME EInv, Next, NEW h \in Handlers, Request(h) \/ OtherStep(h)
  PROVE  Alone(h) /\ Reporting(h)'
<1> USE DEF locals
<1>1. TypeOK  BY Basics
<1>2. CASE EmitCreated(h) \/ OpenEmit(h) \/ OpenCost(h) \/ ReturnEmit(h) \/ VisitConflict(h)
  <2>1. CASE Return(h)  BY <2>1, Ended
  <2>2. CASE Goto(h, "openCost") /\ UNCHANGED locals
    <3>1. Alone(h) /\ pc'[h] = "openCost"  BY <1>1, <2>2 DEF Goto, Alone, TypeOK
    <3>2. "reference" \in snap'[h].facts => identity'
      BY <2>2, WritersOfTheResult DEF EInv, Reporting, Referred
    <3> QED  BY <2>2, <3>1, <3>2, OffRecord DEF OnRecord, AfterSave
  <2> QED  BY <1>2, <2>1, <2>2
           DEF EmitCreated, OpenEmit, OpenCost, ReturnEmit, VisitConflict, Emit
<1>3. CASE StartVerification(h) \/ Open(h) \/ CustomerReturn(h)
           \/ CreateSession(h) \/ OpenSave(h) \/ ReturnSave(h)
  <2>1. UNCHANGED <<ev, res, already>>
    BY <1>3 DEF StartVerification, Open, CustomerReturn, Visit, CreateSession,
                OpenSave, ReturnSave, Save
  <2>2. /\ \A g \in Handlers : g # h => pc'[g] = pc[g] /\ snap'[g] = snap[g]
        /\ pc'[h] \in OtherSteps \cup {"idle"}
    BY <1>1, <1>3 DEF StartVerification, Open, CustomerReturn, Visit, CreateSession,
                OpenSave, ReturnSave, Save, Goto, TypeOK, OtherSteps
  <2>3. snap'[h].facts = {} \/ snap'[h] \in {snap[h], session, session'}
    <3>1. CASE StartVerification(h)
      <4>1. PICK s : snap' = [snap EXCEPT ![h] = [NoSession EXCEPT !.exists = TRUE,
                                                      !.status = s, !.version = 1]]
        BY <3>1 DEF StartVerification
      <4> QED  BY <1>1, <4>1 DEF NoSession, TypeOK
    <3>2. CASE Open(h) \/ CustomerReturn(h) \/ CreateSession(h) \/ OpenSave(h) \/ ReturnSave(h)
      BY <1>1, <3>2 DEF Open, CustomerReturn, CreateSession, OpenSave, ReturnSave, Save, TypeOK
    <3> QED  BY <1>3, <3>1, <3>2
  <2>4. "reference" \in snap'[h].facts => identity'
    <3>1. "reference" \in session'.facts => identity'
      BY StepNothingDangling DEF NothingDangling
    <3>2. "reference" \in snap[h].facts \/ "reference" \in session.facts => identity
      BY DEF EInv, NothingDangling, Reporting, Referred
    <3> QED  BY <2>3, <3>1, <3>2, WritersOfTheResult
  <2>5. pc'[h] \notin OnRecord  BY <2>2 DEF OtherSteps, OnRecord, AfterSave
  <2>6. Alone(h)  BY <2>1, <2>2 DEF Alone
  <2> QED  BY <2>1, <2>4, <2>5, <2>6, OffRecord
<1> QED  BY <1>2, <1>3 DEF Request, OtherStep

LEMMA FaultReports ==
  ASSUME EInv, Next, NEW h \in Handlers, Fault(h)
  PROVE  Alone(h) /\ Reporting(h)'
<1>1. CASE Return(h)  BY <1>1, Ended
<1>2. CASE Goto(h, "fail") /\ UNCHANGED locals
  <2>1. Alone(h) /\ pc'[h] = "fail"  BY <1>2, Basics DEF Goto, Alone, TypeOK, locals
  <2>2. "reference" \in snap'[h].facts => identity'
    BY <1>2, WritersOfTheResult DEF EInv, Reporting, Referred, locals
  <2> QED  BY <1>2, <2>1, <2>2, OffRecord DEF OnRecord, AfterSave, locals
<1> QED  BY <1>1, <1>2 DEF Fault, CallFails, RequestFails, Crash

LEMMA ClaimReports ==
  ASSUME EInv, Next, NEW h \in Handlers, NEW e \in Events, Claim(h, e)
  PROVE  Alone(h) /\ Reporting(h)'
<1>1. /\ pc'[h] = "readSession" /\ Alone(h) /\ UNCHANGED <<snap, res, already>>
  BY Basics DEF Claim, Goto, Alone, TypeOK
<1>2. "reference" \in snap'[h].facts => identity'
  BY <1>1, WritersOfTheResult DEF EInv, Reporting, Referred
<1> QED  BY <1>1, <1>2, OffRecord DEF OnRecord, AfterSave

\* From the webhook's session to its result.
LEMMA ReadingReports ==
  ASSUME EInv, Next, NEW h \in Handlers,
         ReadSession(h) \/ Retrieve(h) \/ StoreIdentity(h) \/ SaveResult(h) \/ SaveConflict(h)
  PROVE  Alone(h) /\ Reporting(h)'
<1> USE DEF world, rows, locals
<1>1. TypeOK /\ Reporting(h) /\ UNCHANGED <<events, ev, already, log, session>>
  BY Basics DEF EInv, ReadSession, Retrieve, StoreIdentity, SaveResult, SaveConflict
<1>2. Alone(h)
  BY <1>1 DEF ReadSession, Retrieve, HoldResult, StoreIdentity, SaveResult, SaveConflict,
              Goto, TypeOK, Alone
<1> SUFFICES Reporting(h)'  BY <1>2
<1>3. /\ pc[h] \in WebhookSteps
      /\ ev[h] \in Events /\ events[ev[h]].issued
  BY Basics DEF ReadSession, Retrieve, StoreIdentity, SaveResult, SaveConflict,
                WebhookSteps, TryBlock
<1>4. already'[h] => Logged("IDV_TERMINAL")'
  BY <1>1 DEF Reporting, Reports, Logged
<1>5. "reference" \in snap'[h].facts => identity'
  <2>1. CASE ReadSession(h)
    BY <1>1, <2>1 DEF ReadSession, TypeOK, EInv, NothingDangling
  <2>2. CASE Retrieve(h) \/ SaveResult(h) \/ SaveConflict(h)
    BY <1>1, <2>2 DEF Retrieve, SaveResult, SaveConflict, Reporting, Referred
  <2>3. CASE StoreIdentity(h)  BY <2>3 DEF StoreIdentity
  <2> QED  BY <2>1, <2>2, <2>3
<1>6. ASSUME pc'[h] \in {"storeIdentity", "saveResult"}, res'[h].present,
             Said(res'[h].status)
      PROVE  Reporting(h)'
  <2>1. HoldsResult(h)'  BY <1>1, <1>6 DEF HoldsResult, Said, AfterSave
  <2>2. HoldsOutcome(h)'  BY <1>6 DEF HoldsOutcome, AfterSave
  <2>3. Reports(h)'  BY <1>4, <1>6 DEF Reports, AfterSave
  <2>4. Referred(h)'  BY <1>5 DEF Referred
  <2> QED  BY <2>1, <2>2, <2>3, <2>4 DEF Reporting
<1>7. ASSUME pc'[h] = "saveSession", res'[h].present => Said(res'[h].status),
             res'[h].present => result'.present, events[ev[h]].kind = "result" => res'[h].present
      PROVE  Reporting(h)'
  <2>1. HoldsResult(h)'  BY <1>1, <1>7 DEF HoldsResult, Said, AfterSave
  <2>2. HoldsOutcome(h)'  BY <1>7 DEF HoldsOutcome, AfterSave
  <2>3. Reports(h)'  BY <1>4, <1>7 DEF Reports, AfterSave
  <2>4. Referred(h)'  BY <1>5 DEF Referred
  <2> QED  BY <2>1, <2>2, <2>3, <2>4 DEF Reporting
<1>8. res[h].present => Said(res[h].status)
  BY <1>1 DEF Reporting, HoldsResult
<1>9. CASE pc'[h] \in {"fail", "retrieve"} /\ UNCHANGED res
  BY <1>1, <1>5, <1>9, OffRecord DEF OnRecord, AfterSave
<1>10. ASSUME NEW status, Said(status), HoldResult(h, status)  PROVE Reporting(h)'
  <2>1. /\ pc'[h] \in {"storeIdentity", "saveResult"}
        /\ res'[h].present /\ res'[h].status = status
    BY <1>1, <1>10 DEF HoldResult, Goto, TypeOK
  <2>2. Said(res'[h].status)  BY <1>10, <2>1
  <2> QED  BY <1>6, <2>1, <2>2
<1>11. CASE ReadSession(h)
  <2>1. Said(events[ev[h]].status)  BY <1>3 DEF Said
  <2>2. ~res[h].present  BY <1>11 DEF ReadSession, EInv, DInv, Carried
  <2>3. CASE events[ev[h]].kind = "status" /\ Goto(h, "saveSession") /\ UNCHANGED res
    <3>1. pc'[h] = "saveSession"  BY <1>1, <2>3 DEF Goto, TypeOK
    <3> QED  BY <1>7, <2>2, <2>3, <3>1
  <2>4. CASE (Goto(h, "fail") \/ Goto(h, "retrieve")) /\ UNCHANGED res
    BY <1>1, <1>9, <2>4 DEF Goto, TypeOK
  <2> QED  BY <1>10, <1>11, <2>1, <2>3, <2>4 DEF ReadSession
<1>12. CASE Retrieve(h)  BY <1>10, <1>12 DEF Retrieve, EInv
<1>13. CASE StoreIdentity(h)
  <2>1. pc[h] = "storeIdentity" /\ pc'[h] = "saveResult" /\ UNCHANGED res
    BY <1>1, <1>13 DEF StoreIdentity, Goto, TypeOK
  <2> QED  BY <1>1, <1>6, <1>8, <2>1 DEF Reporting, HoldsResult
<1>14. CASE SaveResult(h)
  <2>1. /\ pc[h] = "saveResult" /\ pc'[h] = "saveSession" /\ UNCHANGED res
        /\ result' = res[h]
    BY <1>1, <1>14 DEF SaveResult, Goto, TypeOK
  <2>2. res[h].present  BY <1>1, <2>1 DEF Reporting, HoldsResult
  <2> QED  BY <1>7, <1>8, <2>1, <2>2
<1>15. CASE SaveConflict(h)
  BY <1>1, <1>9, <1>15 DEF SaveConflict, Goto, TypeOK
<1> QED  BY <1>11, <1>12, <1>13, <1>14, <1>15

\* A save that carries a decision leaves it in the handler's row, or finds a later
\* event there.
LEMMA SaveReports ==
  ASSUME EInv, Next, NEW h \in Handlers, SaveSession(h)
  PROVE  Alone(h) /\ Reporting(h)'
<1> USE DEF world, rows, locals
<1>1. /\ TypeOK /\ IInv /\ Reporting(h) /\ Carried(h)
      /\ UNCHANGED <<events, ev, already, log, result, res>>
  BY Basics DEF EInv, DInv, SaveSession, Save
<1>2. /\ pc[h] = "saveSession" /\ snap'[h] = session' /\ Alone(h)
      /\ pc'[h] = IF res[h].present THEN "listEvents" ELSE "complete"
  BY <1>1 DEF SaveSession, Save, Goto, TypeOK, Alone
<1>3. HoldsResult(h)'
  <2>1. res[h].present => Said(res[h].status)' /\ result'.present
    BY <1>1, <1>2 DEF Reporting, HoldsResult, Said
  <2> QED  BY <1>1, <1>2, <2>1 DEF HoldsResult, AfterSave
<1>4. HoldsOutcome(h)'  BY <1>2 DEF HoldsOutcome
<1>5. Reports(h)'
  <2>1. already'[h] => Logged("IDV_TERMINAL")'  BY <1>1 DEF Reporting, Reports, Logged
  <2>2. Reportable(ev[h]) =>
          session'.status \in TERMINAL_STATUSES \/ session'.lastAt > events'[ev[h]].at
    BY <1>1, SaveDecides DEF Reportable, TookEffect
  <2>3. pc'[h] = "complete" => ~Reportable(ev[h])
    BY <1>1, <1>2 DEF Reporting, HoldsResult, Reportable
  <2>4. Reportable(ev[h])' <=> Reportable(ev[h])
    BY <1>1 DEF Reportable, CarriesDecision
  <2> QED  BY <1>1, <1>2, <2>1, <2>2, <2>3, <2>4 DEF Reports
<1>6. Referred(h)'  BY <1>2, StepNothingDangling DEF NothingDangling, Referred
<1> QED  BY <1>2, <1>3, <1>4, <1>5, <1>6 DEF Reporting

\* The events are appended in the order in which a decision becomes reported.
LEMMA EventsReport ==
  ASSUME EInv, Next, NEW h \in Handlers,
         ListEvents(h) \/ EmitObserved(h) \/ EmitRetry(h) \/ EmitAbandoned(h)
         \/ EmitTerminal(h) \/ EmitCompleted(h)
  PROVE  Alone(h) /\ Reporting(h)'
<1> USE DEF world, rows, locals
<1>1. /\ TypeOK /\ Reporting(h) /\ UNCHANGED <<events, session, result, identity>>
      /\ pc[h] \in AfterSave \ {"complete"} /\ result.present
  BY Basics DEF EInv, Reporting, HoldsResult, ListEvents, EmitObserved, EmitRetry,
                EmitAbandoned, EmitTerminal, EmitCompleted, Emit, AfterSave
<1>2. /\ UNCHANGED <<ev, snap, res>> /\ Alone(h)
      /\ pc'[h] = CASE pc[h] = "listEvents"    -> "emitObserved"
                    [] pc[h] = "emitObserved"  -> AfterObserved(h)
                    [] pc[h] = "emitRetry"     -> "complete"
                    [] pc[h] = "emitAbandoned" -> "emitTerminal"
                    [] pc[h] = "emitTerminal"  -> "emitCompleted"
                    [] pc[h] = "emitCompleted" -> "complete"
  <2>1. CASE ListEvents(h)
    BY <1>1, <2>1 DEF ListEvents, Goto, TypeOK, Alone
  <2>2. ASSUME NEW from, NEW type, NEW status, NEW to, to # "idle",
               Emit(h, from, type, status, to)
        PROVE  /\ pc[h] = from /\ pc'[h] = to /\ UNCHANGED <<ev, snap, res>> /\ Alone(h)
    BY <1>1, <2>2 DEF Emit, Goto, TypeOK, Alone
  <2>3. CASE EmitObserved(h)
    <3>1. AfterObserved(h) # "idle"  BY DEF AfterObserved
    <3> QED  BY <2>2, <2>3, <3>1 DEF EmitObserved
  <2>4. CASE EmitRetry(h)  BY <2>2, <2>4 DEF EmitRetry
  <2>5. CASE EmitAbandoned(h)  BY <2>2, <2>5 DEF EmitAbandoned
  <2>6. CASE EmitTerminal(h)  BY <2>2, <2>6 DEF EmitTerminal
  <2>7. CASE EmitCompleted(h)  BY <2>2, <2>7 DEF EmitCompleted
  <2> QED  BY <2>1, <2>3, <2>4, <2>5, <2>6, <2>7
<1>3. already'[h] \/ pc[h] = "emitTerminal" => Logged("IDV_TERMINAL")'
  <2>1. CASE ListEvents(h)
    BY <1>1, <2>1 DEF ListEvents, TypeOK, Logged
  <2>2. CASE EmitTerminal(h)
    <3>1. [type |-> "IDV_TERMINAL", status |-> snap[h].status, source |-> ev[h]] \in log'
      BY <2>2 DEF EmitTerminal, Emit
    <3> QED  BY <3>1 DEF Logged
  <2>3. CASE EmitObserved(h) \/ EmitRetry(h) \/ EmitAbandoned(h) \/ EmitCompleted(h)
    <3>1. already[h] => Logged("IDV_TERMINAL")'
      BY <1>1, Lasting DEF Reporting, Reports
    <3>2. already'[h] => already[h]
      BY <1>1, <2>3 DEF EmitObserved, EmitRetry, EmitAbandoned, EmitCompleted, Emit,
                        Return, TypeOK
    <3>3. pc[h] # "emitTerminal"
      BY <2>3 DEF EmitObserved, EmitRetry, EmitAbandoned, EmitCompleted, Emit
    <3> QED  BY <3>1, <3>2, <3>3
  <2> QED  BY <2>1, <2>2, <2>3
<1>4. pc'[h] \in AfterSave /\ pc'[h] \notin {"storeIdentity", "saveResult", "saveSession"}
  BY <1>1, <1>2 DEF AfterSave, AfterObserved
<1>5. HoldsResult(h)'
  BY <1>1, <1>2, <1>4 DEF Reporting, HoldsResult, Said
<1>6. HoldsOutcome(h)'
  <2>1. snap[h].status \in TERMINAL_STATUSES => snap[h].status = session.status
    BY <1>1 DEF Reporting, HoldsOutcome
  <2>2. pc'[h] = "emitRetry" => snap[h].status \notin TERMINAL_STATUSES
    BY <1>1, <1>2 DEF AfterSave, AfterObserved, TERMINAL_STATUSES
  <2>3. pc'[h] \in {"emitAbandoned", "emitTerminal", "emitCompleted"} =>
          snap[h].status \in TERMINAL_STATUSES
    BY <1>1, <1>2 DEF AfterSave, AfterObserved, Reporting, HoldsOutcome
  <2> QED  BY <1>1, <1>2, <2>1, <2>2, <2>3 DEF HoldsOutcome
<1>7. Reports(h)'
  <2>1. already[h] \/ pc[h] = "emitCompleted" => Logged("IDV_TERMINAL")'
    BY <1>1, Lasting DEF Reporting, Reports
  <2>2. Reportable(ev[h])' <=> Reportable(ev[h])
    BY <1>1, <1>2 DEF Reportable, CarriesDecision
  <2>3. Reportable(ev[h]) =>
          snap[h].status \in TERMINAL_STATUSES \/ session.lastAt > events[ev[h]].at
    BY <1>1 DEF Reporting, Reports
  <2>4. already'[h] \/ pc'[h] = "emitCompleted" => Logged("IDV_TERMINAL")'
    BY <1>1, <1>2, <1>3 DEF AfterSave, AfterObserved
  <2>5. pc'[h] = "complete" /\ snap[h].status \in TERMINAL_STATUSES =>
          Logged("IDV_TERMINAL")'
    BY <1>1, <1>2, <2>1 DEF AfterSave, AfterObserved, Reporting, HoldsOutcome,
                            TERMINAL_STATUSES
  <2> QED  BY <1>1, <1>2, <2>2, <2>3, <2>4, <2>5 DEF Reports, Reported
<1>8. Referred(h)'  BY <1>1, <1>2 DEF Reporting, Referred
<1> QED  BY <1>2, <1>5, <1>6, <1>7, <1>8 DEF Reporting

LEMMA StepReporting ==
  ASSUME EInv, Next, NEW g \in Handlers
  PROVE  Reporting(g)'
<1>1. ASSUME NEW h \in Handlers, Alone(h) /\ Reporting(h)'  PROVE Reporting(g)'
  BY <1>1, ReportingKept DEF Alone
<1>2. ASSUME NEW h \in Handlers, WebhookStep(h)  PROVE Reporting(g)'
  BY <1>1, <1>2, ReadingReports, SaveReports, EventsReport, Ended
     DEF WebhookStep, Complete, Fail
<1>3. ASSUME NEW e \in Events, ProviderIssues(e) \/ Duplicate(e)  PROVE Reporting(g)'
  <2>1. UNCHANGED <<pc, ev, snap, res, already>>
    BY <1>3 DEF ProviderIssues, Duplicate, locals
  <2> QED  BY <2>1, ReportingKept
<1> QED  BY <1>1, <1>2, <1>3, RequestReports, FaultReports, ClaimReports DEF Next

-----------------------------------------------------------------------------
(* The invariant, and what follows from it                                  *)

LEMMA InitEInv == Init => EInv
<1> SUFFICES ASSUME Init PROVE EInv  OBVIOUS
<1>1. DInv  BY InitDInv
<1>2. Said(provider.status) /\ ProviderDecides
  BY DEF Init, Said, ProviderDecides, NoSession, TERMINAL_STATUSES
<1>3. DecisionReported /\ OutcomeEventsAgree /\ NothingDangling
  BY DEF Init, DecisionReported, Settled, OutcomeEventsAgree, NothingDangling, NoSession,
         Logged
<1>4. ASSUME NEW h \in Handlers  PROVE Reporting(h)
  BY DEF Init, Reporting, HoldsResult, HoldsOutcome, Reports, Referred, NoResult, NoSession,
         AfterSave
<1> QED  BY <1>1, <1>2, <1>3, <1>4 DEF EInv

LEMMA StepEInv == EInv /\ [Next]_vars => EInv'
<1> SUFFICES ASSUME EInv, [Next]_vars PROVE EInv'  OBVIOUS
<1>1. DInv'  BY StepDInv DEF EInv
<1>2. CASE Next
  BY <1>1, <1>2, StepReporting, StepProviderSaid, StepProviderDecides, StepDecisionReported,
     StepOutcomeEventsAgree, StepNothingDangling DEF EInv
<1>3. CASE UNCHANGED vars
  <2> USE <1>3 DEF vars, world, rows, locals
  <2>1. ASSUME NEW h \in Handlers  PROVE Reporting(h)'
    BY DEF EInv, Reporting, HoldsResult, HoldsOutcome, Reports, Reportable, Reported,
           Referred, Said, Logged, CarriesDecision
  <2>2. /\ Said(provider.status)' /\ ProviderDecides' /\ DecisionReported'
        /\ OutcomeEventsAgree' /\ NothingDangling'
    BY DEF EInv, Said, ProviderDecides, DecisionReported, Settled, CarriesDecision, Logged,
           OutcomeEventsAgree, NothingDangling
  <2> QED  BY <1>1, <2>1, <2>2 DEF EInv
<1> QED  BY <1>2, <1>3

LEMMA EventInvariant == Spec => []EInv
BY InitEInv, StepEInv, PTL DEF Spec

\* A session is decided only as some issued webhook said: no redirect of a browser, no
\* crash, no empty result decides it.
THEOREM OnlyProviderDecides == Spec => []ProviderDecides
<1>1. EInv => ProviderDecides  BY DEF EInv
<1> QED  BY <1>1, EventInvariant, PTL

\* Once the webhook of a terminal decision that carried its result is settled,
\* IDV_TERMINAL is in the event log, unless the session saw a later event.
THEOREM DecisionsReported == Spec => []DecisionReported
<1>1. EInv => DecisionReported  BY DEF EInv
<1> QED  BY <1>1, EventInvariant, PTL

\* However many outcome events concurrent webhooks append, each carries the outcome the
\* session has.
THEOREM OutcomesAgree == Spec => []OutcomeEventsAgree
<1>1. EInv => OutcomeEventsAgree  BY DEF EInv
<1> QED  BY <1>1, EventInvariant, PTL

\* The identity record is stored before the session refers to it, and the result before
\* a terminal event reports it.
THEOREM NothingDangles == Spec => []NothingDangling
<1>1. EInv => NothingDangling  BY DEF EInv
<1> QED  BY <1>1, EventInvariant, PTL
=============================================================================
