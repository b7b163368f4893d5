------------------------------ MODULE IdvIdentity ------------------------------
(***************************************************************************)
(* The secure identity record of one IDV session                           *)
(* (stores/postgresSecureIdentityStore.js) and the customer's answers      *)
(* about it (services/idvService.js): extractions, presentations, answers  *)
(* and deletions run as READ COMMITTED transactions, one statement at a    *)
(* time, with PostgreSQL's row locks.  A transaction's writes are in tx    *)
(* until it commits.                                                       *)
(***************************************************************************)
EXTENDS Naturals, FiniteSets, FiniteSetsExt

CONSTANTS
  Procs,           \* concurrent callers
  AttributeCount,  \* attributes of an extraction, in the provider's order
  MaxRuns,         \* bound: calls of the store and service
  MaxFaults        \* bound: failed statements, lost replies and crashes

ASSUME BoundAssumption == AttributeCount \in Nat /\ MaxRuns \in Nat /\ MaxFaults \in Nat

VARIABLES
  record,      \* the idv_secure_identity_records row
  attributes,  \* idv_encrypted_identity_attributes: id, and the run that wrote it
  responses,   \* idv_encrypted_customer_responses, likewise
  audit,       \* ALLOWED rows of idv_identity_access_audit
  events,      \* lifecycle events about the attributes
  given,       \* what the store returned to its callers, and under which reference
  pc,          \* the statement each caller sends next
  tx,          \* what it knows and what its open transaction has written
  runs, faults

rows == <<record, attributes, responses, audit>>
vars == <<record, attributes, responses, audit, events, given, pc, tx, runs, faults>>

Attributes == 1..AttributeCount
Kinds      == {"extract", "present", "answer", "erase", "schedule"}
Actions    == {"STORE", "READ", "RECORD", "DELETE", "SCHEDULE"}
Marks      == {"inserted", "locked", "erased", "responded", "audited"}
Steps      == {"idle", "look", "insert", "attributes", "check", "select", "recheck",
               "respond", "lock", "delete", "audit", "commit", "presented", "answered"}

Row    == [attribute: Attributes, run: Nat]
Record == [status: {"absent", "ACTIVE", "SCHEDULED", "DELETED"}, hold: BOOLEAN,
           reference: Nat]
Call   == [run: Nat, kind: Kinds, action: Actions, items: SUBSET Attributes,
           wrote: SUBSET Attributes, did: SUBSET Marks, reference: Nat]
NoCall == [run |-> 0, kind |-> "extract", action |-> "STORE", items |-> {},
           wrote |-> {}, did |-> {}, reference |-> 0]

Init ==
  /\ record = [status |-> "absent", hold |-> FALSE, reference |-> 0]
  /\ attributes = {} /\ responses = {} /\ audit = {} /\ events = {} /\ given = {}
  /\ pc = [p \in Procs |-> "idle"] /\ tx = [p \in Procs |-> NoCall]
  /\ runs = 0 /\ faults = 0

Stored == {r.attribute : r \in attributes}

Goto(p, step, call) == pc' = [pc EXCEPT ![p] = step] /\ tx' = [tx EXCEPT ![p] = call]
Return(p)           == Goto(p, "idle", NoCall)
Did(p, mark)        == [tx[p] EXCEPT !.did = @ \cup {mark}]

\* Row locks of other open transactions: FOR UPDATE on the record, FOR KEY SHARE taken
\* on it by the foreign key of an inserted row, a record not yet committed.
LockedByOther(p)   == \E q \in Procs \ {p} : "locked" \in tx[q].did
SharedByOther(p)   == \E q \in Procs \ {p} : tx[q].wrote # {} \/ "responded" \in tx[q].did
InsertedByOther(p) == \E q \in Procs \ {p} : "inserted" \in tx[q].did

-----------------------------------------------------------------------------
(* Callers                                                                  *)

\* Access is authorized; a caller other than an extraction has read the reference from
\* the session.
Begin(p) ==
  /\ pc[p] = "idle" /\ runs < MaxRuns /\ runs' = runs + 1
  /\ \E kind \in Kinds, items \in SUBSET Attributes \ {{}} :
       /\ kind = "answer" => Cardinality(items) = 1
       /\ kind \in {"present", "erase", "schedule"} => items = Attributes
       /\ LET call(action, reference) ==
                [NoCall EXCEPT !.run = runs + 1, !.kind = kind, !.action = action,
                               !.items = items, !.reference = reference]
          IN \/ kind = "extract" /\ Goto(p, "look", call("STORE", 0))
             \/ \E g \in given :
                  \/ kind \in {"present", "answer"} /\ Goto(p, "check", call("READ", g.reference))
                  \/ kind = "erase" /\ Goto(p, "lock", call("DELETE", g.reference))
                  \/ kind = "schedule" /\ Goto(p, "lock", call("SCHEDULE", g.reference))
  /\ UNCHANGED <<rows, events, given, faults>>

\* The legal hold is set and lifted outside the program, by an UPDATE of the row.
SetHold ==
  /\ record.status # "absent" /\ ~\E q \in Procs : "locked" \in tx[q].did
  /\ record' = [record EXCEPT !.hold = ~@]
  /\ UNCHANGED <<attributes, responses, audit, events, given, pc, tx, runs, faults>>

-----------------------------------------------------------------------------
(* storeExtractedIdentity                                                   *)

\* ensureIdentityRecord's first SELECT: an existing record is taken unless deleted.
Look(p) ==
  /\ pc[p] = "look" /\ UNCHANGED <<rows, events, given, runs, faults>>
  /\ \/ record.status = "absent" /\ Goto(p, "insert", tx[p])
     \/ record.status = "DELETED" /\ Return(p)
     \/ /\ record.status \in {"ACTIVE", "SCHEDULED"}
        /\ Goto(p, "attributes", [tx[p] EXCEPT !.reference = record.reference])

\* Mutant: the generated reference is returned though another insertion came first.
InsertOwn(p) ==
  /\ pc[p] = "insert" /\ ~InsertedByOther(p)
  /\ Goto(p, "attributes",
          [tx[p] EXCEPT !.reference = tx[p].run,
                        !.did = IF record.status = "absent" THEN {"inserted"} ELSE {}])
  /\ UNCHANGED <<rows, events, given, runs, faults>>

\* INSERT ... ON CONFLICT DO NOTHING waits for another insertion of the row to end; the
\* second SELECT then reads whose reference stands.
Insert(p) ==
  /\ pc[p] = "insert" /\ ~InsertedByOther(p)
  /\ \/ /\ record.status = "absent"
        /\ Goto(p, "attributes", [Did(p, "inserted") EXCEPT !.reference = tx[p].run])
     \/ /\ record.status # "absent"
        /\ Goto(p, "attributes", [tx[p] EXCEPT !.reference = record.reference])
  /\ UNCHANGED <<rows, events, given, runs, faults>>

\* One attribute is encrypted and inserted ON CONFLICT DO NOTHING: an uncommitted row
\* with its key, or a deletion of it, is waited for; so is the record's lock when a row
\* is inserted.
WriteAttribute(p) ==
  /\ pc[p] = "attributes" /\ tx[p].items # {}
  /\ LET a    == Min(tx[p].items)
         rest == [tx[p] EXCEPT !.items = @ \ {a}]
     IN \/ /\ a \in Stored /\ ~\E q \in Procs \ {p} : "erased" \in tx[q].did
           /\ Goto(p, "attributes", rest)
        \/ /\ a \notin Stored /\ ~LockedByOther(p)
           /\ ~\E q \in Procs \ {p} : a \in tx[q].wrote
           /\ Goto(p, "attributes", [rest EXCEPT !.wrote = @ \cup {a}])
  /\ UNCHANGED <<rows, events, given, runs, faults>>

AttributesDone(p) ==
  /\ pc[p] = "attributes" /\ tx[p].items = {} /\ Goto(p, "audit", tx[p])
  /\ UNCHANGED <<rows, events, given, runs, faults>>

-----------------------------------------------------------------------------
(* retrieveIdentityForAuthorizedPurpose and appendResponse                  *)

Available(p) == record.status = "ACTIVE" /\ record.reference = tx[p].reference

Check(p) ==
  /\ pc[p] = "check" /\ UNCHANGED <<rows, events, given, runs, faults>>
  /\ \/ Available(p) /\ Goto(p, "select", tx[p])
     \/ ~Available(p) /\ Return(p)

\* Mutant: what the request names is trusted, whether or not a row was found.
SelectTrusting(p) ==
  /\ pc[p] = "select" /\ Goto(p, "audit", tx[p])
  /\ UNCHANGED <<rows, events, given, runs, faults>>

\* The rows asked for, as committed when this statement runs.
Select(p) ==
  /\ pc[p] = "select" /\ Goto(p, "audit", [tx[p] EXCEPT !.items = @ \cap Stored])
  /\ UNCHANGED <<rows, events, given, runs, faults>>

Recheck(p) ==
  /\ pc[p] = "recheck" /\ UNCHANGED <<rows, events, given, runs, faults>>
  /\ \/ Available(p) /\ Goto(p, "respond", tx[p])
     \/ ~Available(p) /\ Return(p)

\* The response is encrypted and inserted; its foreign key waits for the record's lock.
Respond(p) ==
  /\ pc[p] = "respond" /\ ~LockedByOther(p)
  /\ Goto(p, "audit", Did(p, "responded"))
  /\ UNCHANGED <<rows, events, given, runs, faults>>

-----------------------------------------------------------------------------
(* deleteOrScheduleDeletion                                                 *)

\* Mutant: SELECT without FOR UPDATE.
LockUnlocked(p) ==
  /\ pc[p] = "lock" /\ UNCHANGED <<rows, events, given, runs, faults>>
  /\ \/ /\ record.reference = tx[p].reference /\ ~record.hold /\ record.status # "DELETED"
        /\ Goto(p, IF tx[p].action = "DELETE" THEN "delete" ELSE "audit", tx[p])
     \/ /\ record.reference # tx[p].reference \/ record.hold \/ record.status = "DELETED"
        /\ Return(p)

\* SELECT ... FOR UPDATE waits for every lock on the row, then refuses a record under
\* hold; a deleted one is reported as such.
Lock(p) ==
  /\ pc[p] = "lock" /\ ~LockedByOther(p) /\ ~SharedByOther(p)
  /\ UNCHANGED <<rows, events, given, runs, faults>>
  /\ \/ /\ record.reference = tx[p].reference /\ ~record.hold /\ record.status # "DELETED"
        /\ Goto(p, IF tx[p].action = "DELETE" THEN "delete" ELSE "audit", Did(p, "locked"))
     \/ /\ record.reference # tx[p].reference \/ record.hold \/ record.status = "DELETED"
        /\ Return(p)

\* Responses and attributes are deleted, and the record is updated.
Erase(p) ==
  /\ pc[p] = "delete" /\ Goto(p, "audit", Did(p, "erased"))
  /\ UNCHANGED <<rows, events, given, runs, faults>>

-----------------------------------------------------------------------------
(* The end of a transaction                                                 *)

\* Mutant: a failure of the audit row is swallowed.
AuditBestEffort(p) ==
  /\ pc[p] = "audit" /\ (Goto(p, "commit", Did(p, "audited")) \/ Goto(p, "commit", tx[p]))
  /\ UNCHANGED <<rows, events, given, runs, faults>>

Audit(p) ==
  /\ pc[p] = "audit" /\ Goto(p, "commit", Did(p, "audited"))
  /\ UNCHANGED <<rows, events, given, runs, faults>>

Marked(p, mark) == mark \in tx[p].did
Rows(p)         == [attribute: tx[p].wrote, run: {tx[p].run}]

\* COMMIT makes everything the transaction wrote visible at once.
Apply(p) ==
  /\ record' = [record EXCEPT
       !.status = IF Marked(p, "inserted") THEN "ACTIVE"
                  ELSE IF Marked(p, "erased") THEN "DELETED"
                  ELSE IF tx[p].action = "SCHEDULE" THEN "SCHEDULED" ELSE @,
       !.reference = IF Marked(p, "inserted") THEN tx[p].run ELSE @]
  /\ attributes' = IF Marked(p, "erased") THEN {} ELSE attributes \cup Rows(p)
  /\ responses' = IF Marked(p, "erased") THEN {}
                  ELSE IF Marked(p, "responded")
                  THEN responses \cup [attribute: tx[p].items, run: {tx[p].run}]
                  ELSE responses
  /\ audit' = IF Marked(p, "audited")
              THEN audit \cup {[run |-> tx[p].run, action |-> tx[p].action]} ELSE audit

\* Where the caller goes on after its transaction: an answer needs the attribute it is
\* about, and goes on to a transaction of its own.
After(p) ==
  \/ tx[p].action \in {"STORE", "DELETE", "SCHEDULE"} /\ Return(p)
  \/ /\ tx[p].action = "READ" /\ tx[p].kind = "present"
     /\ Goto(p, "presented", [tx[p] EXCEPT !.did = {}])
  \/ /\ tx[p].action = "READ" /\ tx[p].kind = "answer" /\ tx[p].items # {}
     /\ Goto(p, "recheck", [tx[p] EXCEPT !.did = {}, !.action = "RECORD"])
  \/ tx[p].action = "READ" /\ tx[p].kind = "answer" /\ tx[p].items = {} /\ Return(p)
  \/ tx[p].action = "RECORD" /\ Goto(p, "answered", [tx[p] EXCEPT !.did = {}])

Commit(p) ==
  /\ pc[p] = "commit" /\ Apply(p) /\ After(p)
  /\ given' = given \cup {[run |-> tx[p].run, action |-> tx[p].action,
                           reference |-> tx[p].reference]}
  /\ UNCHANGED <<events, runs, faults>>

\* Mutant: the event is named after the request.
EmitMisnamed(p) ==
  /\ pc[p] \in {"presented", "answered"}
  /\ events' = events \cup [kind: {tx[p].kind}, attribute: tx[p].items, run: {tx[p].run}]
  /\ Return(p) /\ UNCHANGED <<rows, given, runs, faults>>

\* IDENTITY_ATTRIBUTE_PRESENTED for each attribute, or the event of the answer.
Emit(p) ==
  /\ pc[p] \in {"presented", "answered"}
  /\ events' = events \cup [kind: {pc[p]}, attribute: tx[p].items, run: {tx[p].run}]
  /\ Return(p) /\ UNCHANGED <<rows, given, runs, faults>>

-----------------------------------------------------------------------------
(* Failures                                                                 *)

Fault == faults < MaxFaults /\ faults' = faults + 1 /\ UNCHANGED <<given, runs>>

\* Mutant: the client returns to the pool without ROLLBACK, its transaction still open.
NoRollback(p) == pc' = [pc EXCEPT ![p] = "idle"] /\ UNCHANGED tx

\* withTransaction rolls back: nothing was written and the locks are gone.
Rollback(p) == Return(p)

\* A statement, the key service or the append of an event fails, or the process dies.
Fails(p) ==
  /\ pc[p] # "idle" /\ Fault /\ Rollback(p)
  /\ UNCHANGED <<rows, events>>

\* Some of the events are appended.
EmitFails(p) ==
  /\ pc[p] = "presented" /\ Fault /\ Return(p)
  /\ \E some \in SUBSET tx[p].items :
       events' = events \cup [kind: {"presented"}, attribute: some, run: {tx[p].run}]
  /\ UNCHANGED rows

\* COMMIT takes effect and its reply is lost.
ReplyLost(p) ==
  /\ pc[p] = "commit" /\ Fault /\ Apply(p) /\ Return(p)
  /\ UNCHANGED events

-----------------------------------------------------------------------------
Work(p) ==
  \/ Look(p) \/ Insert(p) \/ WriteAttribute(p) \/ AttributesDone(p) \/ Check(p)
  \/ Select(p) \/ Recheck(p) \/ Respond(p) \/ Lock(p) \/ Erase(p) \/ Audit(p)
  \/ Commit(p) \/ Emit(p)

Next ==
  \/ \E p \in Procs : Begin(p) \/ Work(p) \/ Fails(p) \/ EmitFails(p) \/ ReplyLost(p)
  \/ SetHold

Spec == Init /\ [][Next]_vars

\* A running caller goes on; new calls and failures are owed to nobody.
FairSpec == Spec /\ \A p \in Procs : WF_vars(Work(p))

-----------------------------------------------------------------------------
(* Properties                                                               *)

\* Every variable holds a value of its kind.
TypeOK ==
  /\ record \in Record
  /\ attributes \subseteq Row /\ responses \subseteq Row
  /\ audit \subseteq [run: Nat, action: Actions]
  /\ events \subseteq [kind: {"presented", "answered"}, attribute: Attributes, run: Nat]
  /\ given \subseteq [run: Nat, action: Actions, reference: Nat]
  /\ pc \in [Procs -> Steps] /\ tx \in [Procs -> Call]
  /\ runs \in Nat /\ faults \in Nat

\* A legal hold that is set while a deletion runs is never overtaken by it: nothing is
\* erased and no deletion is scheduled under it (deleteOrScheduleDeletion's FOR UPDATE,
\* docs/idv/SECURITY_AND_DEPLOYMENT.md:98).
HoldRespected ==
  [][record.hold => /\ attributes \subseteq attributes' /\ responses \subseteq responses'
                    /\ record'.status = record.status]_vars

\* A deletion is final, also when another one was scheduled at the same time.
DeletionFinal == [][record.status = "DELETED" => record'.status = "DELETED"]_vars

\* However insertions race, fail and roll back, every reference handed out is the one
\* that stands in the table (ensureIdentityRecord's second SELECT).
OneReference == \A g \in given : g.reference = record.reference

\* What was stored, disclosed, answered or erased is in the audit trail of its own
\* transaction (appendAudit before every COMMIT).
AccessAudited ==
  /\ \A r \in attributes : [run |-> r.run, action |-> "STORE"] \in audit
  /\ \A r \in responses : [run |-> r.run, action |-> "RECORD"] \in audit
  /\ \A g \in given : [run |-> g.run, action |-> g.action] \in audit
  /\ record.status = "DELETED" => \E a \in audit : a.action = "DELETE"

\* An answered event is backed by its response, and a response by the extraction it
\* answers, until the record is deleted (recordCustomerResponse).
AnswersBacked ==
  record.status # "DELETED" =>
    /\ \A e \in events : e.kind = "answered" =>
         [attribute |-> e.attribute, run |-> e.run] \in responses
    /\ \A r \in responses : r.attribute \in Stored

\* Whatever waits for whatever lock, and whoever fails holding one, every call ends.
CallsEnd == \A p \in Procs : pc[p] # "idle" ~> pc[p] = "idle"

-----------------------------------------------------------------------------
(* A claim of the docs that the code does not keep                          *)

\* docs/idv/SECURITY_AND_DEPLOYMENT.md:98-99: "Immediate deletion removes encrypted
\* attributes/responses".
DeletedIsEmpty == record.status = "DELETED" => attributes = {} /\ responses = {}
=============================================================================
