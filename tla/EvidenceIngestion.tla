--------------------------- MODULE EvidenceIngestion ---------------------------
(***************************************************************************)
(* Private Artifact ingestion (evidence/r1/service.js) for one idempotency *)
(* key: any number of uploads under that key run at once, each a sequence  *)
(* of calls to the operation row, the blob store and one transaction.      *)
(* Every awaited call is one atomic step and may fail; a call that fails   *)
(* may still have taken effect, and a process may die between two calls.   *)
(***************************************************************************)
EXTENDS Naturals, FiniteSets

CONSTANTS
  Handlers,     \* concurrent calls of ingest
  Contents,     \* request fingerprints: what is uploaded, for whom, by whom
  NoContent,    \* no fingerprint
  MaxRequests,  \* bound: uploads under the key
  MaxFaults     \* bound: failed calls, lost replies and crashes together

ASSUME ContentAssumption == NoContent \notin Contents
ASSUME BoundAssumption == MaxRequests \in Nat /\ MaxFaults \in Nat

VARIABLES
  op,         \* the evidence_collection_operations row of the key
  blobs,      \* objects in the artifact store
  artifacts,  \* committed Artifacts, each with its Acquisition and Asset
  answers,    \* what callers were told: stored now, or replayed
  pc,         \* where each handler stands: the call it makes next
  upload,     \* the Artifact it is about to record: fresh id, fingerprint
  requests,   \* uploads so far; the number of a request is its Artifact's id
  faults,     \* failures so far
  stranded    \* whether one may have left the operation running without an owner

faultVars == <<faults, stranded>>
vars == <<op, blobs, artifacts, answers, pc, upload, requests, faults, stranded>>

Operation == [status: {"absent", "running", "failed", "successful"},
              fingerprint: Contents \cup {NoContent}]
Artifact  == [id: Nat, content: Contents]
NoUpload  == [id |-> 0, content |-> NoContent]
Answer    == [kind: {"stored", "replayed"}, artifact: Artifact, asked: Contents]

Steps == {"idle", "find", "create", "refind", "resume", "put", "read", "complete",
          "delete", "fail"}

Init ==
  /\ op = [status |-> "absent", fingerprint |-> NoContent]
  /\ blobs = {} /\ artifacts = {} /\ answers = {}
  /\ pc = [h \in Handlers |-> "idle"] /\ upload = [h \in Handlers |-> NoUpload]
  /\ requests = 0 /\ faults = 0 /\ stranded = FALSE

Goto(h, step) == pc' = [pc EXCEPT ![h] = step] /\ UNCHANGED upload
Return(h)     == pc' = [pc EXCEPT ![h] = "idle"] /\ upload' = [upload EXCEPT ![h] = NoUpload]

-----------------------------------------------------------------------------
(* ingest                                                                   *)

\* A validated upload arrives, its context authorized.
Begin(h) ==
  /\ pc[h] = "idle" /\ requests < MaxRequests
  /\ requests' = requests + 1
  /\ \E c \in Contents : upload' = [upload EXCEPT ![h] = [id |-> requests + 1, content |-> c]]
  /\ pc' = [pc EXCEPT ![h] = "find"]
  /\ UNCHANGED <<op, blobs, artifacts, answers, faultVars>>

SameRequest(h) == op.fingerprint = upload[h].content

\* A row that succeeded is answered with whichever of its Artifacts the join puts
\* first; it has one, the transaction wrote both.
Replay(h) ==
  /\ op.status = "successful"
  /\ answers' \in {answers \cup {[kind |-> "replayed", artifact |-> a,
                                  asked |-> upload[h].content]} : a \in artifacts}
  /\ Return(h)

\* Mutant: a failed operation is resumed by whatever upload comes next.
FindUnchecked(h) ==
  /\ pc[h] = "find" /\ UNCHANGED <<op, blobs, artifacts, requests, faultVars>>
  /\ \/ op.status = "absent" /\ Goto(h, "create") /\ UNCHANGED answers
     \/ op.status = "failed" /\ Goto(h, "resume") /\ UNCHANGED answers
     \/ op.status = "running" /\ Return(h) /\ UNCHANGED answers
     \/ Replay(h)

\* Conflict, replay, refusal while one runs, resumption of a failed operation, or
\* a new one.
Find(h) ==
  /\ pc[h] = "find" /\ UNCHANGED <<op, blobs, artifacts, requests, faultVars>>
  /\ \/ op.status = "absent" /\ Goto(h, "create") /\ UNCHANGED answers
     \/ op.status # "absent" /\ ~SameRequest(h) /\ Return(h) /\ UNCHANGED answers
     \/ op.status = "failed" /\ SameRequest(h) /\ Goto(h, "resume") /\ UNCHANGED answers
     \/ op.status = "running" /\ SameRequest(h) /\ Return(h) /\ UNCHANGED answers
     \/ SameRequest(h) /\ Replay(h)

InsertOperation(h) ==
  op' = IF op.status = "absent"
        THEN [status |-> "running", fingerprint |-> upload[h].content] ELSE op

\* Mutant: ON CONFLICT DO UPDATE, which returns the row to every caller.
CreateUpsert(h) ==
  /\ pc[h] = "create"
  /\ InsertOperation(h) /\ Goto(h, "put")
  /\ UNCHANGED <<blobs, artifacts, answers, requests, faultVars>>

\* INSERT ... ON CONFLICT DO NOTHING: who inserted the row owns it.
Create(h) ==
  /\ pc[h] = "create"
  /\ InsertOperation(h)
  /\ Goto(h, IF op.status = "absent" THEN "put" ELSE "refind")
  /\ UNCHANGED <<blobs, artifacts, answers, requests, faultVars>>

\* The loser of the insertion looks again: replay, or conflict or refusal.
Refind(h) ==
  /\ pc[h] = "refind" /\ UNCHANGED <<op, blobs, artifacts, requests, faultVars>>
  /\ \/ SameRequest(h) /\ Replay(h)
     \/ ~(SameRequest(h) /\ op.status = "successful") /\ Return(h) /\ UNCHANGED answers

\* Mutant: the operation waits as pending, a status of the table that ingest never looks for.
MarkPending == op' = IF op.status = "failed" THEN [op EXCEPT !.status = "pending"] ELSE op

MarkRunning == op' = IF op.status = "failed" THEN [op EXCEPT !.status = "running"] ELSE op

\* UPDATE ... WHERE status = 'failed', and created: true whatever it updated.
Resume(h) ==
  /\ pc[h] = "resume"
  /\ MarkRunning /\ Goto(h, "put")
  /\ UNCHANGED <<blobs, artifacts, answers, requests, faultVars>>

Put(h) ==
  /\ pc[h] = "put"
  /\ blobs' = blobs \cup {upload[h]} /\ Goto(h, "read")
  /\ UNCHANGED <<op, artifacts, answers, requests, faultVars>>

\* The readback returns what was put: keys hold a fresh id.
Read(h) ==
  /\ pc[h] = "read" /\ upload[h] \in blobs
  /\ Goto(h, "complete")
  /\ UNCHANGED <<op, blobs, artifacts, answers, requests, faultVars>>

\* The transaction: Acquisition, Asset, scope and Artifact are inserted and the
\* operation is set to successful, whatever it was.
Commit(h) ==
  /\ artifacts' = artifacts \cup {upload[h]}
  /\ op' = [op EXCEPT !.status = "successful"]

Complete(h) ==
  /\ pc[h] = "complete" /\ Commit(h)
  /\ answers' = answers \cup {[kind |-> "stored", artifact |-> upload[h],
                               asked |-> upload[h].content]}
  /\ Return(h)
  /\ UNCHANGED <<blobs, requests, faultVars>>

\* Mutant: the cleanup deletes everything under the operation's prefix.
DeleteAll(h) ==
  /\ pc[h] = "delete"
  /\ blobs' = {} /\ Goto(h, "fail")
  /\ UNCHANGED <<op, artifacts, answers, requests, faultVars>>

Delete(h) ==
  /\ pc[h] = "delete"
  /\ blobs' = blobs \ {upload[h]} /\ Goto(h, "fail")
  /\ UNCHANGED <<op, artifacts, answers, requests, faultVars>>

\* Mutant: only an operation nobody completed is marked, but never written.
FailNothing(h) ==
  /\ pc[h] = "fail" /\ Return(h)
  /\ UNCHANGED <<op, blobs, artifacts, answers, requests, faultVars>>

\* The operation is set to failed, whatever it was, and the caller gets an error.
Fail(h) ==
  /\ pc[h] = "fail"
  /\ op' = [op EXCEPT !.status = "failed"] /\ Return(h)
  /\ UNCHANGED <<blobs, artifacts, answers, requests, faultVars>>

-----------------------------------------------------------------------------
(* Failed calls, lost replies, crashes                                      *)

SpendFault == faults < MaxFaults /\ faults' = faults + 1 /\ UNCHANGED <<answers, requests>>

Strand == stranded' = TRUE

\* The look-ups and the first write are outside every try block: the call throws to
\* the caller, though the write may have taken effect.
ClaimFails(h) ==
  /\ pc[h] \in {"find", "refind", "create", "resume"} /\ SpendFault /\ Return(h)
  /\ \/ UNCHANGED <<op, stranded>>
     \/ pc[h] = "create" /\ InsertOperation(h) /\ Strand
     \/ pc[h] = "resume" /\ MarkRunning /\ Strand
  /\ UNCHANGED <<blobs, artifacts>>

\* put throws; the object may be there, and nobody deletes it.
PutFails(h) ==
  /\ pc[h] = "put" /\ SpendFault /\ Goto(h, "fail")
  /\ blobs' \in {blobs, blobs \cup {upload[h]}}
  /\ UNCHANGED <<op, artifacts, stranded>>

\* The readback throws or differs, or the transaction throws: rolled back, or
\* committed with its reply lost.
RecordFails(h) ==
  /\ pc[h] \in {"read", "complete"} /\ SpendFault /\ Goto(h, "delete")
  /\ \/ UNCHANGED <<op, artifacts>>
     \/ pc[h] = "complete" /\ Commit(h)
  /\ UNCHANGED <<blobs, stranded>>

\* Errors of the cleanup and of marking the operation failed are swallowed.
CleanupFails(h) ==
  /\ SpendFault
  /\ \/ pc[h] = "delete" /\ Goto(h, "fail") /\ UNCHANGED stranded
     \/ pc[h] = "fail" /\ Return(h) /\ Strand
  /\ UNCHANGED <<op, blobs, artifacts>>

Crash(h) ==
  /\ pc[h] # "idle" /\ SpendFault /\ Return(h) /\ Strand
  /\ UNCHANGED <<op, blobs, artifacts>>

-----------------------------------------------------------------------------
Work(h) ==
  \/ Find(h) \/ Create(h) \/ Refind(h) \/ Resume(h) \/ Put(h) \/ Read(h)
  \/ Complete(h) \/ Delete(h) \/ Fail(h)

Fault(h) == ClaimFails(h) \/ PutFails(h) \/ RecordFails(h) \/ CleanupFails(h) \/ Crash(h)

Next == \E h \in Handlers : Begin(h) \/ Work(h) \/ Fault(h)

Spec == Init /\ [][Next]_vars

\* A running process goes on; new uploads and faults are owed to nobody.
FairSpec == Spec /\ \A h \in Handlers : WF_vars(Work(h))

-----------------------------------------------------------------------------
(* Properties                                                               *)

\* Every variable holds a value of its kind.
TypeOK ==
  /\ op \in Operation
  /\ blobs \subseteq Artifact /\ artifacts \subseteq Artifact
  /\ answers \subseteq Answer
  /\ pc \in [Handlers -> Steps]
  /\ upload \in [Handlers -> Artifact \cup {NoUpload}]
  /\ requests \in Nat /\ faults \in Nat /\ stranded \in BOOLEAN

\* One key never stands for two uploads: whatever races for it, everything recorded
\* under it and every answer given for it has one fingerprint, and a caller with
\* another one is never told that its upload was stored (docs/evidence-platform/
\* ADR.md:987, ingest's two look-ups around the insertion).
OneUploadPerKey ==
  /\ \A a \in artifacts : a.content = op.fingerprint
  /\ \A x \in answers : x.artifact.content = x.asked /\ x.asked = op.fingerprint

\* What a caller was told is stored stays stored: the rows are committed and no
\* cleanup of a concurrent or later attempt takes the object away (ADR.md:1037).
StoredStays ==
  \A x \in answers : x.kind = "stored" => x.artifact \in artifacts /\ x.artifact \in blobs

\* As long as no call fails, racing uploads record one Artifact (createOperation).
OnceWithoutFaults == faults = 0 => Cardinality(artifacts) <= 1

\* Unless a process dies or a write of the row is lost, a running operation ends, and
\* a retry is not refused for ever (the two catch blocks of ingest).
OperationEnds == op.status = "running" ~> op.status # "running" \/ stranded

-----------------------------------------------------------------------------
(* A claim of the docs that the code does not keep                          *)

\* docs/evidence-platform/ADR.md:1037: the cleanup of objects "must not delete prior
\* evidence", here the object of an Artifact whose rows are committed.
CleanupKeepsEvidence == [][artifacts \cap blobs \subseteq blobs']_vars
=============================================================================
