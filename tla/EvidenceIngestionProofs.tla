------------------------ MODULE EvidenceIngestionProofs ------------------------
(***************************************************************************)
(* Proofs about EvidenceIngestion, for any number of handlers, requests    *)
(* and faults: its types, that one key stands for one upload, that what    *)
(* was reported stored stays, and that one Artifact is recorded as long as *)
(* no call fails.                                                          *)
(***************************************************************************)
EXTENDS EvidenceIngestion, FiniteSetTheorems, TLAPS

\* A handler that has claimed the operation holds an upload with its fingerprint.
Owners == {"resume", "put", "read", "complete"}

Owned ==
  /\ \A h \in Handlers : pc[h] \in Owners =>
       op.status # "absent" /\ op.fingerprint = upload[h].content
  /\ op.status = "absent" => artifacts = {} /\ answers = {}

\* A busy handler's id was handed out, to it alone; idle ones hold none.
FreshIds ==
  /\ \A h \in Handlers : pc[h] # "idle" => upload[h].id \in 1..requests
  /\ \A h, g \in Handlers :
       h # g /\ pc[h] # "idle" /\ pc[g] # "idle" => upload[h].id # upload[g].id

\* What is recorded has the operation's fingerprint.
Recorded ==
  /\ \A a \in artifacts : a.content = op.fingerprint
  /\ \A x \in answers : x.artifact.content = x.asked /\ x.asked = op.fingerprint

\* A stored answer names a committed Artifact that no handler works on any more.
Settled ==
  \A x \in answers : x.kind = "stored" =>
    /\ x.artifact \in artifacts /\ x.artifact \in blobs
    /\ x.artifact.id <= requests
    /\ \A h \in Handlers : pc[h] # "idle" => upload[h].id # x.artifact.id

\* The object is in the store when the transaction starts.
Readable == \A h \in Handlers : pc[h] = "complete" => upload[h] \in blobs

\* An upload in work has a fingerprint.
Loaded == \A h \in Handlers : pc[h] # "idle" => upload[h] \in Artifact

\* Until a call fails, one handler at most works on the operation, and only before it
\* succeeded; nothing is recorded before that.
Working == {"put", "read", "complete"}

SingleRun == faults = 0 =>
  /\ op.status # "failed"
  /\ \A h \in Handlers : pc[h] \notin {"resume", "delete", "fail"}
  /\ \A h \in Handlers : pc[h] \in Working => op.status = "running"
  /\ \A h, g \in Handlers : pc[h] \in Working /\ pc[g] \in Working => h = g
  /\ op.status # "successful" => artifacts = {}
  /\ \A a, b \in artifacts : a = b

Inv == TypeOK /\ Loaded /\ Owned /\ FreshIds /\ Recorded /\ Settled /\ Readable
       /\ SingleRun

-----------------------------------------------------------------------------
(* One lemma per action: it preserves each conjunct of the invariant.       *)

\* A new upload gets an id nobody holds.
LEMMA BeginKeeps ==
  ASSUME Inv, NEW h \in Handlers, Begin(h)
  PROVE  Inv'
<1>1. TypeOK'
  BY DEF Inv, TypeOK, Operation, Artifact, NoUpload, Answer, Steps, Begin, faultVars
<1>2. Loaded'
  BY DEF Inv, Loaded, Artifact, TypeOK, Begin
<1>3. Owned'
  BY DEF Inv, Owned, Owners, Begin
<1>4. FreshIds'
  BY DEF Inv, FreshIds, TypeOK, Begin
<1>5. Recorded'
  BY DEF Inv, Recorded, Begin
<1>6. Settled'
  BY DEF Inv, Settled, TypeOK, Artifact, Begin
<1>7. Readable'
  BY DEF Inv, Readable, Begin
<1>8. SingleRun'
  BY DEF Inv, SingleRun, Working, Begin, faultVars
<1>. QED
  BY <1>1, <1>2, <1>3, <1>4, <1>5, <1>6, <1>7, <1>8 DEF Inv

\* The look-up only lets the owner of a failed operation go on.
LEMMA FindKeeps ==
  ASSUME Inv, NEW h \in Handlers, Find(h)
  PROVE  Inv'
<1>1. TypeOK'
  <2>1. upload[h] \in Artifact
    BY DEF Inv, Loaded, Find
  <2>2. CASE UNCHANGED answers
    BY <2>1, <2>2 DEF Inv, TypeOK, Steps, Find, Goto, Return, Replay, faultVars
  <2>3. CASE Replay(h)
    <3>1. PICK a \in artifacts :
            answers' = answers \cup {[kind |-> "replayed", artifact |-> a,
                                      asked |-> upload[h].content]}
      BY <2>3 DEF Replay
    <3>2. [kind |-> "replayed", artifact |-> a, asked |-> upload[h].content] \in Answer
      BY <2>1 DEF Inv, TypeOK, Artifact, Answer, faultVars
    <3>3. answers' \subseteq Answer
      BY <3>1, <3>2 DEF Inv, TypeOK, faultVars
    <3>. QED
      BY <3>3, <2>3 DEF Inv, TypeOK, Steps, Find, Replay, Return, faultVars
  <2>. QED
    BY <2>2, <2>3 DEF Find
<1>2. Loaded'
  BY DEF Inv, Loaded, TypeOK, Find, SameRequest, Replay, Goto, Return
<1>3. Owned'
  BY DEF Inv, Owned, Owners, TypeOK, Find, SameRequest, Replay, Goto, Return
<1>4. FreshIds'
  BY DEF Inv, FreshIds, TypeOK, Find, SameRequest, Replay, Goto, Return
<1>5. Recorded'
  BY DEF Inv, Recorded, Find, SameRequest, Replay, Goto, Return
<1>6. Settled'
  BY DEF Inv, Settled, TypeOK, Find, SameRequest, Replay, Goto, Return
<1>7. Readable'
  BY DEF Inv, Readable, TypeOK, Find, SameRequest, Replay, Goto, Return
<1>8. SingleRun'
  BY DEF Inv, SingleRun, Working, TypeOK, Find, SameRequest, Replay, Goto, Return, faultVars
<1>. QED
  BY <1>1, <1>2, <1>3, <1>4, <1>5, <1>6, <1>7, <1>8 DEF Inv

\* Who inserts the row owns the operation.
LEMMA CreateKeeps ==
  ASSUME Inv, NEW h \in Handlers, Create(h)
  PROVE  Inv'
<1>1. TypeOK'
  BY DEF Inv, TypeOK, Operation, Artifact, NoUpload, Answer, Steps, Create,
     InsertOperation, Goto, faultVars
<1>2. Loaded'
  BY DEF Inv, Loaded, Create, InsertOperation, Goto
<1>3. Owned'
  BY DEF Inv, Owned, Owners, Create, InsertOperation, Goto
<1>4. FreshIds'
  BY DEF Inv, FreshIds, Create, InsertOperation, Goto
<1>5. Recorded'
  BY DEF Inv, Recorded, Owned, Owners, Create, InsertOperation, Goto
<1>6. Settled'
  BY DEF Inv, Settled, Create, InsertOperation, Goto
<1>7. Readable'
  BY DEF Inv, Readable, Create, InsertOperation, Goto
<1>8. SingleRun'
  BY DEF Inv, SingleRun, Working, Create, InsertOperation, Goto, faultVars
<1>. QED
  BY <1>1, <1>2, <1>3, <1>4, <1>5, <1>6, <1>7, <1>8 DEF Inv

\* The loser of the insertion replays or returns.
LEMMA RefindKeeps ==
  ASSUME Inv, NEW h \in Handlers, Refind(h)
  PROVE  Inv'
<1>1. TypeOK'
  <2>1. upload[h] \in Artifact
    BY DEF Inv, Loaded, Refind
  <2>2. CASE UNCHANGED answers
    BY <2>1, <2>2 DEF Inv, TypeOK, Steps, Refind, Goto, Return, Replay, faultVars
  <2>3. CASE Replay(h)
    <3>1. PICK a \in artifacts :
            answers' = answers \cup {[kind |-> "replayed", artifact |-> a,
                                      asked |-> upload[h].content]}
      BY <2>3 DEF Replay
    <3>2. [kind |-> "replayed", artifact |-> a, asked |-> upload[h].content] \in Answer
      BY <2>1 DEF Inv, TypeOK, Artifact, Answer, faultVars
    <3>3. answers' \subseteq Answer
      BY <3>1, <3>2 DEF Inv, TypeOK, faultVars
    <3>. QED
      BY <3>3, <2>3 DEF Inv, TypeOK, Steps, Refind, Replay, Return, faultVars
  <2>. QED
    BY <2>2, <2>3 DEF Refind
<1>2. Loaded'
  BY DEF Inv, Loaded, TypeOK, Refind, SameRequest, Replay, Goto, Return
<1>3. Owned'
  BY DEF Inv, Owned, Owners, TypeOK, Refind, SameRequest, Replay, Goto, Return
<1>4. FreshIds'
  BY DEF Inv, FreshIds, TypeOK, Refind, SameRequest, Replay, Goto, Return
<1>5. Recorded'
  BY DEF Inv, Recorded, Refind, SameRequest, Replay, Goto, Return
<1>6. Settled'
  BY DEF Inv, Settled, TypeOK, Refind, SameRequest, Replay, Goto, Return
<1>7. Readable'
  BY DEF Inv, Readable, TypeOK, Refind, SameRequest, Replay, Goto, Return
<1>8. SingleRun'
  BY DEF Inv, SingleRun, Working, TypeOK, Refind, SameRequest, Replay, Goto, Return,
     faultVars
<1>. QED
  BY <1>1, <1>2, <1>3, <1>4, <1>5, <1>6, <1>7, <1>8 DEF Inv

\* Resuming changes the status alone.
LEMMA ResumeKeeps ==
  ASSUME Inv, NEW h \in Handlers, Resume(h)
  PROVE  Inv'
<1>1. TypeOK'
  BY DEF Inv, TypeOK, Operation, Artifact, NoUpload, Answer, Steps, Resume, MarkRunning,
     Goto, faultVars
<1>2. Loaded'
  BY DEF Inv, Loaded, Resume, MarkRunning, Goto
<1>3. Owned'
  BY DEF Inv, Owned, Owners, Resume, MarkRunning, Goto
<1>4. FreshIds'
  BY DEF Inv, FreshIds, Resume, MarkRunning, Goto
<1>5. Recorded'
  BY DEF Inv, Recorded, Resume, MarkRunning, Goto
<1>6. Settled'
  BY DEF Inv, Settled, Resume, MarkRunning, Goto
<1>7. Readable'
  BY DEF Inv, Readable, Resume, MarkRunning, Goto
<1>8. SingleRun'
  BY DEF Inv, SingleRun, Working, Resume, MarkRunning, Goto, faultVars
<1>. QED
  BY <1>1, <1>2, <1>3, <1>4, <1>5, <1>6, <1>7, <1>8 DEF Inv

\* The object put is the handler's own.
LEMMA PutKeeps ==
  ASSUME Inv, NEW h \in Handlers, Put(h)
  PROVE  Inv'
<1>1. TypeOK'
  <2>1. upload[h] \in Artifact
    BY DEF Inv, Loaded, Put
  <2>2. blobs' \subseteq Artifact
    BY <2>1 DEF Inv, TypeOK, Put, faultVars
  <2>. QED
    BY <2>2 DEF Inv, TypeOK, Steps, Put, Goto, faultVars
<1>2. Loaded'
  BY DEF Inv, Loaded, Put, Goto
<1>3. Owned'
  BY DEF Inv, Owned, Owners, Put, Goto
<1>4. FreshIds'
  BY DEF Inv, FreshIds, Put, Goto
<1>5. Recorded'
  BY DEF Inv, Recorded, Put, Goto
<1>6. Settled'
  BY DEF Inv, Settled, Put, Goto
<1>7. Readable'
  BY DEF Inv, Readable, Put, Goto
<1>8. SingleRun'
  BY DEF Inv, SingleRun, Working, Put, Goto, faultVars
<1>. QED
  BY <1>1, <1>2, <1>3, <1>4, <1>5, <1>6, <1>7, <1>8 DEF Inv

\* The object is there when the transaction starts.
LEMMA ReadKeeps ==
  ASSUME Inv, NEW h \in Handlers, Read(h)
  PROVE  Inv'
<1>1. TypeOK'
  BY DEF Inv, TypeOK, Steps, Read, Goto, faultVars
<1>2. Loaded'
  BY DEF Inv, Loaded, Read, Goto
<1>3. Owned'
  BY DEF Inv, Owned, Owners, Read, Goto
<1>4. FreshIds'
  BY DEF Inv, FreshIds, Read, Goto
<1>5. Recorded'
  BY DEF Inv, Recorded, Read, Goto
<1>6. Settled'
  BY DEF Inv, Settled, Read, Goto
<1>7. Readable'
  BY DEF Inv, Readable, Read, Goto
<1>8. SingleRun'
  BY DEF Inv, SingleRun, Working, Read, Goto, faultVars
<1>. QED
  BY <1>1, <1>2, <1>3, <1>4, <1>5, <1>6, <1>7, <1>8 DEF Inv

\* The transaction records the handler's upload and gives up its id.
LEMMA CompleteKeeps ==
  ASSUME Inv, NEW h \in Handlers, Complete(h)
  PROVE  Inv'
<1>1. TypeOK'
  <2>1. upload[h] \in Artifact
    BY DEF Inv, Loaded, Complete
  <2>2. artifacts' \subseteq Artifact
    BY <2>1 DEF Inv, TypeOK, Complete, Commit, faultVars
  <2>3. [kind |-> "stored", artifact |-> upload[h], asked |-> upload[h].content] \in Answer
    BY <2>1 DEF Artifact, Answer
  <2>4. answers' \subseteq Answer
    BY <2>3 DEF Inv, TypeOK, Complete, faultVars
  <2>5. op' \in Operation
    BY DEF Inv, TypeOK, Operation, Complete, Commit, faultVars
  <2>. QED
    BY <2>2, <2>4, <2>5 DEF Inv, TypeOK, Steps, Complete, Return, faultVars
<1>2. Loaded'
  BY DEF Inv, Loaded, TypeOK, Complete, Commit, Return
<1>3. Owned'
  BY DEF Inv, Owned, Owners, TypeOK, Complete, Commit, Return
<1>4. FreshIds'
  BY DEF Inv, FreshIds, TypeOK, Complete, Commit, Return
<1>5. Recorded'
  BY DEF Inv, Recorded, Owned, Owners, Complete, Commit, Return
<1>6. Settled'
  BY DEF Inv, Settled, TypeOK, FreshIds, Readable, Complete, Commit, Return
<1>7. Readable'
  BY DEF Inv, Readable, TypeOK, Complete, Commit, Return
<1>8. SingleRun'
  BY DEF Inv, SingleRun, Working, TypeOK, Complete, Commit, Return, faultVars
<1>. QED
  BY <1>1, <1>2, <1>3, <1>4, <1>5, <1>6, <1>7, <1>8 DEF Inv

\* The cleanup takes the handler's own object.
LEMMA DeleteKeeps ==
  ASSUME Inv, NEW h \in Handlers, Delete(h)
  PROVE  Inv'
<1>1. TypeOK'
  BY DEF Inv, TypeOK, Steps, Delete, Goto, faultVars
<1>2. Loaded'
  BY DEF Inv, Loaded, Delete, Goto
<1>3. Owned'
  BY DEF Inv, Owned, Owners, Delete, Goto
<1>4. FreshIds'
  BY DEF Inv, FreshIds, Delete, Goto
<1>5. Recorded'
  BY DEF Inv, Recorded, Delete, Goto
<1>6. Settled'
  BY DEF Inv, Settled, Delete, Goto
<1>7. Readable'
  BY DEF Inv, Readable, FreshIds, Delete, Goto
<1>8. SingleRun'
  BY DEF Inv, SingleRun, Working, Delete, Goto, faultVars
<1>. QED
  BY <1>1, <1>2, <1>3, <1>4, <1>5, <1>6, <1>7, <1>8 DEF Inv

\* Marking the operation failed changes its status alone.
LEMMA FailKeeps ==
  ASSUME Inv, NEW h \in Handlers, Fail(h)
  PROVE  Inv'
<1>1. TypeOK'
  BY DEF Inv, TypeOK, Operation, Artifact, NoUpload, Answer, Steps, Fail, Return, faultVars
<1>2. Loaded'
  BY DEF Inv, Loaded, TypeOK, Fail, Return
<1>3. Owned'
  BY DEF Inv, Owned, Owners, Fail, Return
<1>4. FreshIds'
  BY DEF Inv, FreshIds, TypeOK, Fail, Return
<1>5. Recorded'
  BY DEF Inv, Recorded, Fail, Return
<1>6. Settled'
  BY DEF Inv, Settled, TypeOK, Fail, Return
<1>7. Readable'
  BY DEF Inv, Readable, Fail, Return
<1>8. SingleRun'
  BY DEF Inv, SingleRun, Working, TypeOK, Operation, Owned, Fail, Return, faultVars
<1>. QED
  BY <1>1, <1>2, <1>3, <1>4, <1>5, <1>6, <1>7, <1>8 DEF Inv

\* A claim may have taken effect, and its caller is gone.
LEMMA ClaimFailsKeeps ==
  ASSUME Inv, NEW h \in Handlers, ClaimFails(h)
  PROVE  Inv'
<1>1. TypeOK'
  <2>1. stranded' \in BOOLEAN
    BY DEF Inv, TypeOK, ClaimFails, Strand
  <2>2. op' \in Operation
    BY DEF Inv, TypeOK, Operation, Artifact, Loaded, ClaimFails, InsertOperation, MarkRunning, SpendFault
  <2>3. pc' \in [Handlers -> Steps] /\ upload' \in [Handlers -> Artifact \cup {NoUpload}]
    BY DEF Inv, TypeOK, Steps, NoUpload, ClaimFails, Return
  <2>. QED
    BY <2>1, <2>2, <2>3 DEF Inv, TypeOK, ClaimFails, SpendFault
<1>2. Loaded'
  BY DEF Inv, Loaded, TypeOK, ClaimFails, SpendFault, InsertOperation, MarkRunning, Return
<1>3. Owned'
  BY DEF Inv, Owned, Owners, TypeOK, Operation, Answer, ClaimFails, SpendFault,
     InsertOperation, MarkRunning, Return
<1>4. FreshIds'
  BY DEF Inv, FreshIds, TypeOK, Artifact, NoUpload, ClaimFails, SpendFault,
     InsertOperation, MarkRunning, Return
<1>5. Recorded'
  BY DEF Inv, Recorded, Owned, Owners, TypeOK, Operation, Answer, ClaimFails, SpendFault,
     InsertOperation, MarkRunning, Return
<1>6. Settled'
  BY DEF Inv, Settled, TypeOK, ClaimFails, SpendFault, InsertOperation, MarkRunning, Return
<1>7. Readable'
  BY DEF Inv, Readable, ClaimFails, SpendFault, InsertOperation, MarkRunning, Return
<1>8. SingleRun'
  BY DEF Inv, SingleRun, Working, TypeOK, ClaimFails, SpendFault, InsertOperation,
     MarkRunning, Return
<1>. QED
  BY <1>1, <1>2, <1>3, <1>4, <1>5, <1>6, <1>7, <1>8 DEF Inv

\* The object may be there.
LEMMA PutFailsKeeps ==
  ASSUME Inv, NEW h \in Handlers, PutFails(h)
  PROVE  Inv'
<1>1. TypeOK'
  <2>1. upload[h] \in Artifact
    BY DEF Inv, Loaded, PutFails
  <2>2. blobs' \subseteq Artifact
    BY <2>1 DEF Inv, TypeOK, PutFails
  <2>. QED
    BY <2>2 DEF Inv, TypeOK, Steps, PutFails, Goto, SpendFault, Strand
<1>2. Loaded'
  BY DEF Inv, Loaded, PutFails, SpendFault, Goto
<1>3. Owned'
  BY DEF Inv, Owned, Owners, PutFails, SpendFault, Goto
<1>4. FreshIds'
  BY DEF Inv, FreshIds, PutFails, SpendFault, Goto
<1>5. Recorded'
  BY DEF Inv, Recorded, PutFails, SpendFault, Goto
<1>6. Settled'
  BY DEF Inv, Settled, PutFails, SpendFault, Goto
<1>7. Readable'
  BY DEF Inv, Readable, PutFails, SpendFault, Goto
<1>8. SingleRun'
  BY DEF Inv, SingleRun, Working, TypeOK, PutFails, SpendFault, Goto
<1>. QED
  BY <1>1, <1>2, <1>3, <1>4, <1>5, <1>6, <1>7, <1>8 DEF Inv

\* The records may be there.
LEMMA RecordFailsKeeps ==
  ASSUME Inv, NEW h \in Handlers, RecordFails(h)
  PROVE  Inv'
<1>1. TypeOK'
  <2>1. upload[h] \in Artifact
    BY DEF Inv, Loaded, RecordFails
  <2>2. artifacts' \subseteq Artifact
    BY <2>1 DEF Inv, TypeOK, RecordFails, Commit
  <2>3. op' \in Operation
    BY DEF Inv, TypeOK, Operation, RecordFails, Commit
  <2>. QED
    BY <2>2, <2>3 DEF Inv, TypeOK, Steps, RecordFails, SpendFault, Strand, Goto
<1>2. Loaded'
  BY DEF Inv, Loaded, RecordFails, SpendFault, Commit, Goto
<1>3. Owned'
  BY DEF Inv, Owned, Owners, TypeOK, Operation, Answer, RecordFails, SpendFault, Commit,
     Goto
<1>4. FreshIds'
  BY DEF Inv, FreshIds, RecordFails, SpendFault, Commit, Goto
<1>5. Recorded'
  BY DEF Inv, Recorded, Owned, Owners, TypeOK, Operation, Answer, RecordFails, SpendFault,
     Commit, Goto
<1>6. Settled'
  BY DEF Inv, Settled, RecordFails, SpendFault, Commit, Goto
<1>7. Readable'
  BY DEF Inv, Readable, RecordFails, SpendFault, Commit, Goto
<1>8. SingleRun'
  BY DEF Inv, SingleRun, Working, TypeOK, RecordFails, SpendFault, Commit, Goto
<1>. QED
  BY <1>1, <1>2, <1>3, <1>4, <1>5, <1>6, <1>7, <1>8 DEF Inv

\* The cleanup is best-effort.
LEMMA CleanupFailsKeeps ==
  ASSUME Inv, NEW h \in Handlers, CleanupFails(h)
  PROVE  Inv'
<1>1. TypeOK'
  <2>1. stranded' \in BOOLEAN
    BY DEF Inv, TypeOK, CleanupFails, Strand
  <2>2. op' \in Operation
    BY DEF Inv, TypeOK, Operation, Artifact, Loaded, CleanupFails, SpendFault
  <2>3. pc' \in [Handlers -> Steps] /\ upload' \in [Handlers -> Artifact \cup {NoUpload}]
    BY DEF Inv, TypeOK, Steps, NoUpload, CleanupFails, Goto, Return
  <2>. QED
    BY <2>1, <2>2, <2>3 DEF Inv, TypeOK, CleanupFails, SpendFault
<1>2. Loaded'
  BY DEF Inv, Loaded, TypeOK, CleanupFails, SpendFault, Goto, Return
<1>3. Owned'
  BY DEF Inv, Owned, Owners, TypeOK, CleanupFails, SpendFault, Goto, Return
<1>4. FreshIds'
  BY DEF Inv, FreshIds, TypeOK, CleanupFails, SpendFault, Goto, Return
<1>5. Recorded'
  BY DEF Inv, Recorded, CleanupFails, SpendFault, Goto, Return
<1>6. Settled'
  BY DEF Inv, Settled, TypeOK, CleanupFails, SpendFault, Goto, Return
<1>7. Readable'
  BY DEF Inv, Readable, TypeOK, CleanupFails, SpendFault, Goto, Return
<1>8. SingleRun'
  BY DEF Inv, SingleRun, Working, TypeOK, CleanupFails, SpendFault, Goto, Return
<1>. QED
  BY <1>1, <1>2, <1>3, <1>4, <1>5, <1>6, <1>7, <1>8 DEF Inv

\* The handler is gone.
LEMMA CrashKeeps ==
  ASSUME Inv, NEW h \in Handlers, Crash(h)
  PROVE  Inv'
<1>1. TypeOK'
  BY DEF Inv, TypeOK, Steps, Crash, SpendFault, Strand, Return
<1>2. Loaded'
  BY DEF Inv, Loaded, TypeOK, Crash, SpendFault, Return
<1>3. Owned'
  BY DEF Inv, Owned, Owners, TypeOK, Crash, SpendFault, Return
<1>4. FreshIds'
  BY DEF Inv, FreshIds, TypeOK, Crash, SpendFault, Return
<1>5. Recorded'
  BY DEF Inv, Recorded, Crash, SpendFault, Return
<1>6. Settled'
  BY DEF Inv, Settled, TypeOK, Crash, SpendFault, Return
<1>7. Readable'
  BY DEF Inv, Readable, TypeOK, Crash, SpendFault, Return
<1>8. SingleRun'
  BY DEF Inv, SingleRun, Working, TypeOK, Crash, SpendFault, Return
<1>. QED
  BY <1>1, <1>2, <1>3, <1>4, <1>5, <1>6, <1>7, <1>8 DEF Inv
-----------------------------------------------------------------------------
\* The inductive invariant: the code's ids are fresh and its claims stay claims.
THEOREM Inductive == Spec => []Inv
<1>1. Init => Inv
  <2> SUFFICES ASSUME Init PROVE Inv
    OBVIOUS
  <2>1. stranded \in BOOLEAN
    BY DEF Init
  <2>2. TypeOK
    BY <2>1, ContentAssumption DEF Init, TypeOK, Operation, Artifact, NoUpload, Answer, Steps
  <2>3. Loaded /\ Owned /\ FreshIds /\ Recorded /\ Settled /\ Readable /\ SingleRun
    BY DEF Init, Loaded, Owned, Owners, FreshIds, Recorded, Settled, Readable, SingleRun,
       Working
  <2>. QED
    BY <2>2, <2>3 DEF Inv
<1>2. Inv /\ [Next]_vars => Inv'
  <2>1. CASE UNCHANGED vars
    BY <2>1 DEF vars, faultVars, Inv, TypeOK, Loaded, Owned, FreshIds, Recorded, Settled,
       Readable, SingleRun
  <2>2. ASSUME Inv, NEW h \in Handlers, Work(h) PROVE Inv'
    BY <2>2, FindKeeps, CreateKeeps, RefindKeeps, ResumeKeeps, PutKeeps, ReadKeeps,
       CompleteKeeps, DeleteKeeps, FailKeeps DEF Work
  <2>3. ASSUME Inv, NEW h \in Handlers, Fault(h) PROVE Inv'
    BY <2>3, ClaimFailsKeeps, PutFailsKeeps, RecordFailsKeeps, CleanupFailsKeeps,
       CrashKeeps DEF Fault
  <2>. QED
    BY <2>1, <2>2, <2>3, BeginKeeps DEF Next
<1>. QED
  BY <1>1, <1>2, PTL DEF Spec

\* Every variable keeps its type (EvidenceIngestion's TypeOK).
THEOREM TypeCorrect == Spec => []TypeOK
<1>1. Inv => TypeOK
  BY DEF Inv
<1>. QED
  BY <1>1, Inductive, PTL

\* However uploads race for a key, it stands for one of them (ingest's two look-ups
\* around the insertion).
THEOREM KeyStandsForOneUpload == Spec => []OneUploadPerKey
<1>1. Inv => OneUploadPerKey
  BY DEF Inv, Recorded, OneUploadPerKey
<1>. QED
  BY <1>1, Inductive, PTL

\* A caller told "stored" finds its Artifact and its object, through every failure
\* and cleanup of other attempts (complete, and the delete of the catch block).
THEOREM StoredForGood == Spec => []StoredStays
<1>1. Inv => StoredStays
  BY DEF Inv, Settled, StoredStays
<1>. QED
  BY <1>1, Inductive, PTL

\* Without failed calls, racing uploads record one Artifact (createOperation's unique
\* key, and the refusal while an operation runs).
THEOREM RecordedOnce == Spec => []OnceWithoutFaults
<1>1. Inv => OnceWithoutFaults
  <2> SUFFICES ASSUME Inv, faults = 0 PROVE Cardinality(artifacts) <= 1
    BY DEF OnceWithoutFaults
  <2>1. CASE artifacts = {}
    BY <2>1, FS_EmptySet
  <2>2. CASE artifacts # {}
    <3>1. PICK a \in artifacts : artifacts = {a}
      BY <2>2 DEF Inv, SingleRun
    <3>. QED
      BY <3>1, FS_Singleton
  <2>. QED
    BY <2>1, <2>2
<1>. QED
  BY <1>1, Inductive, PTL
=============================================================================
