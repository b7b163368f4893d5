------------------------ MODULE EvidencePackagesProofs ------------------------
(***************************************************************************)
(* Proofs about the Evidence platform, for any number of callers, calls,   *)
(* areas and keys: that evidence once recorded or frozen stays, that the   *)
(* status of a collection promises no more than its rows, that the         *)
(* provider is asked once, and that R2 and A5b implement KeyedOperation.   *)
(***************************************************************************)
EXTENDS EvidencePackages, TLAPS

------------------------------------------------------------------------------
(* The inductive invariant.                                                *)

\* What a caller's process may hold.
Attempt == [at : {"acquire", "persist"}, areas : Seq(AreaSet),
            outcomes : [AreaSet -> Seq(Outcomes)],
            kept : UNION {[S -> Artifact] : S \in SUBSET AreaSet},
            status : Final \cup {"running"}]
InterpretJob == [at : {"interpret", "complete", "fail"}, key : OperationKeys,
                 result : Readings \cup {Nothing}]
FreezeJob == [at : {"reconstruct", "freeze"}, key : FreezeKeys, request : Purposes,
              package : Package \cup {Nothing}]

Attempting(j) == j.at \in {"acquire", "persist"}
Interpreting(j) == j.at \in {"interpret", "complete", "fail"}
Freezing(j) == j.at \in {"reconstruct", "freeze"}

JobOK(j) ==
  /\ j.at \in {"none", "refused", "recover"} \/ Attempting(j) \/ Interpreting(j) \/ Freezing(j)
  /\ Attempting(j) => j \in Attempt
  /\ Interpreting(j) => j \in InterpretJob
  /\ Freezing(j) => j \in FreezeJob
  /\ j.at = "complete" => j.result \in Readings
  /\ j.at = "freeze" => j.package \in Package

JobsOK == DOMAIN job = Callers /\ \A c \in Callers : JobOK(job[c])

\* An attempt has an outcome of the first area once it has left it, keeps
\* what it calls successful, and settles on a status that its rows back.
Honest(j) ==
  /\ j.areas # Areas => j.outcomes[Head(Areas)] # <<>>
  /\ \A a \in AreaSet : j.outcomes[a] = <<"successful">> => a \in DOMAIN j.kept
  /\ j.at = "persist" =>
       /\ j.status \in Final
       /\ j.outcomes[Head(Areas)] # <<>>
       /\ j.status = "successful" => ApiAreas \subseteq DOMAIN j.kept
       /\ j.status = "partial" => ApiAreas \cap DOMAIN j.kept # {}

AttemptsHonest == \A c \in Callers : Attempting(job[c]) => Honest(job[c])

\* The bytes of an artifact are in the store, whether it is recorded or still
\* in the hands of an attempt.
Backed(m) == m.key \in DOMAIN stored /\ stored[m.key] = m.content

KeptBacked ==
  \A c \in Callers : Attempting(job[c]) =>
    \A a \in DOMAIN job[c].kept : Backed(job[c].kept[a])

\* A key that names its contents stands for them.
StoreOK ==
  \A a \in AreaSet, x \in Contents : <<a, x>> \in DOMAIN stored => stored[<<a, x>>] = x

\* The provider is asked on behalf of a claim, which is made once.
Claimed(c) == operation[job[c].key] # Nothing

ClaimsOnce ==
  /\ \A k \in OperationKeys : operation[k] = Nothing => consulted[k] = 0
  /\ \A c \in Callers : Interpreting(job[c]) => Claimed(c)
  /\ \A c \in Callers : job[c].at = "interpret" => consulted[job[c].key] = 0
  /\ \A c, d \in Callers :
       job[c].at = "interpret" /\ job[d].at = "interpret" /\ job[c].key = job[d].key => c = d
  /\ ProviderAskedOnce

\* What a package shows is recorded.
Holds(p) ==
  /\ \A m \in p.of.evidence : m[1] \in DOMAIN artifacts /\ artifacts[m[1]] = m[2]
  /\ \A m \in p.of.readings : /\ operation[m[1]] # Nothing
                              /\ operation[m[1]].status = "completed"
                              /\ operation[m[1]].result = m[2]

AllHold ==
  /\ \A k \in FreezeKeys : packages[k] # Nothing => Holds(packages[k].result)
  /\ \A c \in Callers : job[c].at = "freeze" => Holds(job[c].package)

Inv == TypeOK /\ JobsOK /\ calls \in Nat /\ AttemptsHonest /\ KeptBacked /\ StoreOK
       /\ ArtifactsBacked /\ StatusHasEvidence /\ ClaimsOnce /\ AllHold

------------------------------------------------------------------------------
(* Steps.                                                                  *)

\* What a step of caller c does to the jobs.
Moved(c, j) == /\ DOMAIN job' = Callers
               /\ job'[c] = j
               /\ \A d \in Callers \ {c} : job'[d] = job[d]

LEMMA Moves ==
  ASSUME DOMAIN job = Callers, NEW c \in Callers, NEW j, job' = [job EXCEPT ![c] = j]
  PROVE  Moved(c, j)
BY DEF Moved

LEMMA HeadArea == Head(Areas) \in AreaSet /\ Areas \in Seq(AreaSet) /\ Areas # <<>>
BY AreasAssumption

LEMMA NextArea ==
  ASSUME NEW s \in Seq(AreaSet), s # <<>>
  PROVE  Head(s) \in AreaSet /\ Tail(s) \in Seq(AreaSet)
OBVIOUS

LEMMA Appended ==
  ASSUME NEW s \in Seq(Outcomes), NEW t \in Seq(Outcomes), t # <<>>
  PROVE  s \o t \in Seq(Outcomes) /\ s \o t # <<>>
OBVIOUS

\* An attempt that ends an area with anything but a success does not call it successful.
LEMMA NotSuccessful ==
  ASSUME NEW s \in Seq(Outcomes), NEW t \in Seq(Outcomes), t # <<>>, t[Len(t)] # "successful"
  PROVE  s \o t # <<"successful">>
<1>1. (s \o t)[Len(s \o t)] = t[Len(t)]
  OBVIOUS
<1>2. <<"successful">>[Len(<<"successful">>)] = "successful"
  OBVIOUS
<1> QED BY <1>1, <1>2

LEMMA AcquiredIsAttempt ==
  ASSUME NEW c \in Callers, JobOK(job[c]), Acquiring(c),
         NEW t \in Seq(Outcomes)
  PROVE  /\ Head(job[c].areas) \in AreaSet
         /\ Acquired(c, t) \in Attempt
         /\ Acquired(c, t).at = "acquire"
         /\ Acquired(c, t).kept = job[c].kept
         /\ Acquired(c, t).areas = Tail(job[c].areas)
         /\ Acquired(c, t).outcomes =
              [job[c].outcomes EXCEPT ![Head(job[c].areas)] = @ \o t]
<1>1. job[c] \in Attempt /\ job[c].at = "acquire" /\ job[c].areas # <<>>
  BY DEF JobOK, Attempting, Acquiring, At
<1>2. Head(job[c].areas) \in AreaSet /\ Tail(job[c].areas) \in Seq(AreaSet)
  BY <1>1, NextArea DEF Attempt
<1>3. \A s \in Seq(Outcomes) : s \o t \in Seq(Outcomes)
  OBVIOUS
<1> QED BY <1>1, <1>2, <1>3 DEF Acquired, Attempt

LEMMA InitJobs == Init => JobsOK
BY DEF Init, InitCalls, JobsOK, JobOK, NoJob, Attempting, Interpreting, Freezing

LEMMA NewGraphIsAttempt == NewGraph \in Attempt /\ NewGraph.at = "acquire"
<1>1. [a \in AreaSet |-> <<>>] \in [AreaSet -> Seq(Outcomes)]
  OBVIOUS
<1>2. NoArtifacts \in [{} -> Artifact]
  BY DEF NoArtifacts
<1> QED BY <1>1, <1>2, HeadArea DEF NewGraph, Attempt

------------------------------------------------------------------------------
(* Jobs.                                                                   *)

\* A step of caller c leaves its job at one of the steps K.
Steps(c, K) ==
  /\ JobsOK'
  /\ job'[c].at \in K
  /\ \A d \in Callers \ {c} : job'[d] = job[d]

CollectionSteps == {"none", "acquire", "persist", "refused", "recover"}
InterpretationSteps == {"none", "interpret", "complete", "fail"}
PackageSteps == {"none", "reconstruct", "freeze"}

LEMMA OneJob ==
  ASSUME JobsOK, NEW c \in Callers, NEW j, JobOK(j), job' = [job EXCEPT ![c] = j],
         NEW K, j.at \in K
  PROVE  Steps(c, K)
<1>1. Moved(c, j)
  BY Moves DEF JobsOK
<1> QED BY <1>1 DEF JobsOK, Moved, Steps

LEMMA SameJobs ==
  ASSUME JobsOK, NEW c \in Callers, job[c] = NoJob, UNCHANGED job, NEW K, "none" \in K
  PROVE  Steps(c, K)
BY DEF JobsOK, Steps, NoJob

LEMMA Idle == JobOK(NoJob) /\ NoJob.at = "none"
BY DEF JobOK, NoJob, Attempting, Interpreting, Freezing

LEMMA AttemptIsJob ==
  ASSUME NEW j \in Attempt
  PROVE  JobOK(j) /\ j.at \in {"acquire", "persist"}
BY DEF JobOK, Attempt, Attempting, Interpreting, Freezing

LEMMA CollectionJobs ==
  ASSUME Inv, NEW c \in Callers, CollectionNext(c)
  PROVE  Steps(c, CollectionSteps)
<1>0. JobsOK /\ JobOK(job[c])
  BY DEF Inv, JobsOK
<1>a. /\ <<"failed">> \in Seq(Outcomes)
      /\ <<"successful">> \in Seq(Outcomes)
      /\ <<"inconclusive">> \in Seq(Outcomes)
  BY DEF Outcomes
<1>k. {"none", "acquire", "persist", "refused", "recover"} \subseteq CollectionSteps
  BY DEF CollectionSteps
<1>1. CASE Collect(c)
  <2>1. job[c] = NoJob /\ (UNCHANGED job \/ job' = [job EXCEPT ![c] = NewGraph])
    BY <1>1 DEF Collect, Called
  <2> QED BY <1>0, <1>k, <2>1, SameJobs, OneJob, NewGraphIsAttempt, AttemptIsJob
<1>2. CASE AcquireFails(c)
  <2>1. Acquired(c, <<"failed">>) \in Attempt
    BY <1>0, <1>k, <1>a, <1>2, AcquiredIsAttempt DEF AcquireFails
  <2> QED BY <1>0, <1>k, <1>2, <2>1, AttemptIsJob, OneJob DEF AcquireFails, Goes
<1>3. ASSUME NEW x \in Contents, AcquireStored(c, x) PROVE Steps(c, CollectionSteps)
  <2> DEFINE a == Head(job[c].areas)
             g == Acquired(c, <<"successful">>)
             m == [key |-> KeyFor(a, x), content |-> x]
             j == [g EXCEPT !.kept = [b \in DOMAIN @ \cup {a} |-> IF b = a THEN m ELSE @[b]]]
  <2>1. g \in Attempt /\ a \in AreaSet
    BY <1>0, <1>k, <1>a, <1>3, AcquiredIsAttempt DEF AcquireStored
  <2>2. m \in Artifact
    BY <2>1, <1>3 DEF Artifact, KeyFor
  <2>3. [b \in DOMAIN g.kept \cup {a} |-> IF b = a THEN m ELSE g.kept[b]]
          \in UNION {[S -> Artifact] : S \in SUBSET AreaSet}
    <3>1. PICK S \in SUBSET AreaSet : g.kept \in [S -> Artifact]
      BY <2>1 DEF Attempt
    <3>2. S \cup {a} \in SUBSET AreaSet
      BY <2>1
    <3>3. [b \in DOMAIN g.kept \cup {a} |-> IF b = a THEN m ELSE g.kept[b]]
            \in [S \cup {a} -> Artifact]
      BY <2>2, <3>1
    <3> QED BY <3>2, <3>3
  <2>4. j \in Attempt
    <3> HIDE DEF g, m
    <3> QED BY <2>1, <2>3 DEF Attempt
  <2>5. job' = [job EXCEPT ![c] = j]
    BY <1>3 DEF AcquireStored, Goes
  <2> QED BY <1>0, <1>k, <2>4, <2>5, AttemptIsJob, OneJob
<1>4. CASE AcquireUnstored(c)
  <2> DEFINE t == IF Head(job[c].areas) \in ApiAreas
                  THEN <<"successful", "failed">> ELSE <<"failed">>
  <2>1. t \in Seq(Outcomes)
    <3>1. <<"successful", "failed">> \in Seq(Outcomes)
      BY DEF Outcomes
    <3> QED BY <1>a, <3>1
  <2>2. Acquired(c, t) \in Attempt
    BY <1>0, <1>k, <1>4, <2>1, AcquiredIsAttempt DEF AcquireUnstored
  <2> QED BY <1>0, <1>k, <1>4, <2>2, AttemptIsJob, OneJob DEF AcquireUnstored, Goes
<1>5. CASE Conclude(c)
  <2>1. StatusOf(job[c]) \in Final
    BY DEF StatusOf, Final
  <2>2. job[c] \in Attempt
    BY <1>0, <1>k, <1>5 DEF JobOK, Attempting, Conclude, At
  <2>3. [job[c] EXCEPT !.at = "persist", !.status = StatusOf(job[c])] \in Attempt
    BY <2>1, <2>2 DEF Attempt
  <2>4. JobOK([at |-> "refused"]) /\ [at |-> "refused"].at = "refused"
    BY DEF JobOK, Attempting, Interpreting, Freezing
  <2>5. \/ job' = [job EXCEPT ![c] = [job[c] EXCEPT !.at = "persist", !.status = StatusOf(job[c])]]
        \/ job' = [job EXCEPT ![c] = [at |-> "refused"]]
    BY <1>5 DEF Conclude, Goes
  <2> QED BY <1>0, <1>k, <2>3, <2>4, <2>5, AttemptIsJob, OneJob
<1>6. CASE Mismatch(c)
  <2>1. Acquired(c, <<"inconclusive">>) \in Attempt
    BY <1>0, <1>k, <1>a, <1>6, AcquiredIsAttempt, HeadArea DEF Mismatch, Acquiring
  <2> DEFINE j == [Acquired(c, <<"inconclusive">>) EXCEPT
                     !.at = "persist", !.status = "inconclusive"]
  <2>2. j \in Attempt  BY <2>1 DEF Attempt, Final
  <2>3. job' = [job EXCEPT ![c] = j]  BY <1>6 DEF Mismatch, Goes
  <2> HIDE DEF j
  <2>4. JobOK(j) /\ j.at \in CollectionSteps  BY <1>k, <2>2, AttemptIsJob
  <2> QED BY <1>0, <2>3, <2>4, OneJob
<1>7. CASE Persist(c)
  BY <1>0, <1>k, <1>7, Idle, OneJob DEF Persist, Goes
<1>8. CASE PersistFails(c)
  <2> DEFINE j == [at |-> "recover", mismatch |-> job[c].status = "inconclusive"]
  <2>1. JobOK(j) /\ j.at = "recover"
    BY DEF JobOK, Attempting, Interpreting, Freezing
  <2>2. job' = [job EXCEPT ![c] = j]
    BY <1>8 DEF PersistFails, Goes
  <2> HIDE DEF j
  <2> QED BY <1>0, <1>k, <2>1, <2>2, OneJob
<1>9. CASE Recover(c)
  <2>1. Tail(Areas) \in Seq(AreaSet) /\ <<"inconclusive", "failed">> \in Seq(Outcomes)
    BY HeadArea, NextArea DEF Outcomes
  <2> DEFINE g == [NewGraph EXCEPT !.areas = Tail(@),
                     !.outcomes[Head(Areas)] = <<"inconclusive", "failed">>]
  <2>2. g \in Attempt
    BY <2>1, HeadArea, NewGraphIsAttempt DEF NewGraph, Attempt
  <2>3. job' = [job EXCEPT ![c] = g] \/ job' = [job EXCEPT ![c] = NoJob]
    BY <1>9 DEF Recover, Goes
  <2> HIDE DEF g
  <2> QED BY <1>0, <1>k, <2>2, <2>3, Idle, AttemptIsJob, OneJob
<1>10. CASE Refused(c)
  BY <1>0, <1>k, <1>10, Idle, OneJob DEF Refused, Goes
<1> QED BY <1>1, <1>2, <1>3, <1>4, <1>5, <1>6, <1>7, <1>8, <1>9, <1>10 DEF CollectionNext

LEMMA InterpretationJobs ==
  ASSUME Inv, NEW c \in Callers, InterpretationNext(c)
  PROVE  Steps(c, InterpretationSteps)
<1>0. JobsOK /\ JobOK(job[c])
  BY DEF Inv, JobsOK
<1>a. ASSUME NEW j \in InterpretJob, j.at = "complete" => j.result \in Readings
      PROVE  JobOK(j) /\ j.at \in InterpretationSteps
  BY <1>a DEF JobOK, InterpretationSteps, InterpretJob, Attempting, Interpreting, Freezing
<1>1. ASSUME NEW k \in OperationKeys, NEW a \in AreaSet, Interpret(c, k, a) PROVE Steps(c, InterpretationSteps)
  <2>1. [at |-> "interpret", key |-> k, result |-> Nothing] \in InterpretJob
    BY DEF InterpretJob
  <2> QED BY <1>0, <1>a, <1>1, <2>1, SameJobs, OneJob DEF InterpretationSteps, Interpret, Called
<1>2. CASE Consult(c)
  <2>1. job[c] \in InterpretJob
    BY <1>0, <1>2 DEF Consult, At, JobOK, Interpreting
  <2>2. PICK r \in Readings \cup {Nothing} :
          Then(c, IF r = Nothing THEN "fail" ELSE "complete", r)
    BY <1>2 DEF Consult
  <2> DEFINE j == [job[c] EXCEPT !.at = IF r = Nothing THEN "fail" ELSE "complete",
                                 !.result = r]
  <2>3. j \in InterpretJob /\ (j.at = "complete" => j.result \in Readings)
    BY <2>1 DEF InterpretJob
  <2> QED BY <1>0, <1>a, <2>2, <2>3, OneJob DEF InterpretationSteps, Then, Goes
<1>3. CASE Complete(c)
  <2>1. job[c] \in InterpretJob
    BY <1>0, <1>3 DEF Complete, At, JobOK, Interpreting
  <2>2. [job[c] EXCEPT !.at = "fail", !.result = Nothing] \in InterpretJob
    BY <2>1 DEF InterpretJob
  <2>3. \/ job' = [job EXCEPT ![c] = NoJob]
        \/ job' = [job EXCEPT ![c] = [job[c] EXCEPT !.at = "fail", !.result = Nothing]]
    BY <1>3 DEF Complete, Then, Goes
  <2>4. [job[c] EXCEPT !.at = "fail", !.result = Nothing].at = "fail"
    BY <2>1 DEF InterpretJob
  <2> QED BY <1>0, <1>a, <2>2, <2>3, <2>4, Idle, OneJob DEF InterpretationSteps
<1>4. CASE Fail(c)
  BY <1>0, <1>4, Idle, OneJob DEF InterpretationSteps, Fail, Goes
<1> QED BY <1>1, <1>2, <1>3, <1>4 DEF InterpretationNext

\* A reconstruction is a package.
LEMMA ReconstructionType ==
  ASSUME TypeOK
  PROVE  Reconstruction \in [evidence : SUBSET (AreaSet \X Artifact),
                             readings : SUBSET (OperationKeys \X Readings)]
<1>1. {<<a, artifacts[a]>> : a \in {b \in DOMAIN artifacts : acquired[b] = "successful"}}
        \in SUBSET (AreaSet \X Artifact)
  BY DEF TypeOK
<1>2. {<<k, operation[k].result>> : k \in {l \in OperationKeys :
         operation[l] # Nothing /\ operation[l].status = "completed"}}
        \in SUBSET (OperationKeys \X Readings)
  BY DEF TypeOK
<1> QED BY <1>1, <1>2 DEF Reconstruction

LEMMA PackageJobs ==
  ASSUME Inv, NEW c \in Callers,
         \/ \E k \in FreezeKeys, q \in Purposes : Freeze(c, k, q)
         \/ Reconstruct(c)
         \/ PersistPackage(c)
         \/ Crash(c)
  PROVE  Steps(c, PackageSteps)
<1>0. JobsOK /\ JobOK(job[c]) /\ TypeOK /\ calls \in Nat
  BY DEF Inv, JobsOK
<1>a. ASSUME NEW j \in FreezeJob, j.at = "freeze" => j.package \in Package
      PROVE  JobOK(j) /\ j.at \in PackageSteps
  BY <1>a DEF JobOK, PackageSteps, FreezeJob, Attempting, Interpreting, Freezing
<1>1. ASSUME NEW k \in FreezeKeys, NEW q \in Purposes, Freeze(c, k, q) PROVE Steps(c, PackageSteps)
  <2>1. [at |-> "reconstruct", key |-> k, request |-> q, package |-> Nothing] \in FreezeJob
    BY DEF FreezeJob
  <2> QED BY <1>0, <1>a, <1>1, <2>1, SameJobs, OneJob DEF PackageSteps, Freeze, Called
<1>2. CASE Reconstruct(c)
  <2> DEFINE p == [id |-> calls, by |-> c, of |-> Reconstruction]
             j == [job[c] EXCEPT !.at = "freeze", !.package = p]
  <2>1. job[c] \in FreezeJob
    BY <1>0, <1>2 DEF Reconstruct, At, JobOK, Freezing
  <2>2. p \in Package
    BY <1>0, ReconstructionType DEF Package
  <2>3. j \in FreezeJob /\ j.package \in Package
    <3> HIDE DEF p
    <3> QED BY <2>1, <2>2 DEF FreezeJob
  <2>4. job' = [job EXCEPT ![c] = j]
    BY <1>2 DEF Reconstruct, Goes
  <2> QED BY <1>0, <1>a, <2>3, <2>4, OneJob
<1>3. CASE PersistPackage(c)
  BY <1>0, <1>3, Idle, OneJob DEF PackageSteps, PersistPackage, Goes
<1>4. CASE Crash(c)
  BY <1>0, <1>4, Idle, OneJob DEF PackageSteps, Crash, Goes
<1> QED BY <1>1, <1>2, <1>3, <1>4

------------------------------------------------------------------------------
(* Collections.                                                            *)

RowsStay == \A a \in DOMAIN artifacts : a \in DOMAIN artifacts' /\ artifacts'[a] = artifacts[a]
StoreStays == \A l \in DOMAIN stored : l \in DOMAIN stored' /\ stored'[l] = stored[l]

LEMMA KeptType ==
  ASSUME NEW j \in Attempt
  PROVE  DOMAIN j.kept \subseteq AreaSet /\ \A a \in DOMAIN j.kept : j.kept[a] \in Artifact
<1>1. PICK S \in SUBSET AreaSet : j.kept \in [S -> Artifact]
  BY DEF Attempt
<1> QED BY <1>1

LEMMA CommitChanges ==
  ASSUME TypeOK, NEW j \in Attempt, Commit(j)
  PROVE  /\ acquired' \in [AreaSet -> Outcomes \cup {Nothing}]
         /\ \A a \in AreaSet : acquired[a] # Nothing \/ j.outcomes[a] # <<>> =>
              acquired'[a] # Nothing
         /\ DOMAIN artifacts' = DOMAIN artifacts \cup DOMAIN j.kept
         /\ RowsStay
         /\ \A a \in DOMAIN artifacts' \ DOMAIN artifacts : artifacts'[a] = j.kept[a]
         /\ collection' = j.status /\ stored' = stored
<1>1. \A a \in AreaSet : /\ OutcomeIn(j, a) \in Outcomes \cup {Nothing}
                         /\ j.outcomes[a] # <<>> => OutcomeIn(j, a) \in Outcomes
  BY DEF OutcomeIn, Attempt
<1>2. acquired' \in [AreaSet -> Outcomes \cup {Nothing}]
  BY <1>1 DEF Commit, TypeOK
<1>3. \A a \in AreaSet : acquired[a] # Nothing \/ j.outcomes[a] # <<>> => acquired'[a] # Nothing
  BY <1>1, NothingAssumption DEF Commit
<1>4. /\ DOMAIN artifacts' = DOMAIN artifacts \cup DOMAIN j.kept
      /\ RowsStay
      /\ \A a \in DOMAIN artifacts' \ DOMAIN artifacts : artifacts'[a] = j.kept[a]
  BY DEF Commit, Insert, RowsStay
<1> QED BY <1>2, <1>3, <1>4 DEF Commit

LEMMA CollectionChanges ==
  ASSUME Inv, NEW c \in Callers, CollectionNext(c)
  PROVE  \/ /\ UNCHANGED <<acquired, artifacts>>
            /\ collection' \in {collection, "running"}
         \/ /\ At(c, "persist") /\ job[c] \in Attempt
            /\ Commit(job[c])
<1>1. CASE Persist(c) \/ PersistFails(c)
  <2>1. At(c, "persist") /\ job[c] \in Attempt
    BY <1>1 DEF Persist, PersistFails, At, Inv, JobsOK, JobOK, Attempting
  <2> QED BY <1>1, <2>1 DEF Persist, PersistFails, collectionVars
<1>2. CASE Collect(c) \/ AcquireFails(c) \/ AcquireUnstored(c) \/ Conclude(c)
             \/ Mismatch(c) \/ Recover(c) \/ Refused(c)
  BY <1>2 DEF Collect, AcquireFails, AcquireUnstored, Conclude, Mismatch, Recover, Refused,
              collectionVars
<1>3. CASE \E x \in Contents : AcquireStored(c, x)
  BY <1>3 DEF AcquireStored
<1> QED BY <1>1, <1>2, <1>3 DEF CollectionNext

\* Putting contents under the key that is chosen for them overwrites nothing else.
LEMMA PutKeeps ==
  ASSUME Inv, NEW c \in Callers, NEW x \in Contents, AcquireStored(c, x)
  PROVE  LET k == KeyFor(Head(job[c].areas), x)
         IN StoreStays /\ StoreOK' /\ k \in DOMAIN stored' /\ stored'[k] = x
<1> DEFINE a == Head(job[c].areas)
           k == KeyFor(a, x)
<1>1. a \in AreaSet
  BY AcquiredIsAttempt, <<>> \in Seq(Outcomes) DEF AcquireStored, Inv, JobsOK
<1>2. stored' = [l \in DOMAIN stored \cup {k} |-> IF l = k THEN x ELSE stored[l]]
  BY DEF AcquireStored, Put
<1>3. k = <<a>> \/ k = <<a, x>>
  BY DEF KeyFor
<1>4. k \in DOMAIN stored => stored[k] = x
  BY <1>1 DEF KeyFor, Inv, StoreOK
<1>5. StoreStays
  BY <1>2, <1>4 DEF StoreStays
<1>6. StoreOK'
  <2> SUFFICES ASSUME NEW b \in AreaSet, NEW y \in Contents, <<b, y>> \in DOMAIN stored'
               PROVE  stored'[<<b, y>>] = y
    BY DEF StoreOK
  <2>1. <<b, y>> # <<a>>
    OBVIOUS
  <2>2. CASE <<b, y>> = k
    <3>1. y = x
      BY <1>3, <2>1, <2>2
    <3> QED BY <1>2, <2>2, <3>1
  <2>3. CASE <<b, y>> # k
    BY <1>2, <2>3 DEF Inv, StoreOK
  <2> QED BY <2>2, <2>3
<1> QED BY <1>2, <1>5, <1>6

LEMMA StoreStep ==
  ASSUME Inv, NEW c \in Callers, CollectionNext(c)
  PROVE  StoreStays /\ StoreOK'
<1>1. CASE \E x \in Contents : AcquireStored(c, x)
  BY <1>1, PutKeeps
<1>2. CASE UNCHANGED stored
  BY <1>2 DEF StoreStays, StoreOK, Inv
<1> QED
  BY <1>1, <1>2 DEF CollectionNext, Collect, AcquireFails, AcquireUnstored, Conclude, Mismatch,
     Persist, PersistFails, Recover, Refused, Commit, collectionVars

\* An attempt that has ended an area is as honest as before.
LEMMA AcquiredHonest ==
  ASSUME Inv, NEW c \in Callers, Acquiring(c),
         NEW t \in Seq(Outcomes), t # <<>>, t[Len(t)] # "successful"
  PROVE  Honest(Acquired(c, t)) /\ Acquired(c, t).outcomes[Head(Areas)] # <<>>
<1> DEFINE a == Head(job[c].areas)
           g == Acquired(c, t)
<1>1. JobOK(job[c]) /\ Honest(job[c]) /\ job[c] \in Attempt
  BY DEF Inv, JobsOK, JobOK, AttemptsHonest, Acquiring, At, Attempting
<1>2. /\ a \in AreaSet /\ g \in Attempt /\ g.at = "acquire" /\ g.kept = job[c].kept
      /\ g.areas = Tail(job[c].areas)
      /\ g.outcomes = [job[c].outcomes EXCEPT ![a] = @ \o t]
  BY <1>1, AcquiredIsAttempt
<1>3. /\ job[c].outcomes[a] \o t # <<>>
      /\ job[c].outcomes[a] \o t # <<"successful">>
  <2>1. job[c].outcomes[a] \in Seq(Outcomes)  BY <1>1, <1>2 DEF Attempt
  <2> QED  BY <2>1, Appended, NotSuccessful
<1>4. g.outcomes[Head(Areas)] # <<>>
  <2>1. CASE a = Head(Areas)
    BY <1>1, <1>2, <1>3, <2>1 DEF Attempt
  <2>2. CASE a # Head(Areas)
    <3>1. job[c].areas # Areas
      BY <2>2
    <3>2. job[c].outcomes[Head(Areas)] # <<>>
      BY <1>1, <3>1 DEF Honest
    <3> QED BY <1>1, <1>2, <2>2, <3>2, HeadArea DEF Attempt
  <2> QED BY <2>1, <2>2
<1>5. \A b \in AreaSet : g.outcomes[b] = <<"successful">> => b \in DOMAIN g.kept
  BY <1>1, <1>2, <1>3 DEF Honest, Attempt
<1>6. Honest(g)
  <2> HIDE DEF g
  <2> QED BY <1>2, <1>4, <1>5 DEF Honest
<1> QED BY <1>4, <1>6

\* The bytes are in the store after the step.
Stored(m) == m.key \in DOMAIN stored' /\ stored'[m.key] = m.content

LEMMA AttemptStep ==
  ASSUME Inv, NEW c \in Callers, CollectionNext(c), Attempting(job'[c]), StoreStays
  PROVE  Honest(job'[c]) /\ \A a \in DOMAIN job'[c].kept : Stored(job'[c].kept[a])
<1>0. /\ JobsOK /\ JobOK(job[c])
      /\ \A j : job' = [job EXCEPT ![c] = j] => job'[c] = j
      /\ \A m : Backed(m) => Stored(m)
  BY DEF Inv, JobsOK, Backed, Stored, StoreStays
<1>a. /\ <<"failed">> \in Seq(Outcomes) /\ <<"failed">> # <<>>
      /\ <<"failed">>[Len(<<"failed">>)] # "successful"
  BY DEF Outcomes
<1>b. /\ <<"successful", "failed">> \in Seq(Outcomes) /\ <<"successful", "failed">> # <<>>
      /\ <<"successful", "failed">>[Len(<<"successful", "failed">>)] # "successful"
  BY DEF Outcomes
<1>c. /\ <<"inconclusive">> \in Seq(Outcomes) /\ <<"inconclusive">> # <<>>
      /\ <<"inconclusive">>[Len(<<"inconclusive">>)] # "successful"
  BY DEF Outcomes
<1>d. Attempting(job[c]) =>
        Honest(job[c]) /\ \A a \in DOMAIN job[c].kept : Stored(job[c].kept[a])
  BY <1>0 DEF Inv, AttemptsHonest, KeptBacked
<1>e. NewGraph.kept = NoArtifacts /\ DOMAIN NoArtifacts = {} /\ NewGraph.areas = Areas
      /\ NewGraph.at = "acquire" /\ \A a \in AreaSet : NewGraph.outcomes[a] = <<>>
  BY DEF NewGraph, NoArtifacts
<1>f. ASSUME NEW t \in Seq(Outcomes), t # <<>>, t[Len(t)] # "successful",
             Acquiring(c), job'[c] = Acquired(c, t)
      PROVE  Honest(job'[c]) /\ \A a \in DOMAIN job'[c].kept : Stored(job'[c].kept[a])
  <2>1. Attempting(job[c])
    BY <1>f DEF Acquiring, At, Attempting
  <2>2. Acquired(c, t).kept = job[c].kept
    BY <1>0, <1>f, AcquiredIsAttempt
  <2> QED BY <1>d, <1>f, <2>1, <2>2, AcquiredHonest
<1>1. CASE Collect(c)
  <2>1. Honest(NewGraph)
    BY <1>e DEF Honest
  <2>2. job'[c] = NewGraph
    BY <1>0, <1>1, Idle DEF Collect, Called, Attempting
  <2> QED BY <1>e, <2>1, <2>2
<1>2. CASE AcquireFails(c)
  BY <1>0, <1>a, <1>f, <1>2 DEF AcquireFails, Goes
<1>3. ASSUME NEW x \in Contents, AcquireStored(c, x)
      PROVE  Honest(job'[c]) /\ \A a \in DOMAIN job'[c].kept : Stored(job'[c].kept[a])
  <2> DEFINE a == Head(job[c].areas)
             g == Acquired(c, <<"successful">>)
             m == [key |-> KeyFor(a, x), content |-> x]
             kept == [b \in DOMAIN g.kept \cup {a} |-> IF b = a THEN m ELSE g.kept[b]]
  <2>1. <<"successful">> \in Seq(Outcomes) /\ <<"successful">> # <<>>
    BY DEF Outcomes
  <2>2. /\ a \in AreaSet /\ g \in Attempt /\ g.at = "acquire" /\ g.kept = job[c].kept
        /\ g.outcomes = [job[c].outcomes EXCEPT ![a] = @ \o <<"successful">>]
    BY <1>0, <1>3, <2>1, AcquiredIsAttempt DEF AcquireStored
  <2>3. job[c] \in Attempt /\ Attempting(job[c])
    BY <1>0, <1>3 DEF AcquireStored, Acquiring, At, JobOK, Attempting
  <2>4. job'[c] = [g EXCEPT !.kept = kept]
    BY <1>0, <1>3 DEF AcquireStored, Goes
  <2>5. /\ job'[c].at = "acquire" /\ job'[c].kept = kept /\ job'[c].outcomes = g.outcomes
    <3> HIDE DEF g, kept
    <3> QED BY <2>2, <2>4 DEF Attempt
  <2>6. Stored(m)
    BY <1>3, PutKeeps DEF Stored
  <2>7. DOMAIN kept = DOMAIN job[c].kept \cup {a}
        /\ \A b \in DOMAIN kept : kept[b] = IF b = a THEN m ELSE job[c].kept[b]
    BY <2>2
  <2>8. \A b \in DOMAIN kept : Stored(kept[b])
    <3> HIDE DEF kept, m
    <3> QED BY <1>d, <2>3, <2>6, <2>7
  <2>9. g.outcomes[Head(Areas)] # <<>>
    <3>1. CASE a = Head(Areas)
      BY <2>1, <2>2, <2>3, <3>1, Appended DEF Attempt
    <3>2. CASE a # Head(Areas)
      BY <1>d, <2>2, <2>3, <3>2, HeadArea DEF Attempt, Honest
    <3> QED BY <3>1, <3>2
  <2>10. \A b \in AreaSet : g.outcomes[b] = <<"successful">> => b \in DOMAIN kept
    BY <1>d, <2>2, <2>3, <2>7 DEF Attempt, Honest
  <2> HIDE DEF g, kept
  <2> QED BY <2>5, <2>8, <2>9, <2>10 DEF Honest
<1>4. CASE AcquireUnstored(c)
  BY <1>0, <1>a, <1>b, <1>f, <1>4 DEF AcquireUnstored, Goes
<1>5. CASE Conclude(c)
  <2>1. job[c] \in Attempt /\ Attempting(job[c]) /\ job[c].areas # Areas
    BY <1>0, <1>5, HeadArea DEF Conclude, At, JobOK, Attempting
  <2>2. job'[c] = [job[c] EXCEPT !.at = "persist", !.status = StatusOf(job[c])]
    <3>1. \/ job' = [job EXCEPT ![c] = [job[c] EXCEPT !.at = "persist", !.status = StatusOf(job[c])]]
          \/ job' = [job EXCEPT ![c] = [at |-> "refused"]]
      BY <1>5 DEF Conclude, Goes
    <3> QED  BY <1>0, <3>1 DEF Attempting
  <2>3. /\ job'[c].kept = job[c].kept /\ job'[c].outcomes = job[c].outcomes
        /\ job'[c].status = StatusOf(job[c])
    BY <2>1, <2>2 DEF Attempt
  <2>4. Successful(job[c]) \subseteq DOMAIN job[c].kept
    BY <1>d, <2>1, ApiAssumption DEF Successful, Honest
  <2>5. /\ StatusOf(job[c]) \in Final
        /\ StatusOf(job[c]) = "successful" => Successful(job[c]) = ApiAreas
        /\ StatusOf(job[c]) = "partial" => Successful(job[c]) # {}
    BY DEF StatusOf, Final
  <2>6. Successful(job[c]) \subseteq ApiAreas
    BY DEF Successful
  <2> QED BY <1>d, <2>1, <2>3, <2>4, <2>5, <2>6 DEF Honest
<1>6. CASE Mismatch(c)
  <2> DEFINE g == Acquired(c, <<"inconclusive">>)
  <2>1. Acquiring(c) /\ Attempting(job[c])
    BY <1>6, HeadArea DEF Mismatch, Acquiring, At, Attempting
  <2>2. Honest(g) /\ g.outcomes[Head(Areas)] # <<>> /\ g \in Attempt /\ g.kept = job[c].kept
    BY <1>0, <1>c, <2>1, AcquiredHonest, AcquiredIsAttempt
  <2>3. job'[c] = [g EXCEPT !.at = "persist", !.status = "inconclusive"]
    BY <1>0, <1>6 DEF Mismatch, Goes
  <2> HIDE DEF g
  <2>4. /\ job'[c].kept = g.kept /\ job'[c].outcomes = g.outcomes
        /\ job'[c].status = "inconclusive"
    BY <2>2, <2>3 DEF Attempt
  <2> QED BY <1>d, <2>1, <2>2, <2>4 DEF Honest, Final
<1>7. CASE Persist(c) \/ PersistFails(c) \/ Refused(c)
  BY <1>0, <1>7, Idle DEF Persist, PersistFails, Refused, Goes, Attempting
<1>8. CASE Recover(c)
  <2> DEFINE g == [NewGraph EXCEPT !.areas = Tail(@),
                     !.outcomes[Head(Areas)] = <<"inconclusive", "failed">>]
  <2>1. job'[c] = g
    BY <1>0, <1>8, Idle DEF Recover, Goes, Attempting
  <2>2. /\ g.kept = NoArtifacts /\ g.at = "acquire"
        /\ g.outcomes[Head(Areas)] = <<"inconclusive", "failed">>
        /\ \A a \in AreaSet : g.outcomes[a] \in {<<>>, <<"inconclusive", "failed">>}
    BY <1>e, HeadArea DEF NewGraph
  <2>3. <<"inconclusive", "failed">> # <<>> /\ <<"inconclusive", "failed">> # <<"successful">>
    OBVIOUS
  <2> HIDE DEF g
  <2>4. Honest(g)
    BY <2>2, <2>3 DEF Honest
  <2> QED BY <1>e, <2>1, <2>2, <2>4
<1> QED BY <1>1, <1>2, <1>3, <1>4, <1>5, <1>6, <1>7, <1>8 DEF CollectionNext

\* What a package shows is recorded after the step.
StillHolds(p) ==
  /\ \A m \in p.of.evidence : m[1] \in DOMAIN artifacts' /\ artifacts'[m[1]] = m[2]
  /\ \A m \in p.of.readings : /\ operation'[m[1]] # Nothing
                              /\ operation'[m[1]].status = "completed"
                              /\ operation'[m[1]].result = m[2]

\* Rows and store only grow, so what is backed or shown by a package stays so.
LEMMA HoldsOn ==
  ASSUME RowsStay, NEW p,
         \A k \in OperationKeys : operation[k] # Nothing /\ operation[k].status = "completed" =>
           operation'[k] = operation[k],
         p \in Package, Holds(p)
  PROVE  StillHolds(p)
BY DEF Holds, StillHolds, RowsStay, Package

LEMMA CollectionCalls ==
  ASSUME calls \in Nat, NEW c \in Callers, CollectionNext(c)
  PROVE  calls' \in Nat
BY DEF CollectionNext, Collect, Called, AcquireFails, AcquireStored, AcquireUnstored, Conclude,
   Mismatch, Persist, PersistFails, Recover, Refused, Goes

LEMMA CollectionRows ==
  ASSUME Inv, NEW c \in Callers, CollectionNext(c)
  PROVE  /\ RowsStay /\ ArtifactsBacked' /\ StatusHasEvidence'
         /\ collection' \in Final \cup {"running", Nothing}
         /\ acquired' \in [AreaSet -> Outcomes \cup {Nothing}]
         /\ DOMAIN artifacts' \subseteq AreaSet
         /\ \A a \in DOMAIN artifacts' : artifacts'[a] \in Artifact
<1>1. StoreStays
  BY StoreStep
<1>2. CASE UNCHANGED <<acquired, artifacts>> /\ collection' \in {collection, "running"}
  <2>1. RowsStay
    BY <1>2 DEF RowsStay
  <2>2. ArtifactsBacked'
    BY <1>1, <1>2 DEF Inv, ArtifactsBacked, StoreStays
  <2>3. StatusHasEvidence'
    BY <1>2 DEF Inv, StatusHasEvidence, Final
  <2> QED BY <1>2, <2>1, <2>2, <2>3 DEF Inv, TypeOK
<1>3. CASE At(c, "persist") /\ job[c] \in Attempt /\ Commit(job[c])
  <2>1. /\ acquired' \in [AreaSet -> Outcomes \cup {Nothing}]
        /\ \A a \in AreaSet : acquired[a] # Nothing \/ job[c].outcomes[a] # <<>> =>
             acquired'[a] # Nothing
        /\ DOMAIN artifacts' = DOMAIN artifacts \cup DOMAIN job[c].kept
        /\ RowsStay
        /\ \A a \in DOMAIN artifacts' \ DOMAIN artifacts : artifacts'[a] = job[c].kept[a]
        /\ collection' = job[c].status
    BY <1>3, CommitChanges DEF Inv
  <2>2. Attempting(job[c]) /\ Honest(job[c])
    BY <1>3 DEF At, Attempting, Inv, AttemptsHonest
  <2>3. /\ DOMAIN job[c].kept \subseteq AreaSet
        /\ \A a \in DOMAIN job[c].kept : job[c].kept[a] \in Artifact
    BY <1>3, KeptType
  <2>4. ArtifactsBacked'
    <3> SUFFICES ASSUME NEW a \in DOMAIN artifacts'
                 PROVE  artifacts'[a].key \in DOMAIN stored'
                        /\ stored'[artifacts'[a].key] = artifacts'[a].content
      BY DEF ArtifactsBacked
    <3>1. CASE a \in DOMAIN artifacts
      BY <1>1, <2>1, <3>1 DEF Inv, ArtifactsBacked, StoreStays, RowsStay
    <3>2. CASE a \notin DOMAIN artifacts
      BY <1>1, <2>1, <2>2, <3>2 DEF Inv, KeptBacked, Backed, StoreStays
    <3> QED BY <3>1, <3>2
  <2>5. /\ job[c].status \in Final
        /\ job[c].outcomes[Head(Areas)] # <<>>
        /\ job[c].status = "successful" => ApiAreas \subseteq DOMAIN job[c].kept
        /\ job[c].status = "partial" => ApiAreas \cap DOMAIN job[c].kept # {}
    BY <1>3, <2>2 DEF At, Honest
  <2>6. StatusHasEvidence'
    BY <2>1, <2>5, HeadArea DEF StatusHasEvidence
  <2>7. \A a \in DOMAIN artifacts' : artifacts'[a] \in Artifact
    BY <2>1, <2>3 DEF Inv, TypeOK, RowsStay
  <2> QED BY <2>1, <2>3, <2>4, <2>5, <2>6, <2>7 DEF Inv, TypeOK
<1> QED BY <1>2, <1>3, CollectionChanges

LEMMA CollectionPreserves ==
  ASSUME Inv, NEW c \in Callers, CollectionNext(c), UNCHANGED <<interpretationVars, packageVars>>
  PROVE  Inv'
<1>1. Steps(c, CollectionSteps)
  BY CollectionJobs
<1>2. StoreStays /\ StoreOK'
  BY StoreStep
<1>3. /\ RowsStay /\ ArtifactsBacked' /\ StatusHasEvidence'
      /\ collection' \in Final \cup {"running", Nothing}
      /\ acquired' \in [AreaSet -> Outcomes \cup {Nothing}]
      /\ DOMAIN artifacts' \subseteq AreaSet
      /\ \A a \in DOMAIN artifacts' : artifacts'[a] \in Artifact
  BY CollectionRows
<1>4. TypeOK'
  BY <1>3 DEF Inv, TypeOK, interpretationVars, packageVars
<1>5. AttemptsHonest' /\ KeptBacked'
  <2> SUFFICES ASSUME NEW d \in Callers, Attempting(job'[d])
               PROVE  Honest(job'[d]) /\ \A a \in DOMAIN job'[d].kept : Stored(job'[d].kept[a])
    BY DEF AttemptsHonest, KeptBacked, Backed, Stored
  <2>1. CASE d = c
    BY <1>2, <2>1, AttemptStep
  <2>2. CASE d # c
    BY <1>1, <1>2, <2>2 DEF Steps, Inv, AttemptsHonest, KeptBacked, Backed, Stored, StoreStays
  <2> QED BY <2>1, <2>2
<1>6. ClaimsOnce'
  BY <1>1 DEF Steps, CollectionSteps, Inv, ClaimsOnce, Claimed, Interpreting, ProviderAskedOnce,
     interpretationVars
<1>7. AllHold'
  <2>1. \A p \in Package : Holds(p) => StillHolds(p)
    BY <1>3, HoldsOn DEF interpretationVars
  <2>2. \A k \in FreezeKeys : packages'[k] # Nothing => StillHolds(packages'[k].result)
    BY <2>1 DEF Inv, AllHold, TypeOK, PackageRow, packageVars
  <2>3. \A d \in Callers : job'[d].at = "freeze" => StillHolds(job'[d].package)
    BY <1>1, <2>1 DEF Steps, CollectionSteps, Inv, AllHold, JobsOK, JobOK
  <2> QED BY <2>2, <2>3 DEF AllHold, Holds, StillHolds
<1>8. calls' \in Nat
  BY CollectionCalls DEF Inv
<1> QED BY <1>1, <1>2, <1>3, <1>4, <1>5, <1>6, <1>7, <1>8 DEF Inv, Steps

------------------------------------------------------------------------------
(* Interpretations.                                                        *)

\* Operations stay, with their request; a completed one does not change.
OperationsStay ==
  \A k \in OperationKeys : operation[k] # Nothing =>
    /\ operation'[k] # Nothing
    /\ operation'[k].request = operation[k].request
    /\ operation[k].status = "completed" => operation'[k] = operation[k]

OperationsTyped ==
  /\ operation' \in [OperationKeys -> OperationRow \cup {Nothing}]
  /\ \A k \in OperationKeys : operation'[k] # Nothing =>
       (operation'[k].status = "completed" <=> operation'[k].result \in Readings)

LEMMA SettleChanges ==
  ASSUME TypeOK, NEW k \in OperationKeys, operation[k] # Nothing, NEW status, NEW r,
         (status = "completed" /\ r \in Readings) \/ (status = "failed" /\ r = Nothing),
         Settle(k, status, r)
  PROVE  /\ OperationsTyped /\ OperationsStay
         /\ \A l \in OperationKeys : operation[l] = Nothing => operation'[l] = Nothing
<1> DEFINE row == IF operation[k].status = "in_progress"
                  THEN [operation[k] EXCEPT !.status = status, !.result = r] ELSE operation[k]
<1>1. operation[k] \in OperationRow
  BY DEF TypeOK
<1>2. row \in OperationRow /\ row.request = operation[k].request
  BY <1>1 DEF OperationRow
<1>3. row.status = "completed" <=> row.result \in Readings
  BY <1>1, NoReadingAssumption DEF OperationRow, TypeOK
<1>4. operation[k].status = "completed" => row = operation[k]
  OBVIOUS
<1>5. operation' = [operation EXCEPT ![k] = row]
  BY DEF Settle
<1>6. row # Nothing
  BY <1>2, NoReadingAssumption
<1> HIDE DEF row
<1> QED BY <1>1, <1>2, <1>3, <1>4, <1>5, <1>6 DEF TypeOK, OperationsTyped, OperationsStay

LEMMA SameOperations ==
  ASSUME TypeOK, UNCHANGED operation
  PROVE  OperationsTyped /\ OperationsStay
BY DEF TypeOK, OperationsTyped, OperationsStay

\* What a step of an interpretation does to the operations and the provider calls.
LEMMA InterpretationRows ==
  ASSUME Inv, NEW c \in Callers, InterpretationNext(c)
  PROVE  /\ OperationsTyped /\ OperationsStay
         /\ consulted' \in [OperationKeys -> Nat]
         /\ ClaimsOnce'
<1>0. /\ TypeOK /\ ClaimsOnce /\ JobsOK /\ JobOK(job[c])
      /\ \A j : job' = [job EXCEPT ![c] = j] => job'[c] = j
      /\ JobsOK' /\ \A d \in Callers \ {c} : job'[d] = job[d]
  BY InterpretationJobs DEF Inv, JobsOK, Steps
<1>1. ASSUME NEW k \in OperationKeys, NEW a \in AreaSet, Interpret(c, k, a), Claim(k)
      PROVE  OperationsTyped /\ OperationsStay /\ consulted' \in [OperationKeys -> Nat] /\ ClaimsOnce'
  <2> DEFINE row == [request |-> a, status |-> "in_progress", result |-> Nothing]
  <2>1. row \in OperationRow /\ row # Nothing
        /\ row.status # "completed" /\ row.result \notin Readings
    BY NoReadingAssumption DEF OperationRow
  <2>2. operation' = [operation EXCEPT ![k] = row] /\ consulted' = consulted
    BY <1>1 DEF Interpret
  <2>3. job'[c] = [at |-> "interpret", key |-> k, result |-> Nothing]
    BY <1>0, <1>1 DEF Interpret
  <2> HIDE DEF row
  <2>4. operation[k] = Nothing /\ consulted[k] = 0
    BY <1>0, <1>1 DEF Claim, ClaimsOnce
  <2>5. OperationsTyped /\ OperationsStay
    BY <1>0, <2>1, <2>2, <2>4 DEF TypeOK, OperationsTyped, OperationsStay
  <2>6. \A d \in Callers \ {c} : Interpreting(job[d]) => job[d].key # k
    BY <1>0, <2>4 DEF ClaimsOnce, Claimed
  <2>7. \A d \in Callers : Interpreting(job[d]) => job[d].key \in OperationKeys
    BY <1>0 DEF JobsOK, JobOK, InterpretJob
  <2>8. ClaimsOnce'
    <3>1. \A l \in OperationKeys : operation'[l] = Nothing => consulted'[l] = 0
      BY <1>0, <2>1, <2>2 DEF ClaimsOnce, TypeOK
    <3>2. \A d \in Callers : Interpreting(job'[d]) => operation'[job'[d].key] # Nothing
      BY <1>0, <2>1, <2>2, <2>3, <2>6, <2>7 DEF ClaimsOnce, Claimed, TypeOK
    <3>3. \A d \in Callers : job'[d].at = "interpret" => consulted'[job'[d].key] = 0
      BY <1>0, <2>2, <2>3, <2>4 DEF ClaimsOnce
    <3>4. \A d, e \in Callers : job'[d].at = "interpret" /\ job'[e].at = "interpret"
                                /\ job'[d].key = job'[e].key => d = e
      BY <1>0, <2>3, <2>6 DEF ClaimsOnce, Interpreting
    <3> QED BY <1>0, <2>2, <3>1, <3>2, <3>3, <3>4 DEF ClaimsOnce, Claimed, ProviderAskedOnce
  <2> QED BY <1>0, <2>2, <2>5, <2>8 DEF TypeOK
<1>2. ASSUME OperationsStay, UNCHANGED consulted,
             \A l \in OperationKeys : operation[l] = Nothing => operation'[l] = Nothing,
             job'[c].at # "interpret",
             Interpreting(job'[c]) => Interpreting(job[c]) /\ job'[c].key = job[c].key
      PROVE  ClaimsOnce'
  <2>1. \A d \in Callers : Interpreting(job[d]) => job[d].key \in OperationKeys
    BY <1>0 DEF JobsOK, JobOK, InterpretJob
  <2>2. \A d \in Callers : Interpreting(job'[d]) => operation'[job'[d].key] # Nothing
    BY <1>0, <1>2, <2>1 DEF ClaimsOnce, Claimed, OperationsStay
  <2>3. \A d \in Callers : job'[d].at = "interpret" => job'[d] = job[d]
    BY <1>0, <1>2
  <2>4. \A l \in OperationKeys : operation'[l] = Nothing => consulted'[l] = 0
    BY <1>0, <1>2 DEF ClaimsOnce, OperationsStay
  <2> QED BY <1>0, <1>2, <2>2, <2>3, <2>4 DEF ClaimsOnce, Claimed, ProviderAskedOnce
<1>3. ASSUME NEW k \in OperationKeys, NEW a \in AreaSet, Interpret(c, k, a), ~Claim(k)
      PROVE  OperationsTyped /\ OperationsStay /\ consulted' \in [OperationKeys -> Nat] /\ ClaimsOnce'
  <2>1. UNCHANGED <<operation, consulted, job>> /\ job[c] = NoJob
    BY <1>3 DEF Interpret, Called
  <2> QED BY <1>0, <1>2, <2>1, SameOperations, Idle DEF OperationsStay, Interpreting, TypeOK
<1>4. CASE Consult(c)
  <2> DEFINE k == job[c].key
  <2>1. job[c] \in InterpretJob /\ job[c].at = "interpret" /\ k \in OperationKeys
    BY <1>0, <1>4 DEF Consult, At, JobOK, Interpreting, InterpretJob
  <2>2. /\ UNCHANGED operation
        /\ job'[c].at \in {"complete", "fail"} /\ job'[c].key = k
    <3>1. PICK s \in {"complete", "fail"}, r \in Readings \cup {Nothing} :
            job' = [job EXCEPT ![c] = [job[c] EXCEPT !.at = s, !.result = r]]
      BY <1>4 DEF Consult, Then, Goes
    <3>2. job'[c] = [job[c] EXCEPT !.at = s, !.result = r]  BY <1>0, <3>1
    <3>3. job'[c].at = s /\ job'[c].key = k  BY ONLY <2>1, <3>2 DEF InterpretJob
    <3> QED BY <1>4, <3>1, <3>3 DEF Consult
  <2>3. consulted' = [consulted EXCEPT ![k] = @ + 1] \/ UNCHANGED consulted
    BY <1>4 DEF Consult
  <2>4. consulted[k] = 0 /\ operation[k] # Nothing
    BY <1>0, <2>1 DEF ClaimsOnce, Claimed, Interpreting
  <2>5. \A d \in Callers \ {c} : job[d].at = "interpret" => job[d].key # k
    BY <1>0, <2>1 DEF ClaimsOnce
  <2>6. /\ consulted' \in [OperationKeys -> Nat]
        /\ consulted'[k] <= 1
        /\ \A l \in OperationKeys \ {k} : consulted'[l] = consulted[l]
    BY <1>0, <2>1, <2>3, <2>4 DEF TypeOK
  <2>7. \A d \in Callers : Interpreting(job[d]) => job[d].key \in OperationKeys
    BY <1>0 DEF JobsOK, JobOK, InterpretJob
  <2>8. ClaimsOnce'
    <3>1. \A l \in OperationKeys : operation'[l] = Nothing => consulted'[l] = 0
      BY <1>0, <2>2, <2>4, <2>6 DEF ClaimsOnce
    <3>2. \A d \in Callers : Interpreting(job'[d]) => operation'[job'[d].key] # Nothing
      BY <1>0, <2>2, <2>4 DEF ClaimsOnce, Claimed
    <3>3. \A d \in Callers : job'[d].at = "interpret" => d # c /\ job'[d] = job[d]
      BY <1>0, <2>2
    <3>4. \A d \in Callers : job'[d].at = "interpret" => consulted'[job'[d].key] = 0
      BY <1>0, <2>5, <2>6, <2>7, <3>3 DEF ClaimsOnce, Interpreting
    <3>5. ProviderAskedOnce'
      BY <1>0, <2>6 DEF ClaimsOnce, ProviderAskedOnce
    <3> QED BY <1>0, <3>1, <3>2, <3>3, <3>4, <3>5 DEF ClaimsOnce, Claimed
  <2> QED BY <1>0, <2>2, <2>6, <2>8, SameOperations
<1>5. CASE Complete(c)
  <2>1. job[c] \in InterpretJob /\ job[c].at = "complete" /\ job[c].result \in Readings
    BY <1>0, <1>5 DEF Complete, At, JobOK, Interpreting
  <2>2. job[c].key \in OperationKeys /\ operation[job[c].key] # Nothing
    BY <1>0, <2>1 DEF InterpretJob, ClaimsOnce, Claimed, Interpreting
  <2>3. /\ UNCHANGED consulted
        /\ UNCHANGED operation \/ Settle(job[c].key, "completed", job[c].result)
    BY <1>5 DEF Complete
  <2>4. job'[c] = NoJob \/ (job'[c].at = "fail" /\ job'[c].key = job[c].key)
    BY <1>0, <1>5, <2>1 DEF Complete, Then, Goes, InterpretJob
  <2>5. /\ OperationsTyped /\ OperationsStay
        /\ \A l \in OperationKeys : operation[l] = Nothing => operation'[l] = Nothing
    BY <1>0, <2>1, <2>2, <2>3, SettleChanges, SameOperations
  <2> QED BY <1>0, <1>2, <2>1, <2>3, <2>4, <2>5, Idle DEF Interpreting, TypeOK
<1>6. CASE Fail(c)
  <2>1. job[c] \in InterpretJob /\ job[c].at = "fail"
    BY <1>0, <1>6 DEF Fail, At, JobOK, Interpreting
  <2>2. job[c].key \in OperationKeys /\ operation[job[c].key] # Nothing
    BY <1>0, <2>1 DEF InterpretJob, ClaimsOnce, Claimed, Interpreting
  <2>3. /\ UNCHANGED consulted /\ job'[c] = NoJob
        /\ UNCHANGED operation \/ Settle(job[c].key, "failed", Nothing)
    BY <1>0, <1>6 DEF Fail, Goes
  <2>4. /\ OperationsTyped /\ OperationsStay
        /\ \A l \in OperationKeys : operation[l] = Nothing => operation'[l] = Nothing
    BY <1>0, <2>2, <2>3, SettleChanges, SameOperations
  <2> QED BY <1>0, <1>2, <2>3, <2>4, Idle DEF Interpreting, TypeOK
<1> QED BY <1>1, <1>3, <1>4, <1>5, <1>6 DEF InterpretationNext

LEMMA InterpretationPreserves ==
  ASSUME Inv, NEW c \in Callers, InterpretationNext(c), UNCHANGED packageVars
  PROVE  Inv'
<1>1. Steps(c, InterpretationSteps)
  BY InterpretationJobs
<1>2. /\ OperationsTyped /\ OperationsStay /\ ClaimsOnce'
      /\ consulted' \in [OperationKeys -> Nat]
  BY InterpretationRows
<1>3. UNCHANGED collectionVars
  BY DEF InterpretationNext, Interpret, Consult, Complete, Fail
<1>4. calls' \in Nat
  <2>1. calls \in Nat
    BY DEF Inv
  <2>2. (\E k \in OperationKeys, a \in AreaSet : Interpret(c, k, a)) => calls' = calls + 1
    BY DEF Interpret, Called
  <2>3. Consult(c) => calls' = calls
    BY DEF Consult, Then, Goes
  <2>4. Complete(c) => calls' = calls
    BY DEF Complete, Then, Goes
  <2>5. Fail(c) => calls' = calls
    BY DEF Fail, Goes
  <2> QED BY <2>1, <2>2, <2>3, <2>4, <2>5 DEF InterpretationNext
<1>5. TypeOK'
  BY <1>2, <1>3 DEF Inv, TypeOK, OperationsTyped, collectionVars, packageVars
<1>6. AttemptsHonest' /\ KeptBacked'
  <2>1. \A d \in Callers : Attempting(job'[d]) => job'[d] = job[d]
    BY <1>1 DEF Steps, InterpretationSteps, Attempting
  <2> QED BY <1>3, <2>1 DEF Inv, AttemptsHonest, KeptBacked, Backed, collectionVars
<1>7. StoreOK' /\ ArtifactsBacked' /\ StatusHasEvidence'
  BY <1>3 DEF Inv, StoreOK, ArtifactsBacked, StatusHasEvidence, collectionVars
<1>8. AllHold'
  <2>1. RowsStay
    BY <1>3 DEF RowsStay, collectionVars
  <2>2. \A p \in Package : Holds(p) => StillHolds(p)
    BY <1>2, <2>1, HoldsOn DEF OperationsStay
  <2>3. \A k \in FreezeKeys : packages'[k] # Nothing => StillHolds(packages'[k].result)
    BY <2>2 DEF Inv, AllHold, TypeOK, PackageRow, packageVars
  <2>4. \A d \in Callers : job'[d].at = "freeze" => StillHolds(job'[d].package)
    BY <1>1, <2>2 DEF Steps, InterpretationSteps, Inv, AllHold, JobsOK, JobOK
  <2> QED BY <2>3, <2>4 DEF AllHold, Holds, StillHolds
<1> QED BY <1>1, <1>2, <1>4, <1>5, <1>6, <1>7, <1>8 DEF Inv, Steps

------------------------------------------------------------------------------
(* Packages.                                                               *)

LEMMA ReconstructionHolds ==
  ASSUME Inv, NEW p, p.of = Reconstruction
  PROVE  Holds(p)
BY DEF Holds, Reconstruction

LEMMA PackagesPreserve ==
  ASSUME Inv, NEW c \in Callers,
         \/ \E k \in FreezeKeys, q \in Purposes : Freeze(c, k, q)
         \/ Reconstruct(c)
         \/ PersistPackage(c)
         \/ Crash(c) /\ UNCHANGED <<collectionVars, interpretationVars, packageVars>>
  PROVE  Inv'
<1>1. Steps(c, PackageSteps)
  BY PackageJobs
<1>2. UNCHANGED <<collectionVars, interpretationVars>>
  BY DEF Freeze, Reconstruct, PersistPackage
<1>3. calls' \in Nat
  <2>1. calls \in Nat
    BY DEF Inv
  <2>2. (\E k \in FreezeKeys, q \in Purposes : Freeze(c, k, q)) => calls' = calls + 1
    BY DEF Freeze, Called
  <2>3. Reconstruct(c) => calls' = calls
    BY DEF Reconstruct, Goes
  <2>4. PersistPackage(c) => calls' = calls
    BY DEF PersistPackage, Goes
  <2>5. Crash(c) => calls' = calls
    BY DEF Crash, Goes
  <2> QED BY <2>1, <2>2, <2>3, <2>4, <2>5
<1>4. AttemptsHonest' /\ KeptBacked'
  <2>1. \A d \in Callers : Attempting(job'[d]) => job'[d] = job[d]
    BY <1>1 DEF Steps, PackageSteps, Attempting
  <2> QED BY <1>2, <2>1 DEF Inv, AttemptsHonest, KeptBacked, Backed, collectionVars
<1>5. StoreOK' /\ ArtifactsBacked' /\ StatusHasEvidence'
  BY <1>2 DEF Inv, StoreOK, ArtifactsBacked, StatusHasEvidence, collectionVars
<1>6. ClaimsOnce'
  BY <1>1, <1>2 DEF Steps, PackageSteps, Inv, ClaimsOnce, Claimed, Interpreting,
     ProviderAskedOnce, interpretationVars
<1>7. \A p : Holds(p) => StillHolds(p)
  BY <1>2 DEF Holds, StillHolds, collectionVars, interpretationVars
<1>8. JobOK(job[c]) /\ JobsOK /\ AllHold /\ TypeOK
  BY DEF Inv, JobsOK
<1>9. /\ packages' \in [FreezeKeys -> PackageRow \cup {Nothing}]
      /\ \A k \in FreezeKeys : packages'[k] # Nothing => Holds(packages'[k].result)
  <2>1. CASE UNCHANGED packages
    BY <1>8, <2>1 DEF AllHold, TypeOK
  <2>2. CASE At(c, "freeze")
             /\ packages' = [packages EXCEPT ![job[c].key] =
                              [request |-> job[c].request, result |-> job[c].package]]
    <3>1. /\ job[c] \in FreezeJob /\ job[c].package \in Package /\ Holds(job[c].package)
      BY <1>8, <2>2 DEF At, JobOK, Freezing, AllHold
    <3>2. [request |-> job[c].request, result |-> job[c].package] \in PackageRow
      BY <3>1 DEF FreezeJob, PackageRow
    <3> QED BY <1>8, <2>2, <3>1, <3>2 DEF AllHold, TypeOK, FreezeJob
  <2>3. UNCHANGED packages \/ PersistPackage(c)
    BY DEF Freeze, Reconstruct, packageVars
  <2> QED BY <2>1, <2>2, <2>3 DEF PersistPackage, packageVars
<1>10. TypeOK'
  BY <1>2, <1>8, <1>9 DEF TypeOK, collectionVars, interpretationVars
<1>11. \A d \in Callers : job'[d].at = "freeze" => Holds(job'[d].package)
  <2>1. \A d \in Callers \ {c} : job'[d].at = "freeze" => Holds(job'[d].package)
    BY <1>1, <1>8 DEF Steps, AllHold
  <2>2. ASSUME job'[c].at = "freeze" PROVE Holds(job'[c].package)
    <3> DEFINE p == [id |-> calls, by |-> c, of |-> Reconstruction]
    <3>1. \A j : job' = [job EXCEPT ![c] = j] => job'[c] = j
      BY <1>8 DEF JobsOK
    <3>2. CASE Reconstruct(c)
      <4>1. job[c] \in FreezeJob
        BY <1>8, <3>2 DEF Reconstruct, At, JobOK, Freezing
      <4>2. job'[c] = [job[c] EXCEPT !.at = "freeze", !.package = p]
        BY <3>1, <3>2 DEF Reconstruct, Goes
      <4>3. job'[c].package = p
        BY <4>1, <4>2 DEF FreezeJob
      <4>4. p.of = Reconstruction
        OBVIOUS
      <4> HIDE DEF p
      <4> QED BY <4>3, <4>4, ReconstructionHolds
    <3>3. CASE PersistPackage(c) \/ Crash(c)
      BY <2>2, <3>1, <3>3, Idle DEF PersistPackage, Crash, Goes
    <3>4. CASE \E k \in FreezeKeys, q \in Purposes : Freeze(c, k, q)
      BY <1>8, <2>2, <3>1, <3>4, Idle DEF Freeze, Called
    <3> QED BY <3>2, <3>3, <3>4
  <2> QED BY <2>1, <2>2
<1>12. AllHold'
  BY <1>7, <1>9, <1>11 DEF AllHold, Holds, StillHolds
<1> QED BY <1>1, <1>3, <1>4, <1>5, <1>6, <1>10, <1>12 DEF Inv, Steps

------------------------------------------------------------------------------
(* Theorems.                                                               *)

LEMMA InitInv == Init => Inv
<1> SUFFICES ASSUME Init PROVE Inv
  OBVIOUS
<1>1. JobsOK /\ \A c \in Callers : job[c].at = "none"
  BY InitJobs, Idle DEF Init, InitCalls
<1>2. TypeOK
  BY DEF Init, InitCollection, InitInterpretation, NoArtifacts, TypeOK
<1>3. StatusHasEvidence
  BY NothingAssumption DEF Init, InitCollection, StatusHasEvidence, Final
<1>4. AttemptsHonest /\ KeptBacked
  BY <1>1 DEF AttemptsHonest, KeptBacked, Attempting
<1>5. ClaimsOnce
  BY <1>1 DEF Init, InitInterpretation, ClaimsOnce, Interpreting, ProviderAskedOnce
<1>6. AllHold
  BY <1>1 DEF Init, AllHold
<1>7. StoreOK /\ ArtifactsBacked /\ calls \in Nat
  BY DEF Init, InitCalls, InitCollection, NoArtifacts, StoreOK, ArtifactsBacked
<1> QED BY <1>1, <1>2, <1>3, <1>4, <1>5, <1>6, <1>7 DEF Inv

LEMMA StepInv == Inv /\ [Next]_vars => Inv'
<1> SUFFICES ASSUME Inv, [Next]_vars PROVE Inv'
  OBVIOUS
<1>1. CASE Next
  BY <1>1, CollectionPreserves, InterpretationPreserves, PackagesPreserve DEF Next
<1>2. CASE UNCHANGED vars
  <2>1. UNCHANGED <<job, calls, collection, acquired, artifacts, stored, operation, consulted,
                    packages>>
    BY <1>2 DEF vars, collectionVars, interpretationVars, packageVars
  <2> QED
    BY <2>1 DEF Inv, TypeOK, JobsOK, AttemptsHonest, KeptBacked, Backed, StoreOK,
       ArtifactsBacked, StatusHasEvidence, ClaimsOnce, Claimed, ProviderAskedOnce, AllHold, Holds
<1> QED BY <1>1, <1>2

\* The inductive invariant of the platform: honest attempts, backed bytes,
\* claims made once and packages that hold, in every reachable state.
THEOREM PlatformInvariant == Spec => []Inv
BY InitInv, StepInv, PTL DEF Spec

\* Every variable keeps its type, for any number of callers, calls and keys.
THEOREM TypeCorrect == Spec => []TypeOK
<1>1. Inv => TypeOK
  BY DEF Inv
<1> QED BY <1>1, PlatformInvariant, PTL

\* The bytes that an artifact's row names are those it has the fingerprint of,
\* however attempts overlap and whatever the source answers each of them.
THEOREM EvidenceBacked == Spec => []ArtifactsBacked
<1>1. Inv => ArtifactsBacked
  BY DEF Inv
<1> QED BY <1>1, PlatformInvariant, PTL

\* A collection's status promises no more than the rows of all its attempts.
THEOREM StatusBacked == Spec => []StatusHasEvidence
<1>1. Inv => StatusHasEvidence
  BY DEF Inv
<1> QED BY <1>1, PlatformInvariant, PTL

\* The provider is asked at most once for an operation key.
THEOREM AskedOnce == Spec => []ProviderAskedOnce
<1>1. Inv => ProviderAskedOnce
  BY DEF Inv, ClaimsOnce
<1> QED BY <1>1, PlatformInvariant, PTL

\* What a package froze is there for good, as it was frozen.
THEOREM FrozenForGood == Spec => []PackagesHold
<1>1. Inv => PackagesHold
  BY DEF Inv, AllHold, Holds, PackagesHold
<1> QED BY <1>1, PlatformInvariant, PTL

------------------------------------------------------------------------------
(* The operation keys of R2 and A5b keep what KeyedOperation promises.     *)

\* What an operation's row has bound its key to.
Binding(row) ==
  IF row # Nothing /\ row.status = "completed"
  THEN [request |-> row.request, result |-> row.result] ELSE Nothing

LEMMA InterpretationStep ==
  Inv /\ [Next]_vars => [Interpretations!Next]_(Interpretations!kvars)
<1> DEFINE b == [k \in OperationKeys |-> Binding(operation[k])]
           Tells(k, a) ==
             /\ b'[k] # Nothing /\ b'[k].request = a
             /\ interpretations' = interpretations \cup
                  {[key |-> k, request |-> a, result |-> b'[k].result]}
           Binds(k, a) ==
             /\ b[k] = Nothing /\ b'[k] # Nothing /\ b'[k].request = a
             /\ \A l \in OperationKeys \ {k} : b'[l] = b[l]
             /\ Tells(k, a) \/ UNCHANGED interpretations
           Same == b' = b /\ UNCHANGED interpretations
<1> SUFFICES ASSUME Inv, [Next]_vars
             PROVE  \/ Same
                    \/ \E k \in OperationKeys, a \in AreaSet :
                         Binds(k, a) \/ (b' = b /\ Tells(k, a))
  BY DEF Binding, Interpretations!Next, Interpretations!kvars, Interpretations!Bind,
         Interpretations!Tell, Interpretations!Again
<1>0. /\ TypeOK /\ JobsOK /\ ClaimsOnce
      /\ \A k \in OperationKeys : operation[k] \in OperationRow \cup {Nothing}
  BY DEF Inv, TypeOK
<1>a. ASSUME UNCHANGED operation, UNCHANGED interpretations PROVE Same
  BY <1>a
<1>b. ASSUME \A k \in OperationKeys : Binding(operation'[k]) = Binding(operation[k])
      PROVE  b' = b
  BY <1>b
<1>c. ASSUME NEW k \in OperationKeys, operation[k] # Nothing, operation[k].status = "in_progress",
             NEW r \in Readings, Settle(k, "completed", r)
      PROVE  /\ operation[k].request \in AreaSet
             /\ b[k] = Nothing
             /\ b'[k].request = operation[k].request
             /\ b'[k].result = r
             /\ b'[k] # Nothing
             /\ \A l \in OperationKeys \ {k} : b'[l] = b[l]
  <2> DEFINE a == operation[k].request
  <2>1. operation[k] \in OperationRow
    BY <1>0, <1>c
  <2>2. operation' = [operation EXCEPT ![k] =
                       [operation[k] EXCEPT !.status = "completed", !.result = r]]
    BY <1>c DEF Settle
  <2> DEFINE row == [operation[k] EXCEPT !.status = "completed", !.result = r]
  <2>3. row \in OperationRow /\ row.request = a /\ row.status = "completed" /\ row.result = r
    BY <2>1 DEF OperationRow
  <2>4. operation'[k] = row /\ \A l \in OperationKeys \ {k} : operation'[l] = operation[l]
    BY <1>0, <2>2 DEF TypeOK
  <2> HIDE DEF row
  <2>5. row # Nothing
    BY <2>3, NoReadingAssumption
  <2>6. [request |-> a, result |-> r] # Nothing /\ a \in AreaSet
    BY <2>1, NoReadingAssumption DEF OperationRow, Interpretation
  <2>7. b[k] = Nothing
    BY <1>c DEF Binding
  <2>8. Binding(row) = [request |-> a, result |-> r]
    BY <2>3, <2>5 DEF Binding
  <2>9. b'[k] = Binding(operation'[k])
    BY DEF Binding
  <2>10. b'[k] = [request |-> a, result |-> r]
    BY <2>4, <2>8, <2>9
  <2>11. \A l \in OperationKeys \ {k} : b'[l] = b[l]
    BY <2>4 DEF Binding
  <2> QED BY <2>6, <2>7, <2>10, <2>11
<1>d. ASSUME NEW k \in OperationKeys, NEW status, NEW r, Settle(k, status, r),
             operation[k] # Nothing,
             operation[k].status # "in_progress" \/ (status = "failed" /\ r = Nothing)
      PROVE  b' = b
  <2>1. CASE operation[k].status # "in_progress"
    BY <1>0, <1>b, <1>d, <2>1 DEF Settle, TypeOK
  <2>2. CASE operation[k].status = "in_progress" /\ status = "failed"
    <3>1. operation' = [operation EXCEPT ![k] =
                         [operation[k] EXCEPT !.status = "failed", !.result = r]]
      BY <1>d, <2>2 DEF Settle
    <3>2. operation[k] \in OperationRow
      BY <1>0, <1>d
    <3>3. operation'[k].status = "failed"
      BY <1>0, <3>1, <3>2 DEF OperationRow, TypeOK
    <3>4. \A l \in OperationKeys \ {k} : operation'[l] = operation[l]
      BY <1>0, <3>1 DEF TypeOK
    <3>5. Binding(operation'[k]) = Nothing /\ Binding(operation[k]) = Nothing
      BY <2>2, <3>3 DEF Binding
    <3> QED BY <1>b, <3>4, <3>5
  <2> QED BY <1>d, <2>1, <2>2
<1>1. CASE UNCHANGED vars
  BY <1>1, <1>a DEF vars, interpretationVars
<1>2. ASSUME NEW c \in Callers,
             \/ CollectionNext(c) /\ UNCHANGED <<interpretationVars, packageVars>>
             \/ \E k \in FreezeKeys, q \in Purposes : Freeze(c, k, q)
             \/ Reconstruct(c)
             \/ PersistPackage(c)
             \/ Crash(c) /\ UNCHANGED <<collectionVars, interpretationVars, packageVars>>
      PROVE  Same
  BY <1>2, <1>a DEF interpretationVars, Freeze, Reconstruct, PersistPackage
<1>3. ASSUME NEW c \in Callers, NEW k \in OperationKeys, NEW a \in AreaSet, Interpret(c, k, a)
      PROVE  Same \/ (b' = b /\ Tells(k, a))
  <2>1. CASE Claim(k)
    <3> DEFINE row == [request |-> a, status |-> "in_progress", result |-> Nothing]
    <3>1. operation' = [operation EXCEPT ![k] = row] /\ UNCHANGED interpretations
      BY <1>3, <2>1 DEF Interpret
    <3>2. operation'[k] = row /\ \A l \in OperationKeys \ {k} : operation'[l] = operation[l]
      BY <1>0, <3>1 DEF TypeOK
    <3>3. Binding(row) = Nothing /\ Binding(operation[k]) = Nothing
      BY <2>1 DEF Binding, Claim
    <3> QED BY <1>b, <3>1, <3>2, <3>3
  <2>2. CASE ~Claim(k)
    <3>1. UNCHANGED operation
      BY <1>3, <2>2 DEF Interpret
    <3>2. CASE SameRequest(k, a) /\ operation[k].status = "completed"
      <4>1. b[k] = [request |-> a, result |-> operation[k].result]
        BY <2>2, <3>2 DEF Claim, SameRequest, Binding
      <4>2. operation[k].result \in Readings
        BY <1>0, <2>2, <3>2 DEF TypeOK, Claim
      <4>3. b[k] # Nothing
        BY <4>1, <4>2, NoReadingAssumption DEF Interpretation
      <4>4. Told(k, a, operation[k].result)
        BY <1>3, <2>2, <3>2 DEF Interpret
      <4> QED BY <3>1, <4>1, <4>3, <4>4 DEF Told
    <3>3. CASE ~(SameRequest(k, a) /\ operation[k].status = "completed")
      BY <1>3, <1>a, <2>2, <3>1, <3>3 DEF Interpret
    <3> QED BY <3>2, <3>3
  <2> QED BY <2>1, <2>2
<1>4. ASSUME NEW c \in Callers, Consult(c) PROVE Same
  BY <1>4, <1>a DEF Consult
<1>5. ASSUME NEW c \in Callers, Complete(c)
      PROVE  Same \/ \E k \in OperationKeys, a \in AreaSet : Binds(k, a)
  <2> DEFINE k == job[c].key
             r == job[c].result
  <2>1. k \in OperationKeys /\ r \in Readings /\ operation[k] # Nothing
    BY <1>0, <1>5 DEF Complete, At, JobsOK, JobOK, Interpreting, InterpretJob, ClaimsOnce, Claimed
  <2>2. CASE operation[k].status = "in_progress" /\ Settle(k, "completed", r)
             /\ Told(k, operation[k].request, r)
    <3>1. /\ operation[k].request \in AreaSet
          /\ b[k] = Nothing /\ b'[k] # Nothing
          /\ b'[k].request = operation[k].request /\ b'[k].result = r
          /\ \A l \in OperationKeys \ {k} : b'[l] = b[l]
      BY <1>c, <2>1, <2>2
    <3> HIDE DEF b
    <3>2. Tells(k, operation[k].request)
      BY <2>2, <3>1 DEF Told
    <3> QED BY <2>1, <3>1, <3>2
  <2>3. CASE Settle(k, "completed", r) /\ UNCHANGED interpretations
    <3>1. CASE operation[k].status = "in_progress"
      <4>1. /\ operation[k].request \in AreaSet
            /\ b[k] = Nothing /\ b'[k] # Nothing
            /\ b'[k].request = operation[k].request
            /\ \A l \in OperationKeys \ {k} : b'[l] = b[l]
        BY <1>c, <2>1, <2>3, <3>1
      <4> HIDE DEF b
      <4> QED BY <2>1, <2>3, <4>1
    <3>2. CASE operation[k].status # "in_progress"
      BY <1>d, <2>1, <2>3, <3>2
    <3> QED BY <3>1, <3>2
  <2>4. CASE UNCHANGED operation /\ UNCHANGED interpretations
    BY <1>a, <2>4
  <2> QED BY <1>5, <2>2, <2>3, <2>4 DEF Complete
<1>6. ASSUME NEW c \in Callers, Fail(c) PROVE Same
  <2> DEFINE k == job[c].key
  <2>1. k \in OperationKeys /\ operation[k] # Nothing
    BY <1>0, <1>6 DEF Fail, At, JobsOK, JobOK, Interpreting, InterpretJob, ClaimsOnce, Claimed
  <2>2. CASE Settle(k, "failed", Nothing)
    BY <1>6, <1>d, <2>1, <2>2 DEF Fail
  <2>3. CASE UNCHANGED operation
    BY <1>6, <1>a, <2>3 DEF Fail
  <2> QED BY <1>6, <2>2, <2>3 DEF Fail
<1> HIDE DEF Same, Binds, Tells, b
<1> QED BY <1>1, <1>2, <1>3, <1>4, <1>5, <1>6 DEF Next, InterpretationNext

\* The answers that R2 gives for an operation key agree with each other and
\* with the request, for any number of callers, keys and failures.
THEOREM InterpretationsKeyed == Spec => InterpretationIsKeyed
<1>1. Init => Interpretations!Init
  BY DEF Init, InitInterpretation, Interpretations!Init
<1> QED BY <1>1, InterpretationStep, PlatformInvariant, PTL
        DEF Spec, InterpretationIsKeyed, Interpretations!Spec

LEMMA FreezeStep ==
  Inv /\ [Next]_vars => [Packages!Next]_(Packages!kvars)
<1> DEFINE Tells(k, q) ==
             /\ packages'[k] # Nothing /\ packages'[k].request = q
             /\ frozen' = frozen \cup {[key |-> k, request |-> q, result |-> packages'[k].result]}
           Binds(k, q) ==
             /\ packages[k] = Nothing /\ packages'[k] # Nothing /\ packages'[k].request = q
             /\ \A l \in FreezeKeys \ {k} : packages'[l] = packages[l]
             /\ Tells(k, q) \/ UNCHANGED frozen
           Same == UNCHANGED <<packages, frozen>>
<1> SUFFICES ASSUME Inv, [Next]_vars
             PROVE  \/ Same
                    \/ \E k \in FreezeKeys, q \in Purposes :
                         Binds(k, q) \/ (UNCHANGED packages /\ Tells(k, q))
  BY DEF Packages!Next, Packages!kvars, Packages!Bind, Packages!Tell, Packages!Again
<1>0. TypeOK /\ JobsOK
  BY DEF Inv
<1>1. ASSUME NEW k \in FreezeKeys, NEW q \in Purposes, packages[k] # Nothing,
             UNCHANGED packages, Existing(k, q)
      PROVE  Same \/ Tells(k, q)
  BY <1>1 DEF Existing, Freezes
<1>2. CASE UNCHANGED vars
  BY <1>2 DEF vars, packageVars
<1>3. ASSUME NEW c \in Callers,
             \/ CollectionNext(c) /\ UNCHANGED <<interpretationVars, packageVars>>
             \/ InterpretationNext(c) /\ UNCHANGED packageVars
             \/ Reconstruct(c)
             \/ Crash(c) /\ UNCHANGED <<collectionVars, interpretationVars, packageVars>>
      PROVE  Same
  BY <1>3 DEF packageVars, Reconstruct
<1>4. ASSUME NEW c \in Callers, NEW k \in FreezeKeys, NEW q \in Purposes, Freeze(c, k, q)
      PROVE  Same \/ (UNCHANGED packages /\ Tells(k, q))
  <2>1. UNCHANGED packages /\ (UNCHANGED frozen \/ (packages[k] # Nothing /\ Existing(k, q)))
    BY <1>4 DEF Freeze
  <2> QED BY <1>1, <2>1
<1>5. ASSUME NEW c \in Callers, PersistPackage(c)
      PROVE  Same \/ \E k \in FreezeKeys, q \in Purposes :
                       Binds(k, q) \/ (UNCHANGED packages /\ Tells(k, q))
  <2> DEFINE k == job[c].key
             q == job[c].request
             row == [request |-> q, result |-> job[c].package]
  <2>1. k \in FreezeKeys /\ q \in Purposes /\ job[c].package \in Package
    BY <1>0, <1>5 DEF PersistPackage, At, JobsOK, JobOK, Freezing, FreezeJob
  <2>2. row \in PackageRow /\ row.request = q /\ row.result = job[c].package
    BY <2>1 DEF PackageRow
  <2>3. row # Nothing
    BY <2>2, NoPackageAssumption
  <2>4. CASE /\ packages[k] = Nothing
             /\ packages' = [packages EXCEPT ![k] = row]
             /\ Freezes(k, q, job[c].package) \/ UNCHANGED frozen
    <3>1. packages'[k] = row /\ \A l \in FreezeKeys \ {k} : packages'[l] = packages[l]
      BY <1>0, <2>1, <2>4 DEF TypeOK
    <3>2. packages'[k] # Nothing /\ packages'[k].request = q
          /\ packages'[k].result = job[c].package
      BY <2>2, <2>3, <3>1
    <3>3. Tells(k, q) \/ UNCHANGED frozen
      BY <2>4, <3>2 DEF Freezes
    <3>4. Binds(k, q)
      BY <2>4, <3>1, <3>2, <3>3
    <3> QED BY <2>1, <3>4
  <2>5. CASE packages[k] # Nothing /\ Concurrent(c, k, q) /\ UNCHANGED packages
    BY <1>1, <2>1, <2>5 DEF Concurrent
  <2>6. CASE UNCHANGED packageVars
    BY <2>6 DEF packageVars
  <2> HIDE DEF Same, Binds, Tells
  <2> QED BY <1>5, <2>4, <2>5, <2>6 DEF PersistPackage
<1> HIDE DEF Same, Binds, Tells
<1> QED BY <1>2, <1>3, <1>4, <1>5 DEF Next

\* The packages that A5b answers with for an operation key agree with each
\* other and with the request, whoever wins the key.
THEOREM FreezesKeyed == Spec => FreezeIsKeyed
<1>1. Init => Packages!Init
  BY DEF Init, Packages!Init
<1> QED BY <1>1, FreezeStep, PlatformInvariant, PTL
        DEF Spec, FreezeIsKeyed, Packages!Spec
==============================================================================
