-------------------------- MODULE EvidencePackages ---------------------------
(***************************************************************************)
(* Evidence A5b: EvidencePackageService.freezePackage (evidence/a5b) under *)
(* an operation key, of what reconstructEvidence (evidence/a5a) shows as   *)
(* of now.  The package is made before its key is taken: a unique index    *)
(* decides between callers.  With A2 and R2, whose rows it freezes, this   *)
(* is the Evidence platform as a whole.                                    *)
(***************************************************************************)
EXTENDS TargetedInterpretation

CONSTANTS
  FreezeKeys,
  Purposes       \* what freeze requests may differ in

Package == [id : Nat, by : Callers,
            of : [evidence : SUBSET (AreaSet \X Artifact),
                  readings : SUBSET (OperationKeys \X Readings)]]
PackageRow == [request : Purposes, result : Package]

ASSUME NoPackageAssumption == Nothing \notin PackageRow

VARIABLES
  packages,      \* rows: request and package by key
  frozen         \* packages that callers were answered with

packageVars == <<packages, frozen>>
vars == <<job, calls, collectionVars, interpretationVars, packageVars>>

Init ==
  /\ InitCalls
  /\ InitCollection
  /\ InitInterpretation
  /\ packages = [k \in FreezeKeys |-> Nothing]
  /\ frozen = {}

\* projectEvidence: artifacts of successful acquisitions, which are stored
\* with the completion of their collection; completed interpretations.
Reconstruction ==
  [evidence |-> {<<a, artifacts[a]>> : a \in {b \in DOMAIN artifacts : acquired[b] = "successful"}},
   readings |-> {<<k, operation[k].result>> : k \in {l \in OperationKeys :
                   operation[l] # Nothing /\ operation[l].status = "completed"}}]

Freezes(k, q, p) ==
  frozen' = frozen \cup {[key |-> k, request |-> q, result |-> p]}

\* The package of the key, unless it was asked for with another request.
Existing(k, q) ==
  IF packages[k].request = q THEN Freezes(k, q, packages[k].result) ELSE UNCHANGED frozen

Freeze(c, k, q) ==
  /\ Called(c)
  /\ IF packages[k] = Nothing
     THEN /\ job' = [job EXCEPT ![c] = [at |-> "reconstruct", key |-> k, request |-> q,
                                        package |-> Nothing]]
          /\ UNCHANGED frozen
     ELSE Existing(k, q) /\ UNCHANGED job
  /\ UNCHANGED <<collectionVars, interpretationVars, packages>>

Reconstruct(c) ==
  /\ At(c, "reconstruct")
  /\ Goes(c, [job[c] EXCEPT !.at = "freeze",
                            !.package = [id |-> calls, by |-> c, of |-> Reconstruction]])
  /\ UNCHANGED <<collectionVars, interpretationVars, packageVars>>

\* Mutant: whoever has made a package answers with it.
ConcurrentOwn(c, k, q) == Freezes(k, q, job[c].package)

\* The unique index refused the row: the package there is answered.
Concurrent(c, k, q) == Existing(k, q)

PersistPackage(c) ==
  LET k == job[c].key q == job[c].request
      insert == packages' = [packages EXCEPT ![k] = [request |-> q, result |-> job[c].package]]
  IN /\ At(c, "freeze")
     /\ \/ /\ packages[k] = Nothing
           /\ insert
           /\ Freezes(k, q, job[c].package) \/ UNCHANGED frozen   \* its reply may be lost
        \/ /\ packages[k] # Nothing
           /\ Concurrent(c, k, q)
           /\ UNCHANGED packages
        \/ UNCHANGED packageVars                                  \* rolled back
     /\ Goes(c, NoJob)
     /\ UNCHANGED <<collectionVars, interpretationVars>>

Next ==
  \E c \in Callers :
    \/ CollectionNext(c) /\ UNCHANGED <<interpretationVars, packageVars>>
    \/ InterpretationNext(c) /\ UNCHANGED packageVars
    \/ \E k \in FreezeKeys, q \in Purposes : Freeze(c, k, q)
    \/ Reconstruct(c)
    \/ PersistPackage(c)
    \/ Crash(c) /\ UNCHANGED <<collectionVars, interpretationVars, packageVars>>

Spec == Init /\ [][Next]_vars

------------------------------------------------------------------------------
(* Properties.                                                             *)

TypeOK ==
  /\ collection \in Final \cup {"running", Nothing}
  /\ acquired \in [AreaSet -> Outcomes \cup {Nothing}]
  /\ DOMAIN artifacts \subseteq AreaSet
  /\ \A a \in DOMAIN artifacts : artifacts[a] \in Artifact
  /\ operation \in [OperationKeys -> OperationRow \cup {Nothing}]
  /\ \A k \in OperationKeys : operation[k] # Nothing =>
       (operation[k].status = "completed" <=> operation[k].result \in Readings)
  /\ consulted \in [OperationKeys -> Nat]
  /\ packages \in [FreezeKeys -> PackageRow \cup {Nothing}]

\* However attempts of one collection overlap, die and repeat, and whatever
\* the source answers each of them, the bytes that an artifact's row names
\* are those it has the fingerprint of (a2/artifactStore.js:26-42,
\* a2/service.js:121-131).
ArtifactsBacked ==
  \A a \in DOMAIN artifacts :
    /\ artifacts[a].key \in DOMAIN stored
    /\ stored[artifacts[a].key] = artifacts[a].content

\* The status of the collection, which the last attempt to end decides, does
\* not promise more than the rows that all of them left
\* (a2/repository.js:74-88).
StatusHasEvidence ==
  /\ collection = "successful" => ApiAreas \subseteq DOMAIN artifacts
  /\ collection = "partial" => ApiAreas \cap DOMAIN artifacts # {}
  /\ collection \in Final => acquired[Head(Areas)] # Nothing

\* What a package froze is still there to be reopened, as it was frozen: no
\* later attempt or interpretation changes it (a5b/service.js:22-36).
PackagesHold ==
  \A k \in FreezeKeys : packages[k] # Nothing =>
    LET of == packages[k].result.of
    IN /\ \A m \in of.evidence : m[1] \in DOMAIN artifacts /\ artifacts[m[1]] = m[2]
       /\ \A m \in of.readings : operation[m[1]].result = m[2]

\* The provider is asked at most once for an operation key, whatever fails
\* (ADR-015, docs/evidence-platform/ADR.md:1176).
ProviderAskedOnce == \A k \in OperationKeys : consulted[k] <= 1

Interpretations ==
  INSTANCE KeyedOperation WITH
    Keys <- OperationKeys, Requests <- AreaSet, Unbound <- Nothing,
    bound <- [k \in OperationKeys |->
               IF operation[k] # Nothing /\ operation[k].status = "completed"
               THEN [request |-> operation[k].request, result |-> operation[k].result]
               ELSE Nothing],
    told <- interpretations

\* R2 keeps what an operation key promises.
InterpretationIsKeyed == Interpretations!Spec

Packages ==
  INSTANCE KeyedOperation WITH
    Keys <- FreezeKeys, Requests <- Purposes, Unbound <- Nothing,
    bound <- packages, told <- frozen

\* A5b keeps what an operation key promises.
FreezeIsKeyed == Packages!Spec

\* Every attempt that gets through its areas is recorded: one failure leaves
\* the other areas' evidence (a2/__tests__/producer.nodetest.js:78).
FailuresRecorded == \A c \in Callers : ~At(c, "refused")
==============================================================================
