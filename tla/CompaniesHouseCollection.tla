---------------------- MODULE CompaniesHouseCollection -----------------------
(***************************************************************************)
(* Evidence A2: CompaniesHouseEvidenceService.collect (evidence/a2) for    *)
(* one producer request key, called at will and by several callers at      *)
(* once.  Identities are derived from the key, so that what two attempts   *)
(* store are the same rows.  An area has one page; what the source answers *)
(* may change from call to call.                                           *)
(***************************************************************************)
EXTENDS EvidenceCalls, Sequences

CONSTANTS
  Areas,       \* the source areas in the order they are collected
  ApiAreas,    \* those that are authoritative; the others are websites
  Contents,    \* what the source may answer for an area
  Nothing

AreaSet == Range(Areas)
Final == {"successful", "partial", "failed", "inconclusive"}
Outcomes == {"successful", "failed", "inconclusive"}

ASSUME AreasAssumption == Areas \in Seq(AreaSet) \ {<<>>}
ASSUME ApiAssumption == ApiAreas \subseteq AreaSet
ASSUME NothingAssumption == Nothing \notin Final \cup Outcomes \cup {"running"}

VARIABLES
  collection,  \* status of the collection operation's row, or Nothing
  acquired,    \* rows: outcome of each area's acquisition, or Nothing
  artifacts,   \* rows: storage key and fingerprint by area; an artifact's
               \* row stands for its asset's and extraction run's too
  stored       \* the filesystem store: contents by storage key

collectionVars == <<collection, acquired, artifacts, stored>>

Artifact == [key : {<<a>> : a \in AreaSet} \cup (AreaSet \X Contents), content : Contents]
NoArtifacts == [a \in {} |-> Nothing]

\* The graph that an attempt builds: the outcomes it has recorded of each
\* area's acquisition, what it has stored, and the status it will settle on.
NewGraph == [at |-> "acquire", areas |-> Areas, outcomes |-> [a \in AreaSet |-> <<>>],
             kept |-> NoArtifacts, status |-> "running"]

InitCollection ==
  /\ collection = Nothing
  /\ acquired = [a \in AreaSet |-> Nothing]
  /\ artifacts = NoArtifacts
  /\ stored = [k \in {} |-> Nothing]

\* find and begin; a row that is there already is not taken over.  A settled
\* collection is answered as it is.
Collect(c) ==
  /\ Called(c)
  /\ \/ /\ collection \in Final
        /\ UNCHANGED <<job, collection>>
     \/ /\ collection \notin Final
        /\ job' = [job EXCEPT ![c] = NewGraph]
        /\ collection' = IF collection = Nothing THEN "running" ELSE collection
  /\ UNCHANGED <<acquired, artifacts, stored>>

\* Mutant: the bytes of the last attempt stand under the area's key.
KeyOfArea(a, x) == <<a>>

\* FileArtifactStore.put: other bytes under a key go beside it.
KeyFor(a, x) ==
  IF <<a>> \in DOMAIN stored /\ stored[<<a>>] # x THEN <<a, x>> ELSE <<a>>

Put(k, x) ==
  stored' = [l \in DOMAIN stored \cup {k} |-> IF l = k THEN x ELSE stored[l]]

Acquiring(c) == At(c, "acquire") /\ job[c].areas # <<>>
Acquired(c, outcomes) ==
  [job[c] EXCEPT !.areas = Tail(@), !.outcomes[Head(job[c].areas)] = @ \o outcomes]

\* The source, or the capture of the website, fails.
AcquireFails(c) ==
  /\ Acquiring(c)
  /\ Goes(c, Acquired(c, <<"failed">>))
  /\ UNCHANGED collectionVars

AcquireStored(c, x) ==
  LET a == Head(job[c].areas) k == KeyFor(a, x)
  IN /\ Acquiring(c)
     /\ Goes(c, [Acquired(c, <<"successful">>) EXCEPT
                  !.kept = [b \in DOMAIN @ \cup {a} |->
                             IF b = a THEN [key |-> k, content |-> x] ELSE @[b]]])
     /\ Put(k, x)
     /\ UNCHANGED <<collection, acquired, artifacts>>

\* The store fails, or two attempts meet in it.  successApi has by then
\* recorded the acquisition as successful, and its caller records it as
\* failed; collectWebsite records it only once it has stored something.
AcquireUnstored(c) ==
  /\ Acquiring(c)
  /\ Goes(c, Acquired(c, IF Head(job[c].areas) \in ApiAreas
                         THEN <<"successful", "failed">> ELSE <<"failed">>))
  /\ UNCHANGED collectionVars

Successful(j) == {a \in ApiAreas : j.outcomes[a] = <<"successful">>}

StatusOf(j) ==
  IF Successful(j) = ApiAreas THEN "successful"
  ELSE IF Successful(j) # {} THEN "partial"
  ELSE "failed"

\* validateEvidenceGraph: an acquisition recorded twice is refused, and with
\* it the call.
Unique(j) == \A a \in AreaSet : Len(j.outcomes[a]) <= 1

Conclude(c) ==
  /\ At(c, "acquire") /\ job[c].areas = <<>>
  /\ Goes(c, IF Unique(job[c])
             THEN [job[c] EXCEPT !.at = "persist", !.status = StatusOf(job[c])]
             ELSE [at |-> "refused"])
  /\ UNCHANGED collectionVars

\* The profile is of another company: only that is recorded.
Mismatch(c) ==
  /\ At(c, "acquire") /\ job[c].areas = Areas
  /\ Goes(c, [Acquired(c, <<"inconclusive">>) EXCEPT
               !.at = "persist", !.status = "inconclusive"])
  /\ UNCHANGED collectionVars

\* Mutant: an attempt replaces the rows of an earlier one.
InsertOver(old, new) ==
  [a \in DOMAIN old \cup DOMAIN new |-> IF a \in DOMAIN new THEN new[a] ELSE old[a]]

\* INSERT ... ON CONFLICT DO NOTHING
Insert(old, new) ==
  [a \in DOMAIN old \cup DOMAIN new |-> IF a \in DOMAIN old THEN old[a] ELSE new[a]]

OutcomeIn(j, a) == IF j.outcomes[a] = <<>> THEN Nothing ELSE Head(j.outcomes[a])

\* Mutant: the row is settled before the transaction that fails.
CommitStatus(j) ==
  /\ collection' = j.status
  /\ UNCHANGED <<acquired, artifacts, stored>>

\* The transaction of persist.
Commit(j) ==
  /\ acquired' = [a \in AreaSet |->
                   IF acquired[a] # Nothing THEN acquired[a] ELSE OutcomeIn(j, a)]
  /\ artifacts' = Insert(artifacts, j.kept)
  /\ collection' = j.status
  /\ UNCHANGED stored

Persist(c) ==
  /\ At(c, "persist")
  /\ Commit(job[c])
  /\ Goes(c, NoJob)

\* It is rolled back, or its reply is lost.
PersistFails(c) ==
  /\ At(c, "persist")
  /\ \/ UNCHANGED collectionVars
     \/ Commit(job[c])
  /\ Goes(c, [at |-> "recover", mismatch |-> job[c].status = "inconclusive"])

\* markPersistenceFailure, whoever settled the row; it may fail as well.  The
\* error is answered, unless it was a mismatch that was to be persisted: then
\* it counts as a failure of the profile, and the other areas follow.
Recover(c) ==
  /\ At(c, "recover")
  /\ collection' \in {collection, "running"}
  /\ Goes(c, IF job[c].mismatch
             THEN [NewGraph EXCEPT !.areas = Tail(@),
                                   !.outcomes[Head(Areas)] = <<"inconclusive", "failed">>]
             ELSE NoJob)
  /\ UNCHANGED <<acquired, artifacts, stored>>

Refused(c) ==
  /\ At(c, "refused")
  /\ Goes(c, NoJob)
  /\ UNCHANGED collectionVars

CollectionNext(c) ==
  \/ Collect(c)
  \/ AcquireFails(c)
  \/ \E x \in Contents : AcquireStored(c, x)
  \/ AcquireUnstored(c)
  \/ Conclude(c)
  \/ Mismatch(c)
  \/ Persist(c)
  \/ PersistFails(c)
  \/ Recover(c)
  \/ Refused(c)
==============================================================================
