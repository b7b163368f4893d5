# Formal models of kyc-agent

TLA+ models, TLC configurations and TLAPS proofs of the core of kyc-agent: identity
verification (webhooks, browser redirects, protected identity data), the Evidence platform
(ingestion, collection, interpretation, frozen packages) and the decisions about beneficial
owners (cases, decision history, ownership percentages). The first two are serverless HTTP
functions over PostgreSQL and object storage: nothing runs in one process for long, and
whatever is correct is correct because of receipts, versions, unique keys, row locks and
transactions, with calls failing or processes dying between any two of them. The third is
pure code whose hosts hand sealed cases around: what is hard there are long legal sequences,
stale and forked cases, and the numeric edges of the calculation.

`tlc -config X.cfg MC<Module>.tla` checks a configuration, `tlapm <Module>Proofs.tla` the
proofs; PROJECT.json names every run, mutant, source line, hazard and theorem.

## 1. The system

| Component (under `src/`) | State it keeps | Operations | Hard behaviour | What makes it correct |
|---|---|---|---|---|
| IDV service, `idv/services`, `idv/stores/postgresOperationalStores.js`, `idv/domain` | session row with `record_version`, result row, webhook receipts, append-only events and costs | start, hosted flow opened, customer returns, process webhook | webhooks arrive twice, late, out of order, at the same time as redirects; each is a dozen awaited calls, any of which fails or is the last one of a dying process | one delivery at a time works on a webhook; no save from a stale copy; a terminal decision is final and never lost; events agree with the row |
| Secure identity store, `idv/stores/postgresSecureIdentityStore.js` | identity record with deletion status and legal hold, encrypted attributes and responses, audit | store extraction, retrieve, respond, delete or schedule | transactions of several statements under READ COMMITTED; holds set and deletions committed between them | a hold is never overtaken; a deletion is final and complete; every access is audited; one reference per session |
| IDV providers, router, security, HTTP | none (provider's own) | create session, verify and parse a webhook, retrieve a result | what the payload carries decides what `processWebhook` does | normalisation is total; signatures are checked before anything is stored |
| IDV metrics, cost policy | none; read the event log | score card | counts unique sessions from repeated events | agrees with the log (so the log must be right) |
| Evidence R1 ingestion, `evidence/r1` | operation row per idempotency key, objects, acquisitions, assets, artifacts | ingest, reopen | object store and database cannot commit together; replies are lost; retries resume | one upload per key; what was reported stored stays; a key is not stuck |
| Evidence R2 interpretation, `evidence/r2` | operation row per key with its result | claim, ask the provider, complete or fail | a long provider call between claim and guarded updates; lost replies | a key stands for one request and one result; the provider is asked once |
| Evidence A2 collection, `evidence/a2` | collection row, acquisitions and artifacts under deterministic ids, stored bytes | begin, acquire area by area, persist, mark failed | `begin` gives no ownership; attempts overlap, repeat and get other answers; the last to end decides the status | the status describes rows that exist; rows name the bytes they were made of |
| Evidence A5a reconstruction, A5b packages, `evidence/a5a`, `evidence/a5b` | package row per operation key | reconstruct, freeze | the package is made before its unique index decides between callers | a key names one package; what was frozen stays there |
| Evidence A1, R4, A3, A4 | append-only bundles, runs, assessments | validate, interpret, assess | references between rows | references resolve |
| Dossier lifecycle, `dossierLifecycle` and `api/dossier-reseed.js` | none that a caller persists: the state is computed | look a transition up | states with a single way out | only transitions of the table |
| Re-research retry cap, `api/search-attempt.js` | attempt counter | attempt, save | the field it is counted under, `seededBy`, is only read (`App.js:318`), so that the increment is not reached | (not in use) |
| UBO ownership case, `ubo-control/domain/ownershipCase.js` | entities, claims with their states, identity decisions, adjudications, customer inputs, revision | create, intake, decide identity, adjudicate, record an input, graph eligibility | long legal sequences; operation ids used again | claims stand as their adjudications leave them; superseded and rejected ones stay out of the graph |
| UBO decisions, `ubo-control/application`, `domain/decisionSnapshot.js` | decision history that the host keeps | intake, apply decisions, apply a customer input, evaluate against an expected head | cases are values: callers hold older revisions and fork them | an input answers a decision once, in order; a decision leaves no claim out silently |
| UBO graph, percentages and thresholds, `domain/ownershipGraph.js`, `percentageCalculation.js`, `exactPercentage.js`, `policy/policyDetermination.js` | none | claims to graph, look-through, interval arithmetic, three-valued threshold, its concept | cycles, duplicate and conflicting claims, unknown measures, open ends, capping, interests of another concept | whatever the holdings really are, the answer agrees with them |
| Config publishing, tenants, `api/config.js`, `lib/storage.js` | key-value documents, version archive | publish, roll back | read, then two writes | versions are unique and archived |
| Onboarding submission, `api/submit.js` | submission and journey tables | submit | statements without a transaction, all best-effort | (best-effort by its own comments) |
| Research, caches, agents, React client, scripts | caches with a TTL, client state | search, parse, render | model answers | out of what a state machine says |

How they interact: the IDV handlers call `IdvService`, which calls the provider adapter, the
operational stores and the identity store, in that order and never in one transaction; the
metrics read the event log the service appends to. The evidence services share the tables
of `db/migrations` and refer to each other's rows by id: R2 interprets artifacts that R1 and
A2 stored, A5a shows what A2 and R2 (and A3, A4) left, and A5b freezes what A5a shows. The
UBO packages are pure: the host passes a sealed case to each call, keeps the case that comes
back and the decision history; `evaluate` makes the graph of the case's operative claims,
calculates every holder's share of the customer and decides the thresholds. The
dossier, config and onboarding handlers share only the key-value and SQL storage.

## 2. What is modelled

| Module | Models | State | Actions |
|---|---|---|---|
| `IdvStatus` | `stateMachine.js`, `constants.js` | none | `Verdict`, `ReconciledStatus`, `ReconciledTime`: what one provider event does to a session |
| `IdvContract` | what the session row promises its readers (abstract) | the row without its version | `Create`, `Advance`, `Reopen`, `Note` |
| `IdvService` | `idvService.js` 88-305 over the Postgres stores and HTTP handlers | session, result, receipts, log; per handler its next call, its webhook, its copy of the row; the provider | one per awaited call of `startVerification`, `markHostedFlowOpened`, `recordCustomerReturn`, `processWebhook`/`emitResultEvents`; `CallFails`, `RequestFails`, `Crash`; the provider issues and redelivers |
| `IdvIdentity` | `postgresSecureIdentityStore.js`, `idvService.js` 307-372 | record, attributes, responses, audit, events; per caller its next statement and its open transaction | one per SQL statement; `Commit`, `Fails` (rollback), `ReplyLost`, `SetHold` |
| `EvidenceIngestion` | `evidence/r1` | operation row, objects, artifacts, answers; per handler its next call and upload | one per awaited call of `ingest`; `ClaimFails`, `PutFails`, `RecordFails`, `CleanupFails`, `Crash` |
| `EvidenceCalls` | processes that run the Evidence services | per caller its job; calls made | `Called`, `Goes`, `Crash` |
| `CompaniesHouseCollection` | `a2/service.js`, `repository.js`, `artifactStore.js` | collection, acquisitions, artifacts, stored bytes; the graph an attempt builds is its job | `Collect`, `AcquireStored`, `AcquireUnstored`, `AcquireFails`, `Mismatch`, `Conclude`, `Persist`, `PersistFails`, `Recover`, `Refused` |
| `TargetedInterpretation` | `r2/service.js` and its repository | operation rows, provider calls, answers | `Interpret`, `Consult`, `Complete`, `Fail` |
| `EvidencePackages` | `a5b/service.js`, `a5a/domain.js`; composes A2, R2 and A5 under the same callers | packages, answers | `Freeze`, `Reconstruct`, `PersistPackage`, and those of the other two, and `Crash` |
| `KeyedOperation` | what an operation key promises (abstract), implemented by R2 and by A5b | the request and result of each key; what callers were told | `Bind`, `Again` |
| `OwnershipCase` | `ownershipCase.js` and what the application derives with it | none: a case is a record | `CanIntake`/`AfterIntake`, `CanDecide`/`AfterDecisions`, `CanRecordInput`/`AfterInput`, `GraphEligible` |
| `DecisionApplication` | `createUboDecisionApplication.js`, `applyCustomerInput.js`, `decisionSnapshot.js` | the case and the head each caller knows, the decision history | `Intake`, `ApplyDecisions`, `ApplyCustomerInput`, `Evaluate`; `Take` and `ReadHistory` of the host |
| `ExactPercentage` | `exactPercentage.js` | none | intervals with open and closed ends: add, multiply, cap |
| `OwnershipGraph` | `ownershipGraph.js`, `percentageCalculation.js`, `policyDetermination.js`, `evaluate` | operative claims, the evaluation of them | one more claim becomes operative and the case is evaluated |
| `MC*` | small instances for TLC | | inputs, symmetry sets |
| `IdvServiceProofs`, `IdvEventsProofs`, `IdvIdentityProofs`, `EvidenceIngestionProofs`, `EvidencePackagesProofs`, `DecisionApplicationProofs`, `ExactPercentageProofs`, `OwnershipGraphProofs` | proofs | | |

Atomicity follows the code: everything between two `await`s is one step, an `await`ed SQL
statement or transaction is one step (in `IdvIdentity`, where the interleaving of statements
is the point, each statement is), and the outcome of a call that fails is every outcome it
can have had: a failed write may have taken effect.

Abstractions, by module:

* `IdvService`: one session. The document, observation and decision events of a result are
  one append (`EmitObserved`); equal log entries coincide. The time of the completion stamp,
  the browser's return and the identity reference are facts that are set or not. A webhook
  of kind "result" carries a trusted decision (Veriff; Didit when its signed payload has
  one), "status" carries none, "reconcile" is looked up at the provider. The fall-back of
  `occurredAt` to the time of receipt is not modelled. Storing attributes is one step here
  (`StoreIdentity`); its inside is `IdvIdentity`.
* `IdvIdentity`: one session and one subject; concepts, tenants, authorization and encryption
  are inputs that let a call begin or make it fail. Row locks are derived from what open
  transactions have done: `FOR UPDATE` of a deletion, the key-share lock a foreign key takes
  when a row is inserted, the wait for a concurrent insertion of the same key. Both `DELETE`
  statements and the `UPDATE` of a deletion are one step, since the record is locked. The
  legal hold is set by nobody in the program and is an external action.
* `EvidenceIngestion`: one idempotency key; a request is its fingerprint. Validation and
  authorization come first and have no effects. The acquisition, asset, scope and artifact
  rows of the transaction are one Artifact. A replay may name any artifact of the
  operation: the query has no order. `reopen` reads only.
* `CompaniesHouseCollection`: one request key, whose attempts ask for the same company. Each
  area has one page and the areas come in their order; what the source answers may change
  from attempt to attempt. `find` and `begin` are one step, and so are the source's answer
  and the store's `put`. The bytes are in the filesystem store. An artifact's row stands
  for its asset's and extraction run's; a website's representations are one. Values
  extracted from the answers are left out.
* `TargetedInterpretation`: of A2's artifacts. A wrong medium, a failed integrity check and
  every other refusal before the provider is asked are one way to fail.
* `EvidencePackages`: packages are of now; of the timeline only artifacts and completed
  interpretations are kept. Authorization and predecessors, which refuse before anything
  happens, and the fingerprints of the manifest are left out.
* `OwnershipCase`, `DecisionApplication`: a claim is an operation and a fact, a party a claim
  and an endpoint. Ids of decisions, the contents of facts, evidence handoffs and temporal
  reviews are left out. There is one decision history, which the host shares among its
  callers, and a record of it is its content (no hash). The plan is not modelled: any input
  that passes the case's own checks may answer any decision of its revision. Version 2. A
  customer input states at most one fact (`MaxFactsPerInput`); the code takes several, which
  become claims of the same input and meet the same checks one by one.
* `ExactPercentage`, `OwnershipGraph`: fractions are numbers of parts of the whole; with
  Hundred = Step^Depth and claims that are multiples of Hundred / Step no product along a
  path is rounded. One kind of interest is looked through (others are in the graph), and the
  state of a holder is that of its economic or voting basis (UBO-R01, UBO-R04) in the state
  that `makeCalculationBasis` gives it, the check of the concept included; the concept that the
  entity profile expects is a constant, and the concept of an interest is one of its
  qualifiers. How a measurement is written (`form`: exact, a range, unknown, missing) counts
  where claims are compared, and nowhere else. Control rights (UBO-R05 and later), the
  indirect basis (UBO-R02, which repeats the status) and the other requirements are left out.

## 3. What the runs check

| Run | Bounds | Shows |
|---|---|---|
| `idv_concurrent` | 2 handlers, 2 webhooks of any kind with equal or different times, 1 browser visit, overlapping redelivery | the row implements `IdvContract` (`KeepsContract`); a settled terminal decision is in the row or a later event was there first (`NoDecisionLost`); only the provider decides; the inductive invariant `DInv` |
| `idv_faults` | 2 handlers, 2 webhooks (retry, abandoned), 1 failed call, lost reply or crash | claims are exclusive; a settled decision with its result is reported; outcome events agree with the row; nothing refers to what is not stored |
| `idv_liveness` | 1 failed call, no crash, no overlap | every webhook is processed in the end |
| `identity` | 3 callers, 3 calls, 2 attributes, 2 failures, holds at any time | no hold is overtaken, no deletion undone, one reference, every access audited, answers backed, no caller waits for ever |
| `identity_ghost` | violation | rows are inserted under a record that was deleted after the check |
| `ingest_race` | 2 handlers, 4 uploads, 2 contents, 3 failures | one upload per key, stored stays stored, one Artifact without failures, running operations end |
| `ingest_orphaned` | violation | after a lost commit reply the cleanup deletes the object of a committed Artifact |
| `evidence_platform` | 2 callers, 3 calls; 3 areas, 2 of them API; 2 contents, 1 operation key, 1 reading, 1 freeze key, 2 purposes | rows are backed by their bytes (`ArtifactsBacked`), the status by rows (`StatusHasEvidence`), packages by what they froze (`PackagesHold`); the provider is asked once; R2 and A5b implement `KeyedOperation` |
| `collection_refused` | violation; 1 caller, 1 call | a failure of the artifact store leaves nothing of an attempt |
| `decision_callers` | 2 callers, 5 answered calls, 2 operation ids, 2 facts (one a relationship), 1 entity of the host | claims stand as their adjudications leave them, inputs answer ever later decisions, decisions account for their claims |
| `ownership` | 3 holders and the customer, up to 3 operative claims of every kind (also of no concept, measured or not), threshold 25% | shares, statuses and determinations agree with what the claims mean; later claims take a decision "above" back only by putting an interest of another concept below the holder (`OnlyConceptRevokes`) |
| `ownership_cycle` | violation | a cycle through the customer is not noticed |

Why the bounds are enough to matter: every race here is between two requests over one row
(a third only repeats the role of one), and every hazard needs at most one failure and one
retry; two webhooks with two timestamps give the earlier, equal and later event, four uploads
under two fingerprints a winner, a loser, a resumption and a conflict, and three calls on an
identity record an extraction and two that race about it. Three calls on the Evidence
platform let an attempt be overtaken by a second one and a third call use what they left;
with two contents the source changes its mind, two purposes are a replay and a conflict,
and two API areas tell "partial" from "successful". Five calls on a case are intake, its
decisions, an evaluation and an input that answers it twice or from a forked case. Four
entities hold every chain, diamond and cycle that a path can meet, three claims the
duplicate, the conflict and the second class of one interest. Handlers (callers, webhooks,
contents, purposes, holders) are symmetric where no liveness property is checked.

The reference that `ownership` checks against knows no paths, no cycles and no interval
arithmetic: it enumerates every assignment of percentages to interests that the claims
allow (`Worlds`) and looks through one level at a time (`Holding`).

Every property is also checked to fail under a plausible bug of the code (the mutants in
PROJECT.json, defined next to the definition they replace). `CHECK_DEADLOCK FALSE` is in every configuration: with all
requests handled the system rests. That nobody waits for ever is `CallsEnd`,
`EveryWebhookSettled` and `OperationEnds`.

Fairness: a running invocation takes its next step (weak fairness per handler), and the
provider redelivers a webhook until it is answered with 200. Decisions, visits, new
requests and failures are owed to nobody. What the code does not guarantee is not assumed:

* `EveryWebhookSettled` is checked without crashes and without overlapping redelivery. With a
  crash the receipt stays `PROCESSING` and is never taken over; a redelivery that overlaps
  the working delivery is answered 200, so that if the working one then fails nobody
  delivers again.
* `OperationEnds` exempts an operation that a fault `stranded`: a process that dies, a first
  write whose reply is lost, or a failure to record the failure leaves it `running`, and
  every retry with the key is refused.

No liveness is stated of the Evidence platform and the case: a collection or an
interpretation that dies is left as it is until somebody calls again, and an interpretation
whose process dies stays `in_progress` for good; hosts owe no calls.

## 4. Where docs and code differ

The violation runs, each stating a sentence of the repository:

* `identity_ghost` (docs/idv/SECURITY_AND_DEPLOYMENT.md:98, "Immediate deletion removes
  encrypted attributes/responses"): rows inserted after the check outlive the deletion.
* `ingest_orphaned` (docs/evidence-platform/ADR.md:1037, cleanup "must not delete prior
  evidence"): it does after a commit whose reply was lost.
* `ownership_cycle` (policies/uk-corporate/1.3-rc/policy.json:598, "Cycles cannot silently
  produce a numeric answer"): one through the customer itself does.
* `collection_refused` (docs/evidence-platform/ADR.md:509 and the title of
  a2/__tests__/producer.nodetest.js:78): when the artifact store fails, the attempt records
  one acquisition twice, refuses its own graph and leaves no row of any area.

The details are under "findings" in PROJECT.json. Two more disagreements are in the models
and no run demonstrates them; the properties that hold are worded around them:

* R1: "must not create a second Acquisition, Asset, or Artifact"
  (docs/evidence-platform/ADR.md:986, and again "Retried operations do not create duplicate
  logical evidence", :1055). When the transaction of `complete` commits and its reply is lost,
  the catch block marks the operation failed, and a retry with the key resumes it and commits
  a second Artifact of the same upload. `OnceWithoutFaults` promises one Artifact only as long as
  no call fails; `OneUploadPerKey` and `StoredStays` hold also then.
* IDV: the score card counts "unique ... terminal sessions" (docs/idv/METRICS.md:17, :18). A
  webhook without a decision payload ends a session, but the outcome events are
  emitted only with a result (idvService.js:245), so that this session is never counted.
  `DecisionReported` speaks of decisions that came with a result.

Also noted while modelling, and not contradicting what a document promises:

* IDV: `results.save` precedes the version-checked save of the session, so that a late event
  replaces the stored result of a decided session (idvService.js:228). IDV_COMPLETED is lost
  for good when the call before it succeeded and it failed. `canonical_completed_at` is
  stamped also by a terminal event that was rejected. A record deleted while its session's
  webhooks go on makes `storeExtractedIdentity` throw for each of them.
* A2: an area that an earlier attempt recorded as failed keeps that row when a later one
  succeeds; the collection says "successful" and the artifact is stored, but A5a, which
  goes by the acquisition, does not show it (a5a/domain.js:49). A request key that was
  settled answers with its collection whatever company number it now comes with.
* A5: `completedAt` is taken before the package is committed, and the loser of a race answers
  `replayed: false`. R2: an operation whose process died stays `in_progress`.
* UBO: open lower ends are not added up by `assertMinimumTotals`, so that claims which cannot
  all be true pass (`WithinWhole` says what then still holds). Two cases of one revision
  number may be derived from one case, and a decision on an older revision may follow one on
  a newer revision: only the head of the history is compared.
* Configuration: two publishes that overlap write the same version, and one is lost.

## 5. What is proved

All for every value of the constants (handlers, callers, webhooks, calls, areas, operations,
facts, entities, claims, faults), from the assumptions named in the modules: the constants are of their kinds,
and "no event", "no content", "nothing" are none of the values they stand beside.

`IdvServiceProofs`
* `TypeCorrect`: types.
* `ExclusiveClaims`: `OneClaimant`. Inductive because a handler inside `processWebhook` holds
  an issued webhook whose receipt is `PROCESSING` (or `COMPLETED`, when only the reply was
  lost) and `begin` claims only `NONE` or `FAILED` receipts.
* `RowKeepsContract`: the service implements `IdvContract` under the refinement mapping that
  forgets `record_version`. The invariant it needs (`Copies`) says that a handler's copy is
  stale or right: if it has the version of the row, it has the row's status, time and facts.
  Without it nothing would tie what a handler computed to the row it overwrites.
* `DecisionsKept`: `NoDecisionLost`, from `DInv`: on its way from webhook to receipt a decision
  is carried in the handler's incoming status until the save, and from then on in the row,
  where the contract keeps it.

`IdvEventsProofs`, from `EInv`, which adds to the invariant of decisions what a handler may
report. What it holds as the provider's outcome the provider has said; between the save of a
terminal row and the receipt it holds the outcome that the row has (`HoldsOutcome`), since a
terminal row never changes again; the result it stored is there before it reports it; and a
handler that goes past an event has logged it, or was overtaken by a later one.
* `OnlyProviderDecides` (`ProviderDecides`), `DecisionsReported` (`DecisionReported`),
  `OutcomesAgree` (`OutcomeEventsAgree`), `NothingDangles` (`NothingDangling`).

`IdvIdentityProofs`, from an invariant about open transactions, `Inv`. What a caller has done
and holds before each of its statements (`Staged`); the reference it works under is its own
of a record it has inserted, or the committed one (`Refered`); what it has selected is
stored, and what it has answered is recorded, for as long as the record is not deleted
(`Founded`); one transaction at most has inserted the record and one at most has locked it,
and a locked record is live and not on hold (`Exclusive`): nobody may delete what another
has just put on hold because `hold` and `delete` both need that lock.
* `HoldIsRespected` (`HoldRespected`), `DeletionIsFinal` (`DeletionFinal`), `ReferenceStands`
  (`OneReference`), `EveryAccessAudited` (`AccessAudited`), `EveryAnswerBacked`
  (`AnswersBacked`), `IdentityTypes` (`TypeOK`).

`EvidenceIngestionProofs`, from one inductive invariant: whoever owns the operation has its
fingerprint, ids are fresh, and as long as no call failed one handler at most works.
* `KeyStandsForOneUpload`: `OneUploadPerKey`. `StoredForGood`: `StoredStays`, because a handler
  deletes only under its own id, which nobody reuses. `RecordedOnce`: `OnceWithoutFaults`.
  `TypeCorrect`: types.

`EvidencePackagesProofs`, from `PlatformInvariant`. Its parts, each of which TLC's properties
need: an attempt in memory is honest (what it has recorded as successful it has stored, and
the status it will settle on is the one of its outcomes); what it holds and what the rows
name is backed by bytes that no `put` replaces; the collection is settled only with rows
that justify it; an operation key is claimed once and its provider call belongs to the one
caller that claimed it; packages, also those that are not
persisted yet, name what is there.
* `TypeCorrect`, `EvidenceBacked` (`ArtifactsBacked`), `StatusBacked` (`StatusHasEvidence`),
  `AskedOnce` (`ProviderAskedOnce`), `FrozenForGood` (`PackagesHold`).
* `InterpretationsKeyed`, `FreezesKeyed`: both services implement `KeyedOperation`. A step of
  one service leaves the other's mapped variables alone; what remains is that only the
  unbound key is bound, and that who is told something is told what is bound.

`DecisionApplicationProofs`, from `CasesGood`: every case that a caller holds or that was
decided upon is of its type, replays from its adjudications, resolves parties only to
entities it has, and has answered decisions of ever later revisions; a case in the history
had nothing open. The hard part is that adjudications of one request continue those before
(`StatusContinues`): the last adjudication of a claim in a concatenation is the one in the
second part, if it has one.
* `TypeCorrect`, `CasesReplay` (`AdjudicationsReplay`), `AnsweredInOrder`
  (`InputsAnswerInOrder`), `ClaimsAccountedFor` (`DecisionsAccountForClaims`).

`ExactPercentageProofs`: `AddSound`, `MultiplySound` and `CapSound`. If two shares lie in two
intervals then their sum and their product lie in the interval that the code calculates, and
cutting an interval off at 100% loses no share, with open, closed and zero ends; for products under the
condition that the products of the ends and of the shares are whole numbers of parts, since
the code's fractions are exact and the model's parts are not. `OwnershipGraphProofs` shows
that condition of every product the evaluation calculates. The module also
holds the lemmas on finite sums, powers and parts. The library's induction theorems take an operator,
which the provers cannot instantiate; `Counting`, `Iterates` and `Removing` state induction
over numbers, recursion and induction over finite sets with sets instead.

`OwnershipGraphProofs`. The evaluation is always that of the operative claims (`GInv`); what
is hard are the three recursive definitions, the search for holders, the traversals and the
sum of their shares.
* `TypeCorrect`: types; above all that the three recursions define something.
* `CompletenessExplained` (`StatusExplained`): each traversal visits as many entities as it is
  long, so that the search goes deep enough; everything between holder and customer is
  visited (`Visits`), and without cycles a traversal can always go on until it arrives
  (`Arrives`).
* `AboveUnlessOtherConcept` (`OnlyConceptRevokes`): a larger graph keeps every traversal, and a
  sum over more shares is no lower, in whatever order they are added (`SumRules`), so that the
  threshold alone never takes "above" back. The concept does, exactly where an interest of
  another one is found level by level below the holder (`ConceptExplained`): also among
  cycles each such interest ends some traversal, by the way that visits every level once
  (`Visits`, `TakesNew`).
* `TrueSharesContained` (`TrueShareInside`) and from it `DeterminationsHold`
  (`DeterminationRight`). A world gives every relationship a worth, and so every traversal
  (`Worths`), which lies in the traversal's share (`SharesContain`). What is hard is that the code
  sums over traversals and the meaning looks through level by level. `Conservation` compares
  them: what the arrived traversals are worth and what lies ahead of those on their way
  (`RoundBalance`) is at every length at most what the holder has, and without cycles is
  exactly that. A relationship stands for one slot because the evaluation fails when claims of
  a slot differ, and claims that say the same coalesce.
* `NothingBeyondWhole` (`WithinWhole`): where no entity is held by more than 100%, a
  holder's traversals to any one entity are together worth no more than 100% (`Flow`);
  applied to the lower ends, which the check of minimum totals keeps within 100%, it puts the sum of
  the lower ends below the cut.
* `LowerEndsAttained` (`LowerEndAttained`): with every interest at the lowest the claims
  allow, which is a world if there is any (`LeastWorldAllowed`), traversals are worth the
  lower ends of their shares (`SharesLower`), and `Conservation` does the rest.

These rest on the following of the constants. The entities are finitely many, and `Depth`, the
number of factors for which products stay whole, is at least their number: the bound is the
model's, and every finite graph has one. A measurement is unknown or has its ends among the
multiples of `Hundred` / `Step`, in order and not empty (`validatePercentageValue`, called for each claim by `validateCandidateClaim`; any finite
set of decimal percentages has such a `Step`). Claims name entities, and the threshold is
a number of parts.

Model-checked only: liveness, which is outside the prover's reach (`EveryWebhookSettled`,
`OperationEnds`, `CallsEnd`). Every invariant and action property of the passing runs is
a theorem.

## 6. Plan

Done, the most important first: `IdvStatus`, `IdvContract`, `IdvService` and proofs;
`EvidenceIngestion` and proofs; `IdvIdentity` and proofs; `ExactPercentage`, `OwnershipGraph`
and proofs; `OwnershipCase`, `DecisionApplication` and proofs; `CompaniesHouseCollection`,
`TargetedInterpretation`, `EvidencePackages`, `KeyedOperation` and proofs. Left:

Possibly A3 and A4, whose rows are append-only, beside R2 in the composition.

## 7. Not modelled

* Cryptography, signature and token checks, HTTP parsing and provider normalisation: they
  decide whether and with which input a modelled operation starts.
* Single inserts and reads without an ordering to get wrong: `recordPocGroundTruth`,
  `recordActualConfirmedCost`, metrics, `reopen`, the read-only Evidence consumer.
* Evidence A3, A4a and A4b: runs and assessments are appended and refer to rows that exist;
  A1's and R4's checks of the shape of a bundle.
* UBO: the planner and `resolutionOrchestration`, `companyPscAttributionV1`,
  `llpPscAttributionV1`, `layerClosure` and `requirementResolution` (rule tables of the policy,
  whose meaning is in documents and not in another part of the code to check against),
  control rights, version 3 of the application, `reResolveDecision` and the V2 history.
* Dossier lifecycle: a table that a pure function looks up; nothing persists the state it
  returns, and a model would restate the table. Re-research cap: its increment is not
  reached (section 1).
* Configuration: what two overlapping publishes do is known (section 4) and nothing is
  promised about it. Onboarding submission: a straight line of best-effort statements.
* Prompts, agents, research and caching; React screens, harnesses, demos, migrations and
  scripts; in-memory test doubles. They are most of the repository's lines, and hold state
  whose order a state machine has nothing to say about.

The components and the reason for each are in PROJECT.json.
