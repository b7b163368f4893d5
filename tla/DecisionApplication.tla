------------------------- MODULE DecisionApplication -------------------------
(***************************************************************************)
(* Hosts and the stateless UBO decision application                        *)
(* (ubo-control/application/createUboDecisionApplication.js, version 2).   *)
(* Every call is given the sealed case and answers with a new one, so that *)
(* callers may work on different revisions, and two of them may derive     *)
(* different cases of the same revision number from one.  Evaluations      *)
(* extend the decision history (domain/decisionSnapshot.js) that the host  *)
(* keeps for the case.                                                     *)
(***************************************************************************)
EXTENDS OwnershipCase

CONSTANTS
  Callers,
  DecisionRequests,   \* requests of applyDecisions: entities, identities, adjudications
  MaxCalls,           \* bound on the calls that are answered
  NoCase

ASSUME CallsAssumption == MaxCalls \in Nat
ASSUME RequestsAssumption ==
  \A r \in DecisionRequests :
    /\ r.entities \subseteq HostEntities /\ IsFiniteSet(r.entities)
    /\ r.identities \in Seq(IdentityDecision)
    /\ r.adjudications \in Seq(Adjudication)

VARIABLES
  held,      \* the case that each caller last got
  known,     \* the number of decisions that each caller has read
  history,   \* decision history: the cases decided upon, oldest first
  calls

vars == <<held, known, history, calls>>

Init ==
  /\ held = [c \in Callers |-> NoCase]
  /\ known = [c \in Callers |-> 0]
  /\ history = <<>>
  /\ calls = 0

Holds(c) == held[c] # NoCase

Answer(c, k) ==
  /\ calls < MaxCalls
  /\ calls' = calls + 1
  /\ held' = [held EXCEPT ![c] = k]

\* Without a case the host sends the input of a new one.
Intake(c, op, facts) ==
  LET k == IF Holds(c) THEN held[c] ELSE NewCase
  IN /\ CanIntake(k, op, facts)
     /\ Answer(c, AfterIntake(k, op, facts))
     /\ UNCHANGED <<known, history>>

ApplyDecisions(c, r) ==
  /\ Holds(c)
  /\ CanDecide(held[c], r)
  /\ Answer(c, AfterDecisions(held[c], r))
  /\ UNCHANGED <<known, history>>

\* Mutant: an action on any decision of the case is accepted.
PinnedToCase(k, n) == TRUE

\* validateSource: the action's decision was taken on this revision.
Pinned(k, n) == history[n].revision = k.revision

\* An endpoint that refers to entity e is resolved to it by the input.
Resolution(op, facts, endpoint, e) ==
  IF facts = {} \/ e = NoEntity THEN <<>>
  ELSE <<[party |-> <<<<op, CHOOSE f \in facts : TRUE>>, endpoint>>,
          status |-> "RESOLVED", entity |-> e]>>

\* Bound: an action of the code may state several facts, which become claims
\* of one customer input all the same.
MaxFactsPerInput == 1

\* The input states facts whose subject is new, known or only named, and
\* whose object is the entity that the information need is about.
ApplyCustomerInput(c, op, facts, n, subject, object) ==
  LET new == {subject} \cap {CustomerPerson(op)}
  IN /\ Holds(c)
     /\ Pinned(held[c], n)
     /\ Cardinality(facts) <= MaxFactsPerInput
     /\ facts = {} => subject = NoEntity
     /\ object = NoEntity <=> facts \cap Relationships = {}
     /\ {subject, object} \subseteq held[c].entities \cup {NoEntity, CustomerPerson(op)}
     /\ object # CustomerPerson(op)
     /\ subject = CustomerPerson(op) => facts \subseteq Relationships
     /\ CanRecordInput(held[c], op, facts, new)
     /\ Answer(c, AfterInput(held[c], op, facts, new,
                             Resolution(op, facts, "SUBJECT", subject)
                               \o Resolution(op, facts, "OBJECT", object), n))
     /\ UNCHANGED <<known, history>>

\* Mutant: only claims are looked at.
NothingOpenClaims(k) == CandidateClaims(k) = {}

NothingOpen(k) == CandidateClaims(k) = {} /\ CandidateParties(k) = {}

\* appendDecisionSnapshot: the expected head is the head.
AtHead(c) == known[c] = Len(history)

\* Mutant: the decision is answered and not recorded.
EvaluateUnrecorded(c) ==
  /\ Holds(c)
  /\ NothingOpen(held[c])
  /\ AtHead(c)
  /\ Answer(c, held[c])
  /\ known' = [known EXCEPT ![c] = Len(history) + 1]
  /\ UNCHANGED history

Evaluate(c) ==
  /\ Holds(c)
  /\ NothingOpen(held[c])
  /\ AtHead(c)
  /\ Answer(c, held[c])
  /\ history' = Append(history, held[c])
  /\ known' = [known EXCEPT ![c] = Len(history) + 1]

\* The host hands a case, or the history, to another caller.
Take(c, d) ==
  /\ Holds(d) /\ held[c] # held[d]
  /\ held' = [held EXCEPT ![c] = held[d]]
  /\ UNCHANGED <<known, history, calls>>

ReadHistory(c) ==
  /\ known[c] # Len(history)
  /\ known' = [known EXCEPT ![c] = Len(history)]
  /\ UNCHANGED <<held, history, calls>>

Next ==
  \E c \in Callers :
    \/ \E op \in Operations, facts \in SUBSET Facts : Intake(c, op, facts)
    \/ \E r \in DecisionRequests : ApplyDecisions(c, r)
    \/ \E op \in Operations, facts \in SUBSET Facts, n \in DOMAIN history,
          subject, object \in Entities \cup {NoEntity} :
         ApplyCustomerInput(c, op, facts, n, subject, object)
    \/ Evaluate(c)
    \/ \E d \in Callers : Take(c, d)
    \/ ReadHistory(c)

Spec == Init /\ [][Next]_vars

------------------------------------------------------------------------------
(* Properties.                                                             *)

Cases == {held[c] : c \in {d \in Callers : Holds(d)}} \cup {history[n] : n \in DOMAIN history}

CaseType(k) ==
  /\ k.revision \in Nat \ {0}
  /\ k.entities \subseteq Entities
  /\ Claims(k) \subseteq ClaimIds
  /\ \A c \in Claims(k) : k.status[c] \in ClaimStates
  /\ k.identities \in Seq(IdentityDecision)
  /\ k.adjudications \in Seq(Adjudication)
  /\ k.intakes \subseteq Operations
  /\ k.inputs \in Seq(CustomerInput)

TypeOK ==
  /\ \A k \in Cases : CaseType(k)
  /\ known \in [Callers -> 0..Len(history)]
  /\ calls \in 0..MaxCalls

\* What validateOwnershipCase demands of every draft follows from the checks
\* of the operations: each claim stands as its adjudications leave it, and
\* they hang together (ownershipCase.js:280-290, :561-587).
AdjudicationsReplay ==
  \A k \in Cases : \A c \in Claims(k) :
    LET candidates == [d \in Claims(k) |-> "CANDIDATE"]
    IN /\ k.status[c] = StatusAfter(candidates, k.adjudications, Len(k.adjudications), c)
       /\ \A i \in DOMAIN k.adjudications : k.adjudications[i].claim = c =>
            /\ k.adjudications[i].previous
                 = StatusAfter(candidates, k.adjudications, i - 1, c)
            /\ \A j \in 1..(i - 1) : k.adjudications[j].claim = c =>
                 k.adjudications[j].resulting \notin Terminal

\* However callers take cases from each other, and whatever operation ids
\* they choose, the customer inputs of a case answer decisions of ever later
\* revisions: none is applied twice, or after the case has moved on
\* (applyCustomerInput.js:92-96).
InputsAnswerInOrder ==
  \A k \in Cases : \A j \in DOMAIN k.inputs :
    LET answered(i) == history[k.inputs[i].snapshot].revision
    IN /\ k.inputs[j].snapshot \in DOMAIN history
       /\ answered(j) < k.revision
       /\ \A i \in 1..(j - 1) : answered(i) < answered(j)

\* A decision leaves nothing out silently: an operative relationship of its
\* case is in the graph, between entities of the case, or one of its parties
\* was explicitly not resolved (createUboDecisionApplication.js:154-188,
\* ownershipCase.js:640-664).
DecisionsAccountForClaims ==
  \A n \in DOMAIN history :
    LET k == history[n] IN
    /\ \A c \in GraphEligible(k) : \A p \in PartiesOf(c) :
         LatestDecision(k, p).entity \in k.entities
    /\ \A c \in Claims(k) :
         k.status[c] = "OPERATIVE" /\ c[2] \in Relationships /\ c \notin GraphEligible(k) =>
           \E p \in PartiesOf(c) : /\ Decisions(k, p) # {}
                                   /\ LatestDecision(k, p).status # "RESOLVED"
==============================================================================
