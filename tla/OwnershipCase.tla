---------------------------- MODULE OwnershipCase ----------------------------
(***************************************************************************)
(* The ownership case (ubo-control/domain/ownershipCase.js): an immutable  *)
(* value that every operation answers with a new revision of, or refuses.  *)
(*                                                                         *)
(* A request of applyDecisions registers entities one by one, then records *)
(* identity decisions, then adjudications, each against the case that the  *)
(* ones before it left, and is refused as a whole if one of them is        *)
(* (createUboDecisionApplication.js:331-359).  It is given here at once.   *)
(***************************************************************************)
EXTENDS Integers, Sequences, FiniteSetsExt

CONSTANTS
  Operations,      \* operation ids that callers choose
  Facts,           \* fact ids within a capability result or customer input
  Relationships,   \* the facts that assert a relationship, not an attribute
  HostEntities     \* entities that hosts register

ASSUME RelationshipsAssumption == Relationships \subseteq Facts

\* The person that a customer registers with an operation.
CustomerPerson(op) == <<"customer person", op>>
Entities == HostEntities \cup {CustomerPerson(op) : op \in Operations}
NoEntity == <<"no entity">>

ClaimIds == Operations \X Facts
Parties == ClaimIds \X {"SUBJECT", "OBJECT"}

Terminal == {"SUPERSEDED", "REJECTED"}
ClaimStates == {"CANDIDATE", "OPERATIVE", "PROVISIONAL", "DISPUTED"} \cup Terminal

IdentityDecision == [party : Parties, status : {"RESOLVED", "UNRESOLVED", "REJECTED"},
                     entity : Entities \cup {NoEntity}]
Adjudication == [claim : ClaimIds, previous : ClaimStates, resulting : ClaimStates]
CustomerInput == [operation : Operations, snapshot : Nat \ {0}]

PartiesOf(c) ==
  {<<c, "SUBJECT">>} \cup IF c[2] \in Relationships THEN {<<c, "OBJECT">>} ELSE {}

Claims(k) == DOMAIN k.status
KnownParties(k) == UNION {PartiesOf(c) : c \in Claims(k)}

NewCase ==
  [revision |-> 1, entities |-> {}, status |-> [c \in {} |-> "CANDIDATE"],
   identities |-> <<>>, adjudications |-> <<>>, intakes |-> {}, inputs |-> <<>>]

WithCandidates(k, cs) ==
  [c \in Claims(k) \cup cs |-> IF c \in Claims(k) THEN k.status[c] ELSE "CANDIDATE"]

------------------------------------------------------------------------------
(* Intake of a capability result.  A result whose outcome allows no claims *)
(* is one without facts.                                                   *)

CanIntake(k, op, facts) ==
  /\ op \notin k.intakes
  /\ Claims(k) \cap ({op} \X facts) = {}

AfterIntake(k, op, facts) ==
  [k EXCEPT !.revision = @ + 1, !.intakes = @ \cup {op},
            !.status = WithCandidates(k, {op} \X facts)]

------------------------------------------------------------------------------
(* Explicit decisions.                                                     *)

CanResolve(k, registered, ids) ==
  \A i \in DOMAIN ids :
    /\ ids[i].party \in KnownParties(k)
    /\ ids[i].status = "UNRESOLVED" => ids[i].entity = NoEntity
    /\ ids[i].status = "RESOLVED" => ids[i].entity # NoEntity
    /\ ids[i].entity # NoEntity => ids[i].entity \in k.entities \cup registered

\* Status of claim c after the first n of these adjudications.
StatusAfter(status, as, n, c) ==
  LET mine == {i \in 1..n : as[i].claim = c}
  IN IF mine = {} THEN status[c] ELSE as[Max(mine)].resulting

\* Mutant: the caller's view of the claim is taken as it is.
AdjudicateUnseen(k, as) ==
  \A i \in DOMAIN as :
    /\ as[i].claim \in Claims(k)
    /\ as[i].resulting \notin {"CANDIDATE", as[i].previous}
    /\ as[i].previous \notin Terminal

CanAdjudicate(k, as) ==
  \A i \in DOMAIN as :
    /\ as[i].claim \in Claims(k)
    /\ as[i].previous = StatusAfter(k.status, as, i - 1, as[i].claim)
    /\ as[i].resulting \notin {"CANDIDATE", as[i].previous}
    /\ as[i].previous \notin Terminal

CanDecide(k, r) ==
  /\ r.entities \cap k.entities = {}
  /\ CanResolve(k, r.entities, r.identities)
  /\ CanAdjudicate(k, r.adjudications)

AfterDecisions(k, r) ==
  [k EXCEPT
    !.revision = @ + Cardinality(r.entities) + Len(r.identities) + Len(r.adjudications),
    !.entities = @ \cup r.entities,
    !.identities = @ \o r.identities,
    !.adjudications = @ \o r.adjudications,
    !.status = [c \in Claims(k) |->
                 StatusAfter(k.status, r.adjudications, Len(r.adjudications), c)]]

------------------------------------------------------------------------------
(* Customer input.  Its claims may meet those of a capability operation of *)
(* the same id only in nextRevision, which then refuses the draft.         *)

CanRecordInput(k, op, facts, new) ==
  /\ \A i \in DOMAIN k.inputs : k.inputs[i].operation # op
  /\ new \cap k.entities = {}
  /\ Claims(k) \cap ({op} \X facts) = {}

\* resolved: identity decisions that the input's explicit references make.
AfterInput(k, op, facts, new, resolved, snapshot) ==
  [k EXCEPT !.revision = @ + 1,
            !.entities = @ \cup new,
            !.status = WithCandidates(k, {op} \X facts),
            !.identities = @ \o resolved,
            !.inputs = Append(@, [operation |-> op, snapshot |-> snapshot])]

------------------------------------------------------------------------------
(* What is still to decide, and what counts.                               *)

Decisions(k, p) == {i \in DOMAIN k.identities : k.identities[i].party = p}
LatestDecision(k, p) == k.identities[Max(Decisions(k, p))]

Resolved(k, p) == Decisions(k, p) # {} /\ LatestDecision(k, p).status = "RESOLVED"

CandidateClaims(k) == {c \in Claims(k) : k.status[c] = "CANDIDATE"}
CandidateParties(k) ==
  {p \in UNION {PartiesOf(c) : c \in {d \in Claims(k) : k.status[d] \notin Terminal}} :
     Decisions(k, p) = {}}

GraphEligible(k) ==
  {c \in Claims(k) : /\ c[2] \in Relationships
                     /\ k.status[c] = "OPERATIVE"
                     /\ \A p \in PartiesOf(c) : Resolved(k, p)}
==============================================================================
