--------------------------- MODULE OwnershipGraph ----------------------------
(***************************************************************************)
(* From the operative relationship claims of an ownership case to the      *)
(* determination of who holds more than the threshold of the customer:     *)
(* the canonical graph (domain/ownershipGraph.js), the look-through of     *)
(* percentages along its paths (domain/percentageCalculation.js), planned  *)
(* for every holder upstream of the customer as evaluate does              *)
(* (application/createUboDecisionApplication.js), and the three-valued     *)
(* threshold test, withheld where the interest may not be of the concept   *)
(* that the policy asks for (policy/policyDetermination.js).  One claim    *)
(* after the other becomes operative; the case is evaluated after each.    *)
(*                                                                         *)
(* The properties do not follow the code's paths: they ask for every       *)
(* assignment of percentages that the claims allow what share the holder   *)
(* really has, by looking through one level at a time.                     *)
(***************************************************************************)
EXTENDS ExactPercentage, FiniteSetsExt

CONSTANTS
  Entities,     \* canonical entities of the case
  Target,       \* the customer
  Dimensions,   \* interests that can be multiplied: economic, voting
  Dimension,    \* the one looked at
  Claims,       \* relationship claims that may become operative
  MaxClaims,
  Threshold,    \* percent_exclusive parameter, in parts
  Concept,      \* what the policy's entity profile expects of an interest
  Unknown       \* measurement that is missing or of type UNKNOWN

ASSUME TargetAssumption == Target \in Entities
ASSUME EntitiesAssumption == IsFiniteSet(Entities)
\* Looking through as many levels as there are entities multiplies as many
\* inputs.
ASSUME DepthAssumption == Cardinality(Entities) <= Depth
ASSUME DimensionAssumption == Dimension \in Dimensions
ASSUME ThresholdAssumption == Threshold \in Nat
\* Endpoints are resolved to canonical entities before a claim becomes
\* operative, and validateCandidateClaim accepts no other measurements.
ASSUME ClaimsAssumption ==
  \A c \in Claims : /\ c.subject \in Entities /\ c.object \in Entities
                    /\ c.measurement \in Measurement \cup {Unknown}

VARIABLES
  operative,    \* claims adjudicated OPERATIVE, endpoints resolved
  evaluation    \* what evaluate() answers for them

vars == <<operative, evaluation>>

------------------------------------------------------------------------------
(* The graph.                                                              *)

Contradictory(c) == {"CURRENT", "CEASED"} \subseteq c.qualifiers

TemporalState(c) ==
  IF "CURRENT" \in c.qualifiers THEN "CURRENT"
  ELSE IF "CEASED" \in c.qualifiers THEN "CEASED"
  ELSE "UNKNOWN"

Slot(c) == [subject |-> c.subject, object |-> c.object,
            dimension |-> c.dimension, qualifiers |-> c.qualifiers]

\* As the claim writes it: the same amount may be exact or a range, and an
\* unknown one missing or said to be unknown for some reason.
Written(c) == <<c.form, c.measurement>>

\* The temporal state follows from the qualifiers, so that claims of one
\* slot can differ in their measurement only.
Conflicting(cs) ==
  \E c, d \in cs : Slot(c) = Slot(d) /\ Written(c) # Written(d)

\* Mutant: one relationship per claim.
RelationshipsPerClaim(cs) ==
  {[claim |-> c.claimId, slot |-> Slot(c), subject |-> c.subject,
    object |-> c.object, dimension |-> c.dimension,
    temporal |-> TemporalState(c), measurement |-> c.measurement] : c \in cs}

\* Claims that say the same coalesce into one relationship.
Relationships(cs) ==
  {[slot |-> Slot(c), subject |-> c.subject, object |-> c.object,
    dimension |-> c.dimension, temporal |-> TemporalState(c),
    measurement |-> c.measurement] : c \in cs}

Minimum(r) == IF r.measurement = Unknown THEN 0 ELSE r.measurement.lower

\* Mutant: every relationship into the object is held against each of them.
ImpossibleTotalByEdge(rs) == \E r \in rs : Minimum(r) > Hundred

ImpossibleTotal(rs) ==
  \E o \in Entities, d \in Dimensions :
    SumFunctionOnSet([r \in rs |-> Minimum(r)],
                     {r \in rs : r.object = o /\ r.dimension = d
                                 /\ r.temporal = "CURRENT"}) > Hundred

------------------------------------------------------------------------------
(* The look-through.                                                       *)

Usable(rs) == {r \in rs : r.dimension = Dimension /\ r.temporal # "CEASED"}

\* Entities from which the target is reached.
ReverseReachable(us) ==
  LET upTo[n \in Nat] ==
        IF n = 0 THEN {Target}
        ELSE upTo[n - 1] \cup {r.subject : r \in {u \in us : u.object \in upTo[n - 1]}}
  IN upTo[Cardinality(Entities)]

\* Mutant: the customer is upstream of itself.
HoldersAll(us) == ReverseReachable(us)

\* planCalculations: everyone upstream of the customer.
Holders(us) == ReverseReachable(us) \ {Target}

\* A traversal of visit: the relationships it took, where it stands, the
\* entities it has seen, its product so far and whether all of it is known.
Start(s) == [trail |-> {}, at |-> s, visited |-> {s},
             share |-> ExactInterval(Hundred), known |-> TRUE]

Extend(p, r) ==
  [trail |-> p.trail \cup {r}, at |-> r.object, visited |-> p.visited \cup {r.object},
   share |-> IF r.measurement = Unknown THEN p.share
             ELSE MultiplyPercentageIntervals(p.share, r.measurement),
   known |-> p.known /\ r.measurement # Unknown /\ r.temporal # "UNKNOWN"]

Arrived(p) == p.at = Target /\ p.trail # {}

Onward(p, us, reachable) ==
  IF Arrived(p) THEN {}
  ELSE {r \in us : r.subject = p.at /\ r.object \in reachable}

\* All traversals from s along entities that reach the target.
Traversals(us, s) ==
  LET reachable == ReverseReachable(us)
      after[n \in Nat] ==
        IF n = 0 THEN {Start(s)}
        ELSE UNION {{Extend(p, r) : r \in {u \in Onward(p, us, reachable) :
                                            u.object \notin p.visited}} :
                    p \in after[n - 1]}
  IN UNION {after[n] : n \in 0..Cardinality(Entities)}

Cycles(us, ts) ==
  UNION {{p.trail \cup {r} : r \in {u \in Onward(p, us, ReverseReachable(us)) :
                                      u.object \in p.visited}} : p \in ts}

AggregateKnownPaths(known) ==
  CapPercentageInterval(MapThenFoldSet(AddIntervals, ExactInterval(0),
    LAMBDA p : p.share, LAMBDA S : CHOOSE p \in S : TRUE, known))

KnownPaths(paths) == {p \in paths : p.known}

\* Mutant: cycles do not matter as long as some path is known.
StatusOfPaths(paths, cycles) ==
  IF paths = {} /\ cycles = {} THEN "NO_PATH"
  ELSE IF paths = KnownPaths(paths) THEN "COMPLETE"
  ELSE IF KnownPaths(paths) # {} THEN "PARTIAL"
  ELSE "UNRESOLVED"

Status(paths, cycles) ==
  IF paths = {} /\ cycles = {} THEN "NO_PATH"
  ELSE IF cycles = {} /\ \A p \in paths : p.known THEN "COMPLETE"
  ELSE IF KnownPaths(paths) # {} THEN "PARTIAL"
  ELSE "UNRESOLVED"

------------------------------------------------------------------------------
(* The threshold.                                                          *)

WhollyAbove(i) == i.lower > Threshold \/ (i.lower = Threshold /\ ~i.lowerInclusive)

\* Mutant: what is known so far decides.
AssessKnown(status, known, value) ==
  IF status = "NO_PATH" \/ ~known THEN "INDETERMINATE"
  ELSE IF WhollyAbove(value) THEN "SATISFIED"
  ELSE IF value.upper <= Threshold THEN "NOT_SATISFIED"
  ELSE "INDETERMINATE"

Assess(status, known, value) ==
  IF status = "NO_PATH" \/ ~known THEN "INDETERMINATE"
  ELSE IF WhollyAbove(value) THEN "SATISFIED"
  ELSE IF status = "COMPLETE" /\ value.upper <= Threshold THEN "NOT_SATISFIED"
  ELSE "INDETERMINATE"

\* economicInterestConcept or votingConcept among the qualifiers.
ConceptEstablished(r) ==
  \/ Concept \in r.slot.qualifiers
  \/ Dimension = "VOTING" /\ Concept = "VOTING_RIGHTS"

Terminal(paths) == {r \in UNION {p.trail : p \in paths} : r.object = Target}

\* Mutant: paths that are not resolved are not asked.
ConceptOfKnownPaths(paths) ==
  \A r \in Terminal(KnownPaths(paths)) : ConceptEstablished(r)

\* Every path, known or not, ends in a relationship of the concept.
TerminalConceptEstablished(paths) ==
  \A r \in Terminal(paths) : ConceptEstablished(r)

\* makeCalculationBasis: no other concept passes for the one expected.
BasisState(paths, status, known, value) ==
  IF TerminalConceptEstablished(paths) THEN Assess(status, known, value)
  ELSE "INDETERMINATE"

\* The calculation for a holder, and the state of the basis made of it.
EffectivePercentage(us, s) ==
  LET ts     == Traversals(us, s)
      paths  == {p \in ts : Arrived(p)}
      known  == KnownPaths(paths)
      status == Status(paths, Cycles(us, ts))
      value  == AggregateKnownPaths(known)
  IN [status |-> status, known |-> known # {}, value |-> value,
      state |-> BasisState(paths, status, known # {}, value)]

NoHolders == [e \in {} |-> Unknown]

Evaluate(cs) ==
  LET rs == Relationships(cs)
      us == Usable(rs)
      failed(code) == [error |-> code, graph |-> {}, holders |-> NoHolders]
  IN IF \E c \in cs : Contradictory(c) THEN failed("CONTRADICTORY_TEMPORAL_STATE")
     ELSE IF Conflicting(cs) THEN failed("CONFLICTING_OPERATIVE_CLAIMS")
     ELSE IF ImpossibleTotal(rs) THEN failed("IMPOSSIBLE_MINIMUM_TOTAL")
     ELSE [error |-> "NONE", graph |-> rs,
           holders |-> [s \in Holders(us) |-> EffectivePercentage(us, s)]]

Init == operative = {} /\ evaluation = Evaluate({})

MakeOperative(c) ==
  /\ c \notin operative
  /\ Cardinality(operative) < MaxClaims
  /\ operative' = operative \cup {c}
  /\ evaluation' = Evaluate(operative')

Next == \E c \in Claims : MakeOperative(c)

Spec == Init /\ [][Next]_vars

------------------------------------------------------------------------------
(* What the claims mean, without paths.                                    *)

Usables == Usable(evaluation.graph)
Slots == {Slot(c) : c \in {d \in operative : d.dimension = Dimension
                                             /\ TemporalState(d) # "CEASED"}}

\* The percentages that a slot may stand for: those that all its claims
\* allow, and none at all if it may not be current.
Possible(slot) ==
  LET about == {c \in operative : Slot(c) = slot}
  IN {x \in Grid : \A c \in about : c.measurement = Unknown \/ Contains(c.measurement, x)}
     \cup {0 : x \in IF "CURRENT" \in slot.qualifiers THEN {} ELSE {0}}

\* All ways the interests can be, with no more than 100% in any entity.
\* There may be none: assertMinimumTotals does not look at open ends.
Worlds ==
  LET slots    == Slots
      possible == [i \in slots |-> Possible(i)]
  IN {w \in [slots -> UNION {possible[i] : i \in slots}] :
        /\ \A i \in slots : w[i] \in possible[i]
        /\ \A o \in Entities :
             SumFunctionOnSet(w, {i \in slots : i.object = o}) <= Hundred}

\* What each entity holds of the target in world w, through up to n levels.
Holding(w) ==
  LET through[n \in Nat] ==
        IF n = 0 THEN [e \in Entities |-> 0]
        ELSE LET part == [i \in DOMAIN w |->
                            IF i.object = Target THEN w[i]
                            ELSE (w[i] * through[n - 1][i.object]) \div Hundred]
             IN [e \in Entities |-> SumFunctionOnSet(part, {i \in DOMAIN w : i.subject = e})]
  IN through[Cardinality(Entities)]

Evaluated(s) == evaluation.holders[s]
SomeKnown == \E s \in DOMAIN evaluation.holders : Evaluated(s).known

------------------------------------------------------------------------------
(* Properties.                                                             *)

TypeOK ==
  /\ operative \subseteq Claims
  /\ evaluation.error \in {"NONE", "CONTRADICTORY_TEMPORAL_STATE",
                           "CONFLICTING_OPERATIVE_CLAIMS", "IMPOSSIBLE_MINIMUM_TOTAL"}
  /\ DOMAIN evaluation.holders \subseteq Entities \ {Target}
  /\ \A s \in DOMAIN evaluation.holders :
       /\ Evaluated(s).value \in Interval
       /\ Evaluated(s).status \in {"NO_PATH", "COMPLETE", "PARTIAL", "UNRESOLVED"}
       /\ Evaluated(s).state \in {"SATISFIED", "NOT_SATISFIED", "INDETERMINATE"}

\* However the interests really are, the share of a holder lies in the
\* interval of a COMPLETE calculation and not below that of a PARTIAL one
\* (percentageCalculation.js:130-197).
TrueShareInside ==
  SomeKnown => \A w \in Worlds : \A s \in DOMAIN evaluation.holders :
    LET e == Evaluated(s) IN
    /\ e.status = "COMPLETE" => Contains(e.value, Holding(w)[s])
    /\ e.status = "PARTIAL" =>
         IF e.value.lowerInclusive THEN e.value.lower <= Holding(w)[s]
         ELSE e.value.lower < Holding(w)[s]

\* A COMPLETE interval is as narrow as the claims allow at its lower end:
\* unless the claims cannot all be true, an end that belongs to it is the
\* share in some world
\* (exactPercentage.js:94-124).
LowerEndAttained ==
  SomeKnown /\ Worlds # {} => \A s \in DOMAIN evaluation.holders :
    Evaluated(s).status = "COMPLETE" /\ Evaluated(s).value.lowerInclusive =>
      \E w \in Worlds : Holding(w)[s] = Evaluated(s).value.lower

\* No interval says more than 100%, and none is empty unless the claims
\* cannot all be true: more than 25% and 75% pass assertMinimumTotals, and
\* give an interval that excludes 100% below and ends at 100%
\* (ownershipGraph.js:163-190, percentageCalculation.js:167-174).
WithinWhole ==
  \A s \in DOMAIN evaluation.holders : Evaluated(s).known =>
    LET i == Evaluated(s).value IN
    /\ i.lower <= i.upper
    /\ i.upper <= Hundred
    /\ i.lower = i.upper /\ Worlds # {} => i.lowerInclusive /\ i.upperInclusive

\* A holder found above the threshold, or not above it, is so in every world
\* (policyDetermination.js:137-171).
DeterminationRight ==
  SomeKnown => \A w \in Worlds : \A s \in DOMAIN evaluation.holders :
    /\ Evaluated(s).state = "SATISFIED" => Holding(w)[s] > Threshold
    /\ Evaluated(s).state = "NOT_SATISFIED" => Holding(w)[s] <= Threshold

\* Steps from e, as far as entities that reach the target.
Successors(e) == {r.object : r \in {u \in Usables : u.subject = e
                                       /\ u.object \in ReverseReachable(Usables)}}
Downstream(S, stop) ==
  LET upTo[n \in Nat] ==
        IF n = 0 THEN S
        ELSE upTo[n - 1] \cup UNION {Successors(e) : e \in upTo[n - 1] \ stop}
  IN upTo[Cardinality(Entities)]

\* A calculation is COMPLETE exactly when everything between holder and
\* target is current, measured and free of cycles
\* (percentageCalculation.js:79-128, :193-197).
StatusExplained ==
  \A s \in DOMAIN evaluation.holders :
    LET between == Downstream({s}, {Target}) \ {Target}
        open    == \E u \in Usables :
                     /\ u.subject \in between
                     /\ u.object \in ReverseReachable(Usables)
                     /\ u.temporal = "UNKNOWN" \/ u.measurement = Unknown
        cyclic  == \E e \in between : e \in Downstream(Successors(e), {Target})
    IN (Evaluated(s).status = "COMPLETE") <=> ~open /\ ~cyclic

\* An interest in the target of another concept than expected, or of none,
\* that s has itself or through others.
OtherConcept(s) ==
  \E u \in Usables : /\ u.object = Target /\ ~ConceptEstablished(u)
                     /\ u.subject \in Downstream({s}, {Target}) \ {Target}

\* Further operative claims may make a case unusable, but as long as it can
\* be evaluated a holder above the threshold remains so exactly until an
\* interest of another concept appears anywhere below the holder: then the
\* decision is withheld, be that interest measured or not
\* (policyDetermination.js:137-171 decides on a PARTIAL calculation too,
\* :211-224 and :241-244 ask for the concept).
OnlyConceptRevokes ==
  [][evaluation'.error = "NONE" =>
       \A s \in DOMAIN evaluation.holders :
         evaluation.holders[s].state = "SATISFIED" =>
           /\ s \in DOMAIN evaluation'.holders
           /\ evaluation'.holders[s].state =
                IF OtherConcept(s)' THEN "INDETERMINATE" ELSE "SATISFIED"]_vars

\* policies/uk-corporate/1.3-rc/policy.json:598 demands that "Cycles cannot
\* silently produce a numeric answer."  The code never looks beyond the
\* target, so that a cycle through it goes unnoticed.
CyclesReported ==
  \A s \in DOMAIN evaluation.holders :
    Evaluated(s).status = "COMPLETE" =>
      \A e \in Downstream({s}, {}) : e \notin Downstream(Successors(e), {})
==============================================================================
