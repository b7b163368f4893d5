--------------------------- MODULE MCOwnershipGraph --------------------------
(* Small instances of OwnershipGraph for TLC: three holders around a        *)
(* customer, every edge among them, and claims of every kind.               *)
EXTENDS OwnershipGraph, TLC

Half == Hundred \div 2
Quarter == Hundred \div 4

\* Exactly 50%; 0% to 50%; more than 25% up to 75%; not known.
Measures ==
  {ExactInterval(Half),
   [lower |-> 0, upper |-> Half, lowerInclusive |-> TRUE, upperInclusive |-> TRUE],
   [lower |-> Quarter, upper |-> 3 * Quarter, lowerInclusive |-> FALSE, upperInclusive |-> TRUE],
   Unknown}

Form(x) ==
  IF x = Unknown THEN "UNKNOWN" ELSE IF x.lower = x.upper THEN "EXACT" ELSE "RANGE"

Claim(id, s, o, d, q, x) ==
  [claimId |-> id, subject |-> s, object |-> o, dimension |-> d,
   qualifiers |-> q, measurement |-> x, form |-> Form(x)]

Plain == {Claim(1, s, o, Dimension, {"CURRENT", Concept}, x) :
            s \in Entities, o \in Entities, x \in Measures}

\* A second claim of the same, most of another class, one that has
\* ceased, one of unknown date, one that contradicts itself, a vote, an
\* unmeasured and a measured interest of no concept, and one whose
\* measurement is missing where another claim says that it is unknown.
Special(s) ==
  {Claim(2, s, Target, Dimension, {"CURRENT", Concept}, ExactInterval(Half)),
   Claim(3, s, Target, Dimension, {"CURRENT", "CLASS_B", Concept},
         [lower |-> 3 * Quarter, upper |-> Hundred,
          lowerInclusive |-> TRUE, upperInclusive |-> FALSE]),
   Claim(4, s, Target, Dimension, {"CEASED", Concept}, ExactInterval(Half)),
   Claim(5, s, Target, Dimension, {Concept}, ExactInterval(Half)),
   Claim(6, s, Target, Dimension, {"CURRENT", "CEASED", Concept}, ExactInterval(Half)),
   Claim(7, s, Target, "VOTING", {"CURRENT"}, ExactInterval(Half)),
   Claim(8, s, Target, Dimension, {"CURRENT"}, Unknown),
   Claim(9, s, Target, Dimension, {"CURRENT", "CLASS_B"}, ExactInterval(Half)),
   [Claim(10, s, Target, Dimension, {"CURRENT", Concept}, Unknown) EXCEPT !.form = "MISSING"]}

MCClaims ==
  {c \in Plain : /\ c.subject = c.object => c.measurement = ExactInterval(Half)
                 /\ c.subject = Target => c.measurement = ExactInterval(Half)}
  \cup UNION {Special(s) : s \in Entities \ {Target}}

\* A quarter: the threshold of the policy packs.
MCThreshold == Quarter

\* The holders are not told apart.
Symmetry == Permutations(Entities \ {Target})
==============================================================================
