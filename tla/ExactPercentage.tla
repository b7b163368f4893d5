--------------------------- MODULE ExactPercentage ---------------------------
(***************************************************************************)
(* Percentages and intervals of percentages                                *)
(* (ubo-control/domain/exactPercentage.js).  The code computes with exact  *)
(* rationals.  Here a percentage is a natural number of parts, Hundred of  *)
(* which are 100%, and the inputs are multiples of Hundred \div Step:      *)
(* Hundred is the power of Step that keeps a product of Depth inputs a     *)
(* whole number of parts, so that nothing is rounded, as in the code.      *)
(***************************************************************************)
EXTENDS Integers, Functions

CONSTANTS Step,     \* 100% is divided into Step equal inputs
          Depth,    \* factors in the longest product
          Hundred   \* parts in 100%

Power[n \in Nat] == IF n = 0 THEN 1 ELSE Step * Power[n - 1]

ASSUME HundredAssumption == Hundred \in Nat \ {0}
ASSUME StepAssumption == Step \in Nat \ {0} /\ Depth \in Nat \ {0}
ASSUME WholeAssumption == Hundred = Power[Depth]

Grid == {k * (Hundred \div Step) : k \in 0..Step}

\* An interval with its ends and whether they belong to it.
Interval == [lower : Nat, upper : Nat,
             lowerInclusive : BOOLEAN, upperInclusive : BOOLEAN]

\* What is accepted as a measurement: percentages, and no empty range.
Measurement ==
  {i \in Interval : /\ i.lower \in Grid /\ i.upper \in Grid /\ i.lower <= i.upper
                    /\ i.lower = i.upper => i.lowerInclusive /\ i.upperInclusive}

ExactInterval(v) ==
  [lower |-> v, upper |-> v, lowerInclusive |-> TRUE, upperInclusive |-> TRUE]

Contains(i, v) ==
  /\ IF i.lowerInclusive THEN i.lower <= v ELSE i.lower < v
  /\ IF i.upperInclusive THEN v <= i.upper ELSE v < i.upper

ContainsZero(i) == i.lower = 0 /\ i.lowerInclusive

\* A share of a share.  An end at zero is attained when either factor
\* attains zero, whatever the other one does.
MultiplyPercentageIntervals(l, r) ==
  LET lower == (l.lower * r.lower) \div Hundred
      upper == (l.upper * r.upper) \div Hundred
      zero  == ContainsZero(l) \/ ContainsZero(r)
  IN [lower |-> lower, upper |-> upper,
      lowerInclusive |-> IF lower = 0 THEN zero
                         ELSE l.lowerInclusive /\ r.lowerInclusive,
      upperInclusive |-> IF upper = 0 THEN zero
                         ELSE l.upperInclusive /\ r.upperInclusive]

\* Mutant: The sum attains an end as soon as one summand does.
AddEitherEnd(l, r) ==
  [lower |-> l.lower + r.lower, upper |-> l.upper + r.upper,
   lowerInclusive |-> l.lowerInclusive \/ r.lowerInclusive,
   upperInclusive |-> l.upperInclusive \/ r.upperInclusive]

AddIntervals(l, r) ==
  [lower |-> l.lower + r.lower, upper |-> l.upper + r.upper,
   lowerInclusive |-> l.lowerInclusive /\ r.lowerInclusive,
   upperInclusive |-> l.upperInclusive /\ r.upperInclusive]

CapPercentageInterval(i) ==
  IF i.upper <= Hundred THEN i
  ELSE [i EXCEPT !.upper = Hundred, !.upperInclusive = TRUE]
==============================================================================
