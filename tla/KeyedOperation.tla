--------------------------- MODULE KeyedOperation ----------------------------
(***************************************************************************)
(* What an operation key promises (docs/evidence-platform/ADR.md:1176 for  *)
(* R2, :1797 for A5b): the key stands for one request, and whoever is told *)
(* a result for it is told the same one, with the request that was made.   *)
(***************************************************************************)
CONSTANTS Keys, Requests, Unbound

VARIABLES
  bound,   \* the request and the result that each key stands for
  told     \* what callers were told: key, their request, result

Init ==
  /\ bound = [k \in Keys |-> Unbound]
  /\ told = {}

Tell(k, q) ==
  /\ bound'[k] # Unbound
  /\ bound'[k].request = q
  /\ told' = told \cup {[key |-> k, request |-> q, result |-> bound'[k].result]}

\* The caller that binds the key may not live to be told.
Bind(k, q) ==
  /\ bound[k] = Unbound /\ bound'[k] # Unbound
  /\ bound'[k].request = q
  /\ \A l \in Keys \ {k} : bound'[l] = bound[l]
  /\ Tell(k, q) \/ UNCHANGED told

Again(k, q) == UNCHANGED bound /\ Tell(k, q)

Next ==
  \E k \in Keys, q \in Requests :
    Bind(k, q) \/ Again(k, q)

kvars == <<bound, told>>

Spec == Init /\ [][Next]_kvars
==============================================================================
