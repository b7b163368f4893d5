---------------------------- MODULE MCIdvIdentity ----------------------------
(* Small instances of IdvIdentity for TLC.                                  *)
EXTENDS IdvIdentity, TLC

\* Callers are not told apart by an action or an invariant.
Symmetry == Permutations(Procs)
=============================================================================
