---------------------------- MODULE MCIdvService ----------------------------
(* Small instances of IdvService for TLC.                                   *)
EXTENDS IdvService, TLC

\* Handlers are interchangeable, and so are webhook ids: no action or property
\* names one of them.
Symmetry == Permutations(Handlers) \cup Permutations(Events)
=============================================================================
