------------------------- MODULE MCEvidenceIngestion -------------------------
(* Small instances of EvidenceIngestion for TLC.                            *)
EXTENDS EvidenceIngestion, TLC

\* Neither handlers nor fingerprints are told apart by an action or a property.
Symmetry == Permutations(Handlers) \cup Permutations(Contents)
=============================================================================
