------------------------- MODULE MCEvidencePackages --------------------------
(* Small instances of EvidencePackages for TLC.                             *)
EXTENDS EvidencePackages, TLC

MCAreas == <<"profile", "psc", "website">>
MCApiAreas == {"profile", "psc"}

Symmetry == Permutations(Callers) \cup Permutations(Contents) \cup Permutations(Purposes)
==============================================================================
