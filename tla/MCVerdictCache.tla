---------------------------- MODULE MCVerdictCache ----------------------------
(* VerdictCache for TLC, with the two commands of the health verdict.        *)
EXTENDS VerdictCache, TLC

HealthFacets == <<"online", "accepting">>

Symmetry == Permutations(Callers)
=============================================================================
