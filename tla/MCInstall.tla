------------------------------- MODULE MCInstall -------------------------------
(***************************************************************************)
(* Install on TLC: a few pairs that are alike.                              *)
(***************************************************************************)
EXTENDS Install, TLC

Alike == Permutations(Certs)
=============================================================================
