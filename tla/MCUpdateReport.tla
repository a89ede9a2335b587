---------------------------- MODULE MCUpdateReport ----------------------------
(* Updater, and the reader of its state, for TLC: two working builds and a   *)
(* broken one.                                                               *)
EXTENDS UpdateReport

CONSTANTS v1, v2, v3
=============================================================================
