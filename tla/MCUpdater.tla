------------------------------- MODULE MCUpdater -------------------------------
(* Updater alone for TLC, with the same three builds. *)
EXTENDS Updater

CONSTANTS v1, v2, v3
=============================================================================
