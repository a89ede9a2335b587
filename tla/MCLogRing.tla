------------------------------- MODULE MCLogRing -------------------------------
(* LogRing for TLC.  A behaviour ends when MaxRecords have been handed over. *)
EXTENDS LogRing

AtRest ==
    /\ stage = "ready"
    /\ last = MaxRecords
    /\ UNCHANGED vars

MCSpec == Init /\ [][Next \/ AtRest]_vars
=============================================================================
