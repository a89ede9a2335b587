----------------------------- MODULE MCPrintGate -----------------------------
(* PrintGate for TLC.  Every request is served once, so a behaviour comes to *)
(* rest when all of them are over; that, and nothing else, is not a deadlock. *)
EXTENDS PrintGate

AtRest ==
    /\ \A r \in Requests : pc[r] \in {"done", "lost"}
    /\ UNCHANGED vars

MCSpec == Init /\ [][Next \/ AtRest]_vars

MCFairSpec == MCSpec /\ Fairness
=============================================================================
