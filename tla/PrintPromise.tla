----------------------------- MODULE PrintPromise -----------------------------
(***************************************************************************)
(* What the print routes promise their caller and the printer, without the  *)
(* locks, the processes and the timeouts that keep the promise:             *)
(*                                                                         *)
(*   - jobs land in each queue one after another, and a request lands at    *)
(*     most one job of its own;                                             *)
(*   - the page of an inverting document changes the printer's saved        *)
(*     settings and opens a bracket; nothing of this agent lands, on any    *)
(*     queue, until the bracket is closed by the restoration or given up;   *)
(*   - "sent" is said only of a job that landed, and of a page only when    *)
(*     its bracket was closed.                                              *)
(***************************************************************************)
EXTENDS Sequences

CONSTANTS Requests, NoRequest, Queues

VARIABLES stream,   \* per queue, the jobs CUPS accepted, oldest first
          open,     \* the request whose bracket is open
          told      \* what each caller was told

promiseVars == <<stream, open, told>>

Landed(r, kinds) ==
    \E q \in Queues : \E i \in DOMAIN stream[q] :
        stream[q][i].request = r /\ stream[q][i].kind \in kinds

Append1(q, r, kind) ==
    stream' = [stream EXCEPT ![q] = Append(@, [request |-> r, kind |-> kind])]

Init ==
    /\ stream = [q \in Queues |-> << >>]
    /\ open = NoRequest
    /\ told = [r \in Requests |-> "pending"]

Job(r, q) ==
    /\ told[r] = "pending"
    /\ open = NoRequest
    /\ ~Landed(r, {"raw", "document", "inverting"})
    /\ \/ \E kind \in {"raw", "document"} : Append1(q, r, kind) /\ open' = open
       \/ Append1(q, r, "inverting") /\ open' = r
    /\ UNCHANGED told

Restore(r, q) ==
    /\ told[r] = "pending"
    /\ open = r
    /\ Append1(q, r, "restore")
    /\ stream[q] # << >>
    /\ stream[q][Len(stream[q])] = [request |-> r, kind |-> "inverting"]
    /\ open' = NoRequest
    /\ UNCHANGED told

GiveUp ==
    /\ open # NoRequest
    /\ open' = NoRequest
    /\ UNCHANGED <<stream, told>>

Tell(r) ==
    /\ told[r] = "pending"
    /\ open # r
    /\ \/ /\ \/ Landed(r, {"raw", "document"})
             \/ Landed(r, {"restore"})
          /\ told' = [told EXCEPT ![r] = "sent"]
       \/ told' = [told EXCEPT ![r] = "failed"]
    /\ UNCHANGED <<stream, open>>

(* the process ends and takes the open connections with it *)
Lose ==
    /\ \E R \in SUBSET {r \in Requests : told[r] = "pending"} :
           told' = [r \in Requests |-> IF r \in R THEN "lost" ELSE told[r]]
    /\ open' = NoRequest
    /\ UNCHANGED stream

Next ==
    \/ \E r \in Requests, q \in Queues : Job(r, q) \/ Restore(r, q)
    \/ \E r \in Requests : Tell(r)
    \/ GiveUp
    \/ Lose

Spec == Init /\ [][Next]_promiseVars
=============================================================================
