------------------------------- MODULE Lifecycle -------------------------------
(***************************************************************************)
(* The life of the agent's process (run in src/main.go) around the           *)
(* submission gate: one listener or two, requests that come in through them  *)
(* and go through the gate, a signal or a listener's error that ends run,    *)
(* and the shutdown, one listener after the other under one grace period,    *)
(* that closes them and waits for the requests in flight; then the process   *)
(* ends, whatever is left in it, and launchd starts the next.                *)
(*                                                                         *)
(* A request may be rejected, answered without a job, or wait, hold and      *)
(* leave the gate; what happens inside is PrintGate's subject.  Nothing      *)
(* bounds the time its body takes to arrive (main.go sets no ReadTimeout).   *)
(***************************************************************************)
EXTENDS PrintOrder, Naturals, Sequences

CONSTANT MaxEnds   \* bound on signals, failing listeners and failing starts

ASSUME MaxEndsAssumption == MaxEnds \in Nat

VARIABLES phase,      \* "down", "up" or "stopping"
          servers,    \* the servers Shutdown was not called for yet, in order
          draining,   \* the one whose Shutdown waits, or NoServer
          open,       \* the servers whose port is open
          failed,     \* the servers whose ListenAndServe returned an error
          graceOver,  \* has shutdownGrace passed?
          at,         \* per request: "idle", "body" or "gate"
          via,        \* the server it came in through
          ends

process == <<phase, servers, draining, open, failed, graceOver, ends>>
requests == <<at, via>>
vars == <<orderVars, process, requests>>

Servers == {"plain", "secure"}
NoServer == "none"
Listed(list) == {list[i] : i \in DOMAIN list}
InFlight(server) == {r \in Requests : at[r] # "idle" /\ via[r] = server}

Init ==
    /\ OrderInit
    /\ phase = "down" /\ servers = <<>> /\ draining = NoServer
    /\ open = {} /\ failed = {} /\ graceOver = FALSE /\ ends = 0
    /\ at = [r \in Requests |-> "idle"]
    /\ via = [r \in Requests |-> NoServer]

End == ends < MaxEnds /\ ends' = ends + 1

-----------------------------------------------------------------------------
(* launchd starts the agent, when it does: it may hold the restart for as    *)
(* long as the login domain is in on-demand-only mode (RUNBOOK.md:831).      *)
(* The secure server needs the pair of files.                                *)
Launch ==
    /\ phase = "down"
    /\ phase' = "up"
    /\ servers' \in {<<"plain">>, <<"plain", "secure">>}
    /\ UNCHANGED <<orderVars, draining, open, failed, graceOver, ends, requests>>

(* no lp or lpstat, no log, or a wrong configuration *)
LaunchFails ==
    /\ phase = "down"
    /\ End
    /\ UNCHANGED <<orderVars, phase, servers, draining, open, failed, graceOver, requests>>

(* Each server listens in a goroutine of its own. *)
Listen(server) ==
    /\ phase # "down"
    /\ server \in Listed(servers) \ (open \cup failed)
    /\ open' = open \cup {server}
    /\ UNCHANGED <<orderVars, phase, servers, draining, failed, graceOver, ends, requests>>

(* The port is taken, the pair of files is not one, or accepting failed. *)
ListenerFails(server) ==
    /\ phase = "up"
    /\ server \in Listed(servers) \ failed
    /\ End
    /\ failed' = failed \cup {server}
    /\ open' = open \ {server}
    /\ UNCHANGED <<orderVars, phase, servers, draining, graceOver, requests>>

(* Fault: the agent goes on as long as it has a server left. *)
NoticeFailureOfAll ==
    /\ phase = "up"
    /\ failed = Listed(servers)
    /\ phase' = "stopping"
    /\ UNCHANGED <<orderVars, servers, draining, open, failed, graceOver, ends, requests>>

NoticeFailure ==
    /\ phase = "up"
    /\ failed # {}
    /\ phase' = "stopping"
    /\ UNCHANGED <<orderVars, servers, draining, open, failed, graceOver, ends, requests>>

(* SIGTERM or an interrupt *)
Signal ==
    /\ phase = "up"
    /\ End
    /\ phase' = "stopping"
    /\ UNCHANGED <<orderVars, servers, draining, open, failed, graceOver, requests>>

-----------------------------------------------------------------------------
(* Fault: Shutdown is called for the plain server only. *)
ShutdownPlain ==
    /\ phase = "stopping"
    /\ draining = NoServer
    /\ servers # <<>>
    /\ draining' = Head(servers)
    /\ servers' = <<>>
    /\ open' = open \ {Head(servers)}
    /\ UNCHANGED <<orderVars, phase, failed, graceOver, ends, requests>>

(* Shutdown closes the port and waits; the next server stays open meanwhile. *)
Shutdown ==
    /\ phase = "stopping"
    /\ draining = NoServer
    /\ servers # <<>>
    /\ draining' = Head(servers)
    /\ servers' = Tail(servers)
    /\ open' = open \ {Head(servers)}
    /\ UNCHANGED <<orderVars, phase, failed, graceOver, ends, requests>>

(* Fault: the wait has no limit. *)
ShutdownReturnsDrained ==
    /\ draining # NoServer
    /\ InFlight(draining) = {}
    /\ draining' = NoServer
    /\ UNCHANGED <<orderVars, phase, servers, open, failed, graceOver, ends, requests>>

ShutdownReturns ==
    /\ draining # NoServer
    /\ InFlight(draining) = {} \/ graceOver
    /\ draining' = NoServer
    /\ UNCHANGED <<orderVars, phase, servers, open, failed, graceOver, ends, requests>>

GraceEnds ==
    /\ phase = "stopping"
    /\ ~graceOver
    /\ graceOver' = TRUE
    /\ UNCHANGED <<orderVars, phase, servers, draining, open, failed, ends, requests>>

(* Fault: a shared caller's turn outlives the process. *)
ExitKeepingGate ==
    /\ phase = "stopping" /\ servers = <<>> /\ draining = NoServer
    /\ phase' = "down" /\ open' = {} /\ failed' = {} /\ graceOver' = FALSE
    /\ at' = [r \in Requests |-> "idle"]
    /\ via' = [r \in Requests |-> NoServer]
    /\ UNCHANGED <<orderVars, servers, draining, ends>>

(* run returns, and the process ends with whatever is still in flight. *)
Exit ==
    /\ phase = "stopping" /\ servers = <<>> /\ draining = NoServer
    /\ phase' = "down" /\ open' = {} /\ failed' = {} /\ graceOver' = FALSE
    /\ at' = [r \in Requests |-> "idle"]
    /\ via' = [r \in Requests |-> NoServer]
    /\ Reset
    /\ UNCHANGED <<servers, draining, ends>>

-----------------------------------------------------------------------------
Arrive(r, server) ==
    /\ at[r] = "idle"
    /\ server \in open
    /\ at' = [at EXCEPT ![r] = "body"]
    /\ via' = [via EXCEPT ![r] = server]
    /\ UNCHANGED <<orderVars, process>>

(* The answer is short and does not wait for its reader. *)
Answer(r) ==
    /\ at' = [at EXCEPT ![r] = "idle"]
    /\ via' = [via EXCEPT ![r] = NoServer]
    /\ UNCHANGED process

(* anything that is no print job, or does not become one *)
Dismiss(r) == at[r] = "body" /\ Answer(r) /\ UNCHANGED orderVars

AskForGate(r) ==
    /\ at[r] = "body"
    /\ at' = [at EXCEPT ![r] = "gate"]
    /\ RLock(r) \/ Lock(r)
    /\ UNCHANGED <<process, via>>

(* the lock hands itself over *)
Pass(r) == (Announce(r) \/ Enter(r)) /\ UNCHANGED <<process, requests>>

LeaveGate(r) == at[r] = "gate" /\ (RUnlock(r) \/ Unlock(r)) /\ Answer(r)

Handle(r) ==
    \/ \E server \in Servers : Arrive(r, server)
    \/ Dismiss(r) \/ AskForGate(r) \/ Pass(r) \/ LeaveGate(r)

(* the process's own steps, of which each life has only so many *)
Run ==
    \/ NoticeFailure \/ Shutdown \/ ShutdownReturns \/ GraceEnds \/ Exit
    \/ \E server \in Servers : Listen(server)

Next ==
    \/ Launch \/ Run \/ LaunchFails \/ Signal
    \/ \E server \in Servers : ListenerFails(server)
    \/ \E r \in Requests : Handle(r)

Spec == Init /\ [][Next]_vars

(***************************************************************************)
(* run goes on and its timer fires; a holder leaves the gate, because all it *)
(* does there is bounded by command timeouts; the lock hands itself over,    *)
(* and its writers' mutex is fair to each claimant (Go's mutex goes in order *)
(* to waiters older than a millisecond), hence SF.  A body need not arrive,  *)
(* and launchd need not start what ended: "KeepAlive is not unconditional".  *)
(***************************************************************************)
Fairness ==
    /\ WF_vars(Run)
    /\ \A r \in Requests : WF_vars(LeaveGate(r)) /\ SF_vars(Pass(r))

FairSpec == Spec /\ Fairness

-----------------------------------------------------------------------------
(* Only a request in flight waits for the gate or holds it, in the process   *)
(* it came to, and a server that failed is not open.                         *)
TypeOK ==
    /\ OrderTypeOK
    /\ phase \in {"down", "up", "stopping"}
    /\ Listed(servers) \subseteq Servers
    /\ draining \in (Servers \cup {NoServer}) \ Listed(servers)
    /\ open \subseteq Servers \ failed
    /\ failed \subseteq Servers
    /\ graceOver \in BOOLEAN
    /\ at \in [Requests -> {"idle", "body", "gate"}]
    /\ via \in [Requests -> Servers \cup {NoServer}]
    /\ \A r \in Requests : at[r] = "gate" <=> Holds(r) \/ Waits(r)
    /\ ends \in 0..MaxEnds

(* A request stuck for good, in its body or behind one that is, cannot keep  *)
(* a stopping agent from ending (src/main.go:131-136).                       *)
ShutdownEnds == phase = "stopping" ~> phase = "down"

(* "shutdownGrace bounds how long in-flight requests get to finish"          *)
(* (src/main.go:32): whichever server they came in through, even after the   *)
(* shutdown began, no request is dropped before the grace period is over.    *)
SeveredOnlyByGrace ==
    [][phase = "stopping" /\ phase' = "down" =>
           graceOver \/ \A r \in Requests : at[r] = "idle"]_vars

(* The agent does not stay half alive: a process one of whose servers failed *)
(* ends, also while the other serves (src/main.go:123-136), so that launchd, *)
(* which only sees the process, can start a whole one.                       *)
HalfServedEnds == phase = "up" /\ failed # {} ~> phase = "down"
=============================================================================
