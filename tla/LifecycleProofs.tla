---------------------------- MODULE LifecycleProofs ----------------------------
(***************************************************************************)
(* Proofs about the life of the agent's process, for any set of requests    *)
(* and any number of ends: its types, and that a shutdown drops nothing     *)
(* before its grace is over.  OrderInv, the lock's own contract, is part of  *)
(* the invariant because the types say who holds the gate.                  *)
(***************************************************************************)
EXTENDS Lifecycle, TLAPS

(* The lists of servers run makes, and what Shutdown leaves of them. *)
Lists == {<<>>, <<"plain">>, <<"secure">>, <<"plain", "secure">>}

(* The servers on each of them. *)
LEMMA ListedServers ==
    /\ Listed(<<>>) = {}
    /\ Listed(<<"plain">>) = {"plain"}
    /\ Listed(<<"secure">>) = {"secure"}
    /\ Listed(<<"plain", "secure">>) = {"plain", "secure"}
  <1>1. Listed(<<>>) = {}
    BY DEF Listed
  <1>2. Listed(<<"plain">>) = {"plain"}
    BY DEF Listed
  <1>3. Listed(<<"secure">>) = {"secure"}
    BY DEF Listed
  <1>4. Listed(<<"plain", "secure">>) = {"plain", "secure"}
    BY DEF Listed
  <1>5. QED
    BY <1>1, <1>2, <1>3, <1>4

(* Shutdown takes the first server off the list. *)
LEMMA FirstOff ==
    ASSUME NEW list \in Lists, list # <<>>
    PROVE  /\ Tail(list) \in Lists
           /\ Head(list) \in Servers
           /\ Listed(list) = {Head(list)} \cup Listed(Tail(list))
           /\ Head(list) \notin Listed(Tail(list))
  <1>1. CASE list = <<"plain">>
    <2>1. Head(list) = "plain" /\ Tail(list) = <<>>
      BY <1>1
    <2>2. QED
      BY <1>1, <2>1, ListedServers DEF Lists, Servers
  <1>2. CASE list = <<"secure">>
    <2>1. Head(list) = "secure" /\ Tail(list) = <<>>
      BY <1>2
    <2>2. QED
      BY <1>2, <2>1, ListedServers DEF Lists, Servers
  <1>3. CASE list = <<"plain", "secure">>
    <2>1. Head(list) = "plain" /\ Tail(list) = <<"secure">>
      BY <1>3
    <2>2. QED
      BY <1>3, <2>1, ListedServers DEF Lists, Servers
  <1>4. QED
    BY <1>1, <1>2, <1>3 DEF Lists

-----------------------------------------------------------------------------
(* Where a request can be that the shutdown would not wait for: nowhere.     *)
(* Ports are open, and requests in flight, only at servers whose Shutdown is *)
(* still to be called or waits, as long as the grace lasts.                  *)
Covered ==
    /\ open \subseteq Listed(servers)
    /\ graceOver \/ \A r \in Requests :
           at[r] # "idle" =>
               \/ via[r] \in Listed(servers)
               \/ draining # NoServer /\ via[r] = draining

(* Between two lives nothing is left. *)
Gone ==
    phase = "down" => /\ servers = <<>> /\ draining = NoServer
                      /\ open = {} /\ failed = {} /\ ~graceOver
                      /\ \A r \in Requests : at[r] = "idle"

LifeInv == TypeOK /\ OrderInv /\ servers \in Lists /\ Covered /\ Gone

(* The invariant holds before the first start, *)
LEMMA LifeInit == Init => LifeInv
  <1> SUFFICES ASSUME Init PROVE LifeInv
    OBVIOUS
  <1> USE NoRequestAssumption, MaxEndsAssumption, ListedServers DEF Init, OrderInit
  <1>1. OrderTypeOK /\ OrderInv
    BY DEF OrderTypeOK, OrderInv
  <1>2. \A r \in Requests : ~Holds(r) /\ ~Waits(r)
    BY DEF Holds, HoldsExclusive, Waits
  <1>3. TypeOK
    <2>1. ends \in 0..MaxEnds
      OBVIOUS
    <2>2. /\ at \in [Requests -> {"idle", "body", "gate"}]
          /\ via \in [Requests -> Servers \cup {NoServer}]
          /\ \A r \in Requests : at[r] # "gate"
      OBVIOUS
    <2>3. draining \in (Servers \cup {NoServer}) \ Listed(servers)
      OBVIOUS
    <2>4. QED
      BY <1>1, <1>2, <2>1, <2>2, <2>3 DEF TypeOK
  <1>4. QED
    BY <1>1, <1>3 DEF LifeInv, Lists, Covered, Gone

(* The lock keeps its contract through every operation, and through the end  *)
(* of the process, Reset.                                                    *)
LEMMA OrderStep ==
    ASSUME OrderTypeOK, OrderInv, [OrderNext]_orderVars
    PROVE  OrderTypeOK' /\ OrderInv'
  <1> USE NoRequestAssumption DEF OrderTypeOK, OrderInv, Holds, HoldsExclusive,
                                  Waits
  <1>1. ASSUME NEW r \in Requests, RLock(r)
        PROVE  OrderTypeOK' /\ OrderInv'
    BY <1>1 DEF RLock
  <1>2. ASSUME NEW r \in Requests, RUnlock(r)
        PROVE  OrderTypeOK' /\ OrderInv'
    BY <1>2 DEF RUnlock
  <1>3. ASSUME NEW r \in Requests, Lock(r)
        PROVE  OrderTypeOK' /\ OrderInv'
    BY <1>3 DEF Lock
  <1>4. ASSUME NEW r \in Requests, Announce(r)
        PROVE  OrderTypeOK' /\ OrderInv'
    BY <1>4 DEF Announce
  <1>5. ASSUME NEW r \in Requests, Enter(r)
        PROVE  OrderTypeOK' /\ OrderInv'
    BY <1>5 DEF Enter
  <1>6. ASSUME NEW r \in Requests, Unlock(r)
        PROVE  OrderTypeOK' /\ OrderInv'
    BY <1>6 DEF Unlock
  <1>7. CASE Reset
    BY <1>7 DEF Reset
  <1>8. CASE UNCHANGED orderVars
    BY <1>8 DEF orderVars
  <1>9. QED
    BY <1>1, <1>2, <1>3, <1>4, <1>5, <1>6, <1>7, <1>8 DEF OrderNext

(* Each step of the process and of a request is one of the lock's, or none. *)
LEMMA StepsOfTheLock == [Next]_vars => [OrderNext]_orderVars
  <1> SUFFICES ASSUME [Next]_vars PROVE [OrderNext]_orderVars
    OBVIOUS
  <1> USE DEF OrderNext
  <1>1. CASE Run
    BY <1>1 DEF Run, Listen, NoticeFailure, Shutdown, ShutdownReturns, GraceEnds, Exit
  <1>2. CASE Launch \/ LaunchFails \/ Signal \/ \E server \in Servers : ListenerFails(server)
    BY <1>2 DEF Launch, LaunchFails, Signal, ListenerFails
  <1>3. ASSUME NEW r \in Requests, Handle(r)
        PROVE  [OrderNext]_orderVars
    BY <1>3 DEF Handle, Arrive, Dismiss, AskForGate, Pass, LeaveGate
  <1>4. CASE UNCHANGED vars
    BY <1>4 DEF vars
  <1>5. QED
    BY <1>1, <1>2, <1>3, <1>4 DEF Next

-----------------------------------------------------------------------------
(* The steps of the process. *)
LEMMA RunKeepsLife ==
    ASSUME LifeInv, OrderTypeOK', OrderInv',
           \/ Launch \/ Run \/ LaunchFails \/ Signal
           \/ \E server \in Servers : ListenerFails(server)
    PROVE  LifeInv'
  <1> USE MaxEndsAssumption
          DEF LifeInv, TypeOK, Covered, Gone, Holds, HoldsExclusive, Waits, requests
  <1>1. CASE Launch
    <2>1. servers' \in Lists /\ Listed(servers') \subseteq Servers
      BY <1>1, ListedServers DEF Launch, Lists, Servers
    <2>2. QED
      BY <1>1, <2>1, ListedServers DEF Launch, orderVars, NoServer, Servers
  <1>2. ASSUME NEW server \in Servers, Listen(server)
        PROVE  LifeInv'
    BY <1>2 DEF Listen, orderVars
  <1>3. CASE NoticeFailure
    BY <1>3 DEF NoticeFailure, orderVars
  <1>4. CASE Shutdown
    BY <1>4, FirstOff DEF Shutdown, orderVars
  <1>5. CASE ShutdownReturns
    BY <1>5 DEF ShutdownReturns, orderVars, InFlight, NoServer, Servers
  <1>6. CASE GraceEnds
    BY <1>6 DEF GraceEnds, orderVars
  <1>7. CASE Exit
    <2>1. \A r \in Requests : ~Holds(r)' /\ ~Waits(r)' /\ at'[r] = "idle"
      BY <1>7, NoRequestAssumption DEF Exit, Reset
    <2>2. /\ at' \in [Requests -> {"idle", "body", "gate"}]
          /\ via' \in [Requests -> Servers \cup {NoServer}]
      BY <1>7 DEF Exit
    <2>3. /\ servers' = <<>> /\ draining' = NoServer /\ Listed(servers') = {}
          /\ open' = {} /\ failed' = {} /\ graceOver' = FALSE /\ phase' = "down" /\ ends' = ends
      BY <1>7, ListedServers DEF Exit
    <2>4. TypeOK'
      BY <2>1, <2>2, <2>3
    <2>5. QED
      BY <2>1, <2>3, <2>4 DEF Lists
  <1>8. CASE LaunchFails \/ Signal
    <2>1. ends' \in 0..MaxEnds
      BY <1>8 DEF LaunchFails, Signal, End
    <2>2. QED
      BY <1>8, <2>1 DEF LaunchFails, Signal, orderVars
  <1>9. ASSUME NEW server \in Servers, ListenerFails(server)
        PROVE  LifeInv'
    <2>1. ends' \in 0..MaxEnds
      BY <1>9 DEF ListenerFails, End
    <2>2. QED
      BY <1>9, <2>1 DEF ListenerFails, orderVars
  <1>10. QED
    BY <1>1, <1>2, <1>3, <1>4, <1>5, <1>6, <1>7, <1>8, <1>9 DEF Run

(* The steps of a request. *)
LEMMA HandleKeepsLife ==
    ASSUME LifeInv, OrderTypeOK', OrderInv', NEW r \in Requests, Handle(r)
    PROVE  LifeInv'
  <1> USE NoRequestAssumption
          DEF LifeInv, TypeOK, OrderTypeOK, OrderInv, Covered, Gone, Holds, HoldsExclusive,
              Waits, process
  <1>1. ASSUME NEW server \in Servers, Arrive(r, server)
        PROVE  LifeInv'
    BY <1>1 DEF Arrive, orderVars
  <1>2. CASE Dismiss(r)
    BY <1>2 DEF Dismiss, Answer, orderVars
  <1>3. CASE AskForGate(r)
    BY <1>3 DEF AskForGate, RLock, Lock
  <1>4. CASE Pass(r)
    BY <1>4 DEF Pass, Announce, Enter, requests
  <1>5. CASE LeaveGate(r)
    BY <1>5 DEF LeaveGate, Answer, RUnlock, Unlock
  <1>6. QED
    BY <1>1, <1>2, <1>3, <1>4, <1>5 DEF Handle

(* Every step keeps the invariant, *)
LEMMA LifeStep == LifeInv /\ [Next]_vars => LifeInv'
  <1> SUFFICES ASSUME LifeInv, [Next]_vars PROVE LifeInv'
    OBVIOUS
  <1>1. OrderTypeOK' /\ OrderInv'
    BY StepsOfTheLock, OrderStep DEF LifeInv, TypeOK
  <1>2. CASE UNCHANGED vars
    BY <1>1, <1>2 DEF vars, process, requests, orderVars, LifeInv, TypeOK, Covered, Gone, Holds,
                 HoldsExclusive, Waits
  <1>3. QED
    BY <1>1, <1>2, RunKeepsLife, HandleKeepsLife DEF Next

(* and so it always holds. *)
LEMMA LifeAlways == Spec => []LifeInv
  BY LifeInit, LifeStep, PTL DEF Spec

-----------------------------------------------------------------------------
(* Whoever waits for the gate or holds it is a request of this process, in   *)
(* any number of lives (src/main.go:63-137).                                 *)
THEOREM LifeTypeCorrect == Spec => []TypeOK
  <1>1. LifeInv => TypeOK
    BY DEF LifeInv
  <1>2. QED
    BY <1>1, LifeAlways, PTL

(* No request, through whichever server it came and however late, is dropped *)
(* before the grace period of the shutdown is over (src/main.go:32, 131-135).*)
THEOREM NothingIsSeveredEarly == Spec => SeveredOnlyByGrace
  <1>1. ASSUME LifeInv, [Next]_vars, phase = "stopping", phase' = "down"
        PROVE  graceOver \/ \A r \in Requests : at[r] = "idle"
    <2>1. Exit
      BY <1>1 DEF Next, Run, Launch, Listen, NoticeFailure, Shutdown, ShutdownReturns,
                  GraceEnds, LaunchFails, Signal, ListenerFails, Handle, Arrive, Dismiss,
                  Answer, AskForGate, Pass, LeaveGate, vars, process
    <2>2. QED
      BY <1>1, <2>1, ListedServers DEF Exit, LifeInv, Covered
  <1>2. LifeInv /\ [Next]_vars
            => [phase = "stopping" /\ phase' = "down" =>
                   graceOver \/ \A r \in Requests : at[r] = "idle"]_vars
    BY <1>1
  <1>3. QED
    BY <1>2, LifeAlways, PTL DEF Spec, SeveredOnlyByGrace
=============================================================================
