---------------------------- MODULE PrintGateProofs ----------------------------
(***************************************************************************)
(* Proofs about PrintGate, for any requests, queues and number of stops.    *)
(*                                                                         *)
(* The types come first.  OrderInv, the lock's own invariant, follows from  *)
(* the lock's operations alone.  GateInv ties the handlers to the lock: who *)
(* holds or waits for it is decided by the phase and the mode of the        *)
(* request.  From the three of them ExclusiveSubmission is immediate.       *)
(* BracketInv adds what the exclusive section protects: the page of a       *)
(* request on its way to the restoration is still the last job of its       *)
(* queue.  RestoreFollowsPage is then inductive.  PageInv says where the    *)
(* page of a request is, from its phase and what it returned: the answers,  *)
(* the inherited settings and the single page of a request follow from it,  *)
(* and so does the refinement of PrintPromise, one lemma per kind of step.  *)
(***************************************************************************)
EXTENDS PrintGate, TLAPS

Bracketed == {"recall", "relp", "recalled"}

(* who holds and who waits, by phase and mode *)
GateInv ==
    \A r \in Requests :
        /\ Holds(r) \/ Waits(r) => pc[r] \in {"render"} \cup InGate
        /\ r \in readers \cup parked => mode[r] # "inverting" /\ pc[r] # "render"
        /\ r \in claimants \/ owner = r => mode[r] = "inverting"
        /\ pc[r] \in InGate \ {"spool"} => Holds(r)
        /\ pc[r] = "spool" => Holds(r) \/ r \in parked
        /\ pc[r] \in Bracketed => mode[r] = "inverting"

(* the page of a request that is about to restore is the last of its queue *)
BracketInv ==
    \A r \in Requests :
        /\ mode[r] = "inverting"
        /\ pc[r] \in {"accepted", "recall", "relp"}
        => LET jobs == stream[target[r]] IN
               /\ Len(jobs) > 0
               /\ jobs[Len(jobs)] = Job(r, "inverting")

-----------------------------------------------------------------------------
(* The lock keeps its types and its exclusion through every operation, and   *)
(* through the end of the process: what every theorem of the gate rests on.  *)
LEMMA OrderStep ==
    ASSUME OrderTypeOK, OrderInv, [OrderNext]_orderVars
    PROVE  OrderTypeOK' /\ OrderInv'
  <1> USE NoRequestAssumption DEF OrderTypeOK, OrderInv, Holds, HoldsExclusive,
                                  Waits
  <1>1. ASSUME NEW r \in Requests, RLock(r)
        PROVE  OrderTypeOK' /\ OrderInv'
    BY <1>1 DEF RLock
  <1>2. ASSUME NEW r \in Requests, RUnlock(r)
        PROVE  OrderTypeOK' /\ OrderInv'
    BY <1>2 DEF RUnlock
  <1>3. ASSUME NEW r \in Requests, Lock(r)
        PROVE  OrderTypeOK' /\ OrderInv'
    BY <1>3 DEF Lock
  <1>4. ASSUME NEW r \in Requests, Announce(r)
        PROVE  OrderTypeOK' /\ OrderInv'
    BY <1>4 DEF Announce
  <1>5. ASSUME NEW r \in Requests, Enter(r)
        PROVE  OrderTypeOK' /\ OrderInv'
    BY <1>5 DEF Enter
  <1>6. ASSUME NEW r \in Requests, Unlock(r)
        PROVE  OrderTypeOK' /\ OrderInv'
    BY <1>6 DEF Unlock
  <1>7. CASE Reset
    BY <1>7 DEF Reset
  <1>8. CASE UNCHANGED orderVars
    BY <1>8 DEF orderVars
  <1>9. QED
    BY <1>1, <1>2, <1>3, <1>4, <1>5, <1>6, <1>7, <1>8 DEF OrderNext

-----------------------------------------------------------------------------
(* A submission appends one job to one queue. *)
LEMMA SubmitType ==
    ASSUME stream \in [Queues -> Seq(Jobs)],
           NEW r \in Requests, NEW kind \in Kinds, Submit(r, kind)
    PROVE  stream' \in [Queues -> Seq(Jobs)]
  <1> DEFINE job == [request |-> r, kind |-> kind]
  <1>1. job \in Jobs
    BY DEF Jobs
  <1>2. \A q \in Queues : Append(stream[q], job) \in Seq(Jobs)
    BY <1>1
  <1> HIDE DEF job
  <1>3. stream' = [stream EXCEPT ![target[r]] = Append(@, job)]
    BY DEF Submit, job
  <1>4. QED
    BY <1>2, <1>3

(* Every variable keeps its type: each assignment of the handlers and of the *)
(* lock stays within what the declarations of the code allow.                *)
THEOREM TypeCorrect == Spec => []TypeOK
  <1> USE NoRequestAssumption, NoQueueAssumption, MaxStopsAssumption
  <1>1. Init => TypeOK
    <2> SUFFICES ASSUME Init PROVE TypeOK
      OBVIOUS
    <2> USE DEF Init
    <2>1. OrderTypeOK
      BY DEF OrderInit, OrderTypeOK
    <2>2. pc \in [Requests -> Phases] /\ outcome \in [Requests -> Outcomes]
      BY DEF Phases, Outcomes
    <2>3. mode \in [Requests -> Modes]
      BY DEF Modes
    <2>4. target \in [Requests -> Queues \cup {NoQueue}]
      OBVIOUS
    <2>5. stream \in [Queues -> Seq(Jobs)]
      OBVIOUS
    <2>6. live \in [Requests -> BOOLEAN] /\ stops \in 0..MaxStops
      OBVIOUS
    <2>7. \A r \in Requests : pc[r] = "idle"
      OBVIOUS
    <2>8. QED
      BY <2>1, <2>2, <2>3, <2>4, <2>5, <2>6, <2>7 DEF TypeOK, InGate, LpPhases
  <1>2. TypeOK /\ [Next]_vars => TypeOK'
    <2> SUFFICES ASSUME TypeOK, [Next]_vars PROVE TypeOK'
      OBVIOUS
    <2> USE DEF TypeOK, OrderTypeOK, Modes, Phases, InFlight, InGate, LpPhases,
                Outcomes, Goto, Return
    <2>1. ASSUME NEW r \in Requests, Arrive(r) PROVE TypeOK'
      BY <2>1 DEF Arrive, orderVars
    <2>2. ASSUME NEW r \in Requests, Resolve(r) PROVE TypeOK'
      BY <2>2 DEF Resolve, orderVars
    <2>3. ASSUME NEW r \in Requests, ResolveFails(r) PROVE TypeOK'
      BY <2>3 DEF ResolveFails, orderVars
    <2>4. ASSUME NEW r \in Requests, AskShared(r) PROVE TypeOK'
      BY <2>4 DEF AskShared, orderVars, RLock
    <2>5. ASSUME NEW r \in Requests, AskExclusive(r) PROVE TypeOK'
      BY <2>5 DEF AskExclusive, orderVars, Lock
    <2>6. ASSUME NEW r \in Requests, Advance(r) PROVE TypeOK'
      BY <2>6 DEF Advance, orderVars, Announce, Enter, requestVars
    <2>7. ASSUME NEW r \in Requests, Render(r) PROVE TypeOK'
      BY <2>7 DEF Render, orderVars
    <2>8. ASSUME NEW r \in Requests, RenderFails(r) PROVE TypeOK'
      BY <2>8 DEF RenderFails, orderVars
    <2>9. ASSUME NEW r \in Requests, StartLp(r) PROVE TypeOK'
      BY <2>9 DEF StartLp, orderVars
    <2>10. ASSUME NEW r \in Requests, StartFails(r) PROVE TypeOK'
      BY <2>10 DEF StartFails, orderVars
    <2>11. ASSUME NEW r \in Requests, Accept(r) PROVE TypeOK'
      <3>1. mode[r] \in Kinds
        BY DEF Kinds
      <3>2. stream' \in [Queues -> Seq(Jobs)]
        BY <2>11, <3>1, SubmitType DEF Accept
      <3>3. QED
        BY <2>11, <3>2 DEF Accept, orderVars
    <2>12. ASSUME NEW r \in Requests, LpReturns(r) PROVE TypeOK'
      BY <2>12 DEF LpReturns, orderVars
    <2>13. ASSUME NEW r \in Requests, LpRefuses(r) PROVE TypeOK'
      BY <2>13 DEF LpRefuses, orderVars
    <2>14. ASSUME NEW r \in Requests, LpIsCut(r) PROVE TypeOK'
      BY <2>14 DEF LpIsCut, orderVars
    <2>15. ASSUME NEW r \in Requests, StartRecall(r) PROVE TypeOK'
      BY <2>15 DEF StartRecall, orderVars
    <2>16. ASSUME NEW r \in Requests, AcceptRecall(r) PROVE TypeOK'
      <3>1. "restore" \in Kinds
        BY DEF Kinds
      <3>2. stream' \in [Queues -> Seq(Jobs)]
        BY <2>16, <3>1, SubmitType DEF AcceptRecall
      <3>3. QED
        BY <2>16, <3>2 DEF AcceptRecall, orderVars
    <2>17. ASSUME NEW r \in Requests, RecallReturns(r) PROVE TypeOK'
      BY <2>17 DEF RecallReturns, orderVars
    <2>18. ASSUME NEW r \in Requests, RecallFails(r) PROVE TypeOK'
      BY <2>18 DEF RecallFails, orderVars
    <2>19. ASSUME NEW r \in Requests, Release(r) PROVE TypeOK'
      BY <2>19 DEF Release, orderVars, RLock, RUnlock, Unlock
    <2>20. ASSUME NEW r \in Requests, Answer(r) PROVE TypeOK'
      BY <2>20 DEF Answer, orderVars
    <2>21. ASSUME NEW r \in Requests, ContextEnds(r) PROVE TypeOK'
      BY <2>21 DEF ContextEnds, orderVars
    <2>22. CASE Stop
      <3>1. pc' \in [Requests -> Phases]
        BY <2>22 DEF Stop
      <3>2. stops' \in 0..MaxStops
        BY <2>22 DEF Stop
      <3>3. OrderTypeOK'
        BY <2>22 DEF Stop, Reset
      <3>4. QED
        BY <2>22, <3>1, <3>2, <3>3 DEF Stop
    <2>23. CASE UNCHANGED vars
      BY <2>23 DEF vars, requestVars, orderVars
    <2>24. QED
      BY <2>1, <2>2, <2>3, <2>4, <2>5, <2>6, <2>7, <2>8, <2>9, <2>10, <2>11, <2>12, <2>13, <2>14, <2>15, <2>16, <2>17, <2>18, <2>19, <2>20, <2>21, <2>22, <2>23 DEF Next, HandlerStep
  <1>3. QED
    BY <1>1, <1>2, PTL DEF Spec

-----------------------------------------------------------------------------
(* Every step of the handlers uses the gate through its operations, or not   *)
(* at all.                                                                   *)
LEMMA StepsUseTheGate == [Next]_vars => [OrderNext]_orderVars
  <1> USE DEF OrderNext
  <1>1. ASSUME NEW r \in Requests, AskShared(r) PROVE OrderNext
    BY <1>1 DEF AskShared
  <1>2. ASSUME NEW r \in Requests, AskExclusive(r) PROVE OrderNext
    BY <1>2 DEF AskExclusive
  <1>3. ASSUME NEW r \in Requests, Advance(r) PROVE OrderNext
    BY <1>3 DEF Advance
  <1>4. ASSUME NEW r \in Requests, Release(r) PROVE OrderNext
    BY <1>4 DEF Release
  <1>5. CASE Stop
    BY <1>5 DEF Stop
  <1>6. CASE UNCHANGED vars
    BY <1>6 DEF vars
  <1>7. ASSUME NEW r \in Requests,
               Arrive(r) \/ Resolve(r) \/ ResolveFails(r) \/ Render(r)
                 \/ RenderFails(r) \/ StartLp(r) \/ StartFails(r) \/ Accept(r)
                 \/ LpReturns(r) \/ LpRefuses(r) \/ LpIsCut(r)
                 \/ StartRecall(r) \/ AcceptRecall(r) \/ RecallReturns(r)
                 \/ RecallFails(r) \/ Answer(r) \/ ContextEnds(r)
        PROVE  UNCHANGED orderVars
    BY <1>7 DEF Arrive, Resolve, ResolveFails, Render, RenderFails, StartLp,
                StartFails, Accept, LpReturns, LpRefuses, LpIsCut, StartRecall,
                AcceptRecall, RecallReturns, RecallFails, Answer, ContextEnds
  <1>8. QED
    BY <1>1, <1>2, <1>3, <1>4, <1>5, <1>6, <1>7 DEF Next, HandlerStep

(* The handlers never let a shared and an exclusive holder overlap.          *)
LEMMA GateIsSound == Spec => [](OrderTypeOK /\ OrderInv)
  <1>1. Init => OrderTypeOK /\ OrderInv
    BY NoRequestAssumption DEF Init, OrderInit, OrderTypeOK, OrderInv
  <1>2. OrderTypeOK /\ OrderInv /\ [Next]_vars => OrderTypeOK' /\ OrderInv'
    BY OrderStep, StepsUseTheGate
  <1>3. QED
    BY <1>1, <1>2, PTL DEF Spec

(* GateInv looks at the phase, the mode and the target of one request and at *)
(* the lock: a step that changes none of them for anybody but the request    *)
(* that takes it is harmless for the others.                                 *)
LEMMA GateStep ==
    ASSUME TypeOK, OrderInv, GateInv, [Next]_vars
    PROVE  GateInv'
  <1> USE NoRequestAssumption
      DEF TypeOK, OrderTypeOK, OrderInv, GateInv, Holds, HoldsExclusive, Waits,
          Bracketed, InFlight, InGate, LpPhases, Goto, Return
  <1>1. ASSUME NEW r \in Requests, Arrive(r) PROVE GateInv'
    BY <1>1 DEF Arrive, orderVars
  <1>2. ASSUME NEW r \in Requests, Resolve(r) PROVE GateInv'
    BY <1>2 DEF Resolve, orderVars
  <1>3. ASSUME NEW r \in Requests, ResolveFails(r) PROVE GateInv'
    BY <1>3 DEF ResolveFails, orderVars
  <1>4. ASSUME NEW r \in Requests, AskShared(r) PROVE GateInv'
    BY <1>4 DEF AskShared, orderVars, RLock
  <1>5. ASSUME NEW r \in Requests, AskExclusive(r) PROVE GateInv'
    BY <1>5 DEF AskExclusive, orderVars, Lock
  <1>6. ASSUME NEW r \in Requests, Advance(r) PROVE GateInv'
    BY <1>6 DEF Advance, orderVars, Announce, Enter, requestVars
  <1>7. ASSUME NEW r \in Requests, Render(r) PROVE GateInv'
    BY <1>7 DEF Render, orderVars
  <1>8. ASSUME NEW r \in Requests, RenderFails(r) PROVE GateInv'
    BY <1>8 DEF RenderFails, orderVars
  <1>9. ASSUME NEW r \in Requests, StartLp(r) PROVE GateInv'
    BY <1>9 DEF StartLp, orderVars
  <1>10. ASSUME NEW r \in Requests, StartFails(r) PROVE GateInv'
    BY <1>10 DEF StartFails, orderVars
  <1>11. ASSUME NEW r \in Requests, Accept(r) PROVE GateInv'
    BY <1>11 DEF Accept, orderVars
  <1>12. ASSUME NEW r \in Requests, LpReturns(r) PROVE GateInv'
    BY <1>12 DEF LpReturns, orderVars
  <1>13. ASSUME NEW r \in Requests, LpRefuses(r) PROVE GateInv'
    BY <1>13 DEF LpRefuses, orderVars
  <1>14. ASSUME NEW r \in Requests, LpIsCut(r) PROVE GateInv'
    BY <1>14 DEF LpIsCut, orderVars
  <1>15. ASSUME NEW r \in Requests, StartRecall(r) PROVE GateInv'
    BY <1>15 DEF StartRecall, orderVars
  <1>16. ASSUME NEW r \in Requests, AcceptRecall(r) PROVE GateInv'
    BY <1>16 DEF AcceptRecall, orderVars
  <1>17. ASSUME NEW r \in Requests, RecallReturns(r) PROVE GateInv'
    BY <1>17 DEF RecallReturns, orderVars
  <1>18. ASSUME NEW r \in Requests, RecallFails(r) PROVE GateInv'
    BY <1>18 DEF RecallFails, orderVars
  <1>19. ASSUME NEW r \in Requests, Release(r) PROVE GateInv'
    BY <1>19 DEF Release, orderVars, RUnlock, Unlock
  <1>20. ASSUME NEW r \in Requests, Answer(r) PROVE GateInv'
    BY <1>20 DEF Answer, orderVars
  <1>21. ASSUME NEW r \in Requests, ContextEnds(r) PROVE GateInv'
    BY <1>21 DEF ContextEnds, orderVars
  <1>22. CASE Stop
    BY <1>22 DEF Stop, Reset
  <1>23. CASE UNCHANGED vars
    BY <1>23 DEF vars, requestVars, orderVars
  <1>24. QED
    BY <1>1, <1>2, <1>3, <1>4, <1>5, <1>6, <1>7, <1>8, <1>9, <1>10, <1>11, <1>12,
       <1>13, <1>14, <1>15, <1>16, <1>17, <1>18, <1>19, <1>20, <1>21, <1>22, <1>23
       DEF Next, HandlerStep

(* Who holds and who waits is decided by phase and mode, in every state.     *)
LEMMA GateCorrect == Spec => [](TypeOK /\ OrderInv /\ GateInv)
  <1>1. Init => GateInv
    <2> SUFFICES ASSUME Init, NEW r \in Requests
                 PROVE  /\ pc[r] = "idle"
                        /\ r \notin readers \cup parked \cup claimants
                        /\ owner # r
      BY DEF GateInv, Holds, HoldsExclusive, Waits, InGate, LpPhases, Bracketed
    <2> QED
      BY NoRequestAssumption DEF Init, OrderInit
  <1>2. TypeOK /\ OrderInv /\ GateInv /\ [Next]_vars => GateInv'
    BY GateStep
  <1>3. QED
    BY <1>1, <1>2, TypeCorrect, GateIsSound, PTL DEF Spec

(* A running lp belongs to a holder, and the exclusive holder is alone.      *)
LEMMA HoldersExclude ==
    ASSUME OrderInv, GateInv
    PROVE  ExclusiveSubmission
  <1> SUFFICES ASSUME NEW r \in Requests, NEW s \in Requests,
                      r # s, HoldsExclusive(r), pc[s] \in LpPhases
               PROVE  FALSE
    BY DEF ExclusiveSubmission
  <1>1. Holds(s)
    BY DEF GateInv, InGate, LpPhases
  <1>2. s \notin readers
    BY DEF OrderInv, HoldsExclusive
  <1>3. QED
    BY <1>1, <1>2 DEF Holds, HoldsExclusive

(* For any number of requests: while an inverting document is in the gate,   *)
(* no other request has a submission running (src/cups.go:178-182).          *)
THEOREM Exclusion == Spec => []ExclusiveSubmission
  <1>1. OrderInv /\ GateInv => ExclusiveSubmission
    BY HoldersExclude
  <1>2. QED
    BY <1>1, GateCorrect, PTL

-----------------------------------------------------------------------------
(* What a submission does to the streams: one job more at the end of one.    *)
LEMMA SubmitEffect ==
    ASSUME stream \in [Queues -> Seq(Jobs)],
           NEW r \in Requests, NEW kind \in Kinds, Submit(r, kind),
           target[r] \in Queues
    PROVE  /\ \A q \in Queues \ {target[r]} : stream'[q] = stream[q]
           /\ Len(stream[target[r]]) \in Nat
           /\ Len(stream'[target[r]]) = Len(stream[target[r]]) + 1
           /\ DOMAIN stream[target[r]] = 1 .. Len(stream[target[r]])
           /\ DOMAIN stream'[target[r]] = 1 .. (Len(stream[target[r]]) + 1)
           /\ \A i \in 1 .. Len(stream[target[r]]) :
                  stream'[target[r]][i] = stream[target[r]][i]
           /\ stream'[target[r]][Len(stream[target[r]]) + 1] = Job(r, kind)
  <1> DEFINE t == target[r]
             jobs == stream[t]
             job == Job(r, kind)
  <1>1. jobs \in Seq(Jobs) /\ job \in Jobs
    BY DEF Jobs, Job
  <1>2. stream' = [stream EXCEPT ![t] = Append(jobs, job)]
    BY DEF Submit, Job
  <1>3. stream'[t] = Append(jobs, job)
    BY <1>2
  <1>4. \A q \in Queues \ {t} : stream'[q] = stream[q]
    BY <1>2
  <1> HIDE DEF job, jobs
  <1>5. /\ Len(jobs) \in Nat
        /\ DOMAIN jobs = 1 .. Len(jobs)
        /\ Len(Append(jobs, job)) = Len(jobs) + 1
        /\ DOMAIN Append(jobs, job) = 1 .. (Len(jobs) + 1)
        /\ \A i \in 1 .. Len(jobs) : Append(jobs, job)[i] = jobs[i]
        /\ Append(jobs, job)[Len(jobs) + 1] = job
    BY <1>1
  <1> USE DEF job, jobs
  <1>6. QED
    BY <1>3, <1>4, <1>5

(* A page on its way to the restoration stays the last job of its queue:     *)
(* only its own request can submit, and that one submits the restoration.    *)
LEMMA BracketStep ==
    ASSUME TypeOK, OrderInv, GateInv, BracketInv, [Next]_vars
    PROVE  BracketInv'
  <1> DEFINE Open(s) == /\ mode[s] = "inverting"
                        /\ pc[s] \in {"accepted", "recall", "relp"}
             PageIsLast(s) == /\ Len(stream[target[s]]) > 0
                              /\ stream[target[s]][Len(stream[target[s]])]
                                     = Job(s, "inverting")
  <1>1. ASSUME NEW s \in Requests, Open(s) PROVE PageIsLast(s)
    BY <1>1 DEF BracketInv
  <1>2. SUFFICES ASSUME NEW s \in Requests, Open(s)' PROVE PageIsLast(s)'
    BY DEF BracketInv
  <1>3. ASSUME NEW r \in Requests, pc[r] \in {"lp", "relp"}, r # s
        PROVE  ~Open(s)
    <2>1. Open(s) => HoldsExclusive(s)
      BY DEF GateInv, InGate, LpPhases, Holds
    <2>2. ~HoldsExclusive(s)
      BY <1>3, HoldersExclude DEF ExclusiveSubmission, LpPhases
    <2>3. QED
      BY <2>1, <2>2
  <1>4. ASSUME NEW r \in Requests, Accept(r) PROVE PageIsLast(s)'
    <2>1. r = s
      BY <1>2, <1>3, <1>4 DEF Accept, Goto, TypeOK
    <2>2. mode[r] \in Kinds /\ mode[r] = "inverting" /\ target[r] \in Queues
      BY <1>2, <1>4, <2>1 DEF Accept, GateInv, Kinds, TypeOK, InGate, LpPhases
    <2>3. stream \in [Queues -> Seq(Jobs)] /\ Submit(r, mode[r])
      BY <1>4 DEF Accept, TypeOK
    <2>4. target' = target
      BY <1>4 DEF Accept
    <2>5. /\ Len(stream[target[r]]) \in Nat
          /\ Len(stream'[target[r]]) = Len(stream[target[r]]) + 1
          /\ stream'[target[r]][Len(stream[target[r]]) + 1] = Job(r, mode[r])
      BY <2>2, <2>3, SubmitEffect
    <2>6. QED
      BY <2>1, <2>2, <2>4, <2>5
  <1>5. ASSUME NEW r \in Requests, AcceptRecall(r) PROVE PageIsLast(s)'
    BY <1>2, <1>3, <1>5 DEF AcceptRecall, Goto, TypeOK
  <1>6. ASSUME NEW r \in Requests, Resolve(r) PROVE PageIsLast(s)'
    BY <1>1, <1>2, <1>6 DEF Resolve, Goto, TypeOK
  <1>7. ASSUME NEW r \in Requests,
               Arrive(r) \/ ResolveFails(r) \/ AskShared(r) \/ AskExclusive(r)
                 \/ Advance(r) \/ Render(r) \/ RenderFails(r) \/ StartLp(r)
                 \/ StartFails(r) \/ LpReturns(r) \/ LpRefuses(r) \/ LpIsCut(r)
                 \/ StartRecall(r) \/ RecallReturns(r) \/ RecallFails(r)
                 \/ Release(r) \/ Answer(r) \/ ContextEnds(r)
        PROVE  PageIsLast(s)'
    <2>1. UNCHANGED <<mode, target, stream>>
      BY <1>7 DEF Arrive, ResolveFails, AskShared, AskExclusive, Advance,
                  requestVars, Render, RenderFails, StartLp, StartFails,
                  LpReturns, LpRefuses, LpIsCut, StartRecall, RecallReturns,
                  RecallFails, Release, Answer, ContextEnds
    <2>2. Open(s)
      BY <1>2, <1>7, <2>1
         DEF Arrive, ResolveFails, AskShared, AskExclusive, Advance,
             requestVars, Render, RenderFails, StartLp, StartFails,
             LpReturns, LpRefuses, LpIsCut, StartRecall, RecallReturns,
             RecallFails, Release, Answer, ContextEnds, Goto, Return, TypeOK
    <2>3. QED
      BY <1>1, <2>1, <2>2
  <1>8. CASE Stop
    BY <1>1, <1>2, <1>8 DEF Stop, TypeOK, InFlight, InGate, LpPhases
  <1>9. CASE UNCHANGED vars
    BY <1>1, <1>2, <1>9 DEF vars, requestVars
  <1>10. QED
    BY <1>4, <1>5, <1>6, <1>7, <1>8, <1>9 DEF Next, HandlerStep

LEMMA BracketCorrect == Spec => []BracketInv
  <1>1. Init => BracketInv
    BY DEF Init, BracketInv
  <1>2. TypeOK /\ OrderInv /\ GateInv /\ BracketInv /\ [Next]_vars
            => BracketInv'
    BY BracketStep
  <1>3. QED
    BY <1>1, <1>2, GateCorrect, PTL DEF Spec

-----------------------------------------------------------------------------
(* A job other than a restoration never disturbs what follows what.          *)
LEMMA PageKeepsOrder ==
    ASSUME TypeOK, GateInv, RestoreFollowsPage,
           NEW r \in Requests, Accept(r)
    PROVE  RestoreFollowsPage'
  <1> DEFINE t == target[r]
             n == Len(stream[t])
  <1>1. mode[r] \in Kinds /\ mode[r] # "restore" /\ t \in Queues
    BY DEF Accept, TypeOK, Modes, Kinds, InGate, LpPhases
  <1>2. stream \in [Queues -> Seq(Jobs)] /\ Submit(r, mode[r])
    BY DEF Accept, TypeOK
  <1>3. /\ \A q \in Queues \ {t} : stream'[q] = stream[q]
        /\ n \in Nat
        /\ DOMAIN stream[t] = 1 .. n
        /\ DOMAIN stream'[t] = 1 .. (n + 1)
        /\ \A i \in 1 .. n : stream'[t][i] = stream[t][i]
        /\ stream'[t][n + 1] = Job(r, mode[r])
    BY <1>1, <1>2, SubmitEffect
  <1> HIDE DEF t, n
  <1> SUFFICES ASSUME NEW q \in Queues, NEW i \in DOMAIN stream'[q],
                      stream'[q][i].kind = "restore"
               PROVE  /\ i > 1
                      /\ stream'[q][i - 1]
                             = Job(stream'[q][i].request, "inverting")
    BY DEF RestoreFollowsPage, Job
  <1>4. CASE q # t
    BY <1>3, <1>4 DEF RestoreFollowsPage
  <1>5. CASE q = t
    <2>1. i \in 1 .. n
      BY <1>1, <1>3, <1>5 DEF Job
    <2>2. i > 1 /\ stream[q][i - 1] = Job(stream[q][i].request, "inverting")
      BY <1>3, <1>5, <2>1 DEF RestoreFollowsPage
    <2>3. QED
      BY <1>3, <1>5, <2>1, <2>2
  <1>6. QED
    BY <1>4, <1>5

(* A restoration is appended to the queue whose last job is its page.        *)
LEMMA RecallKeepsOrder ==
    ASSUME TypeOK, GateInv, BracketInv, RestoreFollowsPage,
           NEW r \in Requests, AcceptRecall(r)
    PROVE  RestoreFollowsPage'
  <1> DEFINE t == target[r]
             n == Len(stream[t])
  <1>1. t \in Queues /\ mode[r] = "inverting"
    BY DEF AcceptRecall, GateInv, TypeOK, InGate, LpPhases, Bracketed
  <1>2. n > 0 /\ stream[t][n] = Job(r, "inverting")
    BY <1>1 DEF AcceptRecall, BracketInv
  <1>3. stream \in [Queues -> Seq(Jobs)] /\ Submit(r, "restore")
    BY DEF AcceptRecall, TypeOK
  <1>4. "restore" \in Kinds
    BY DEF Kinds
  <1>5. /\ \A q \in Queues \ {t} : stream'[q] = stream[q]
        /\ n \in Nat
        /\ DOMAIN stream[t] = 1 .. n
        /\ DOMAIN stream'[t] = 1 .. (n + 1)
        /\ \A i \in 1 .. n : stream'[t][i] = stream[t][i]
        /\ stream'[t][n + 1] = Job(r, "restore")
    BY <1>1, <1>3, <1>4, SubmitEffect
  <1> HIDE DEF t, n
  <1> SUFFICES ASSUME NEW q \in Queues, NEW i \in DOMAIN stream'[q],
                      stream'[q][i].kind = "restore"
               PROVE  /\ i > 1
                      /\ stream'[q][i - 1]
                             = Job(stream'[q][i].request, "inverting")
    BY DEF RestoreFollowsPage, Job
  <1>6. CASE q # t
    BY <1>5, <1>6 DEF RestoreFollowsPage
  <1>7. CASE q = t /\ i = n + 1
    <2>1. stream'[q][i].request = r
      BY <1>5, <1>7 DEF Job
    <2>2. QED
      BY <1>2, <1>5, <1>7, <2>1
  <1>8. CASE q = t /\ i # n + 1
    <2>1. i \in 1 .. n
      BY <1>5, <1>8
    <2>2. i > 1 /\ stream[q][i - 1] = Job(stream[q][i].request, "inverting")
      BY <1>5, <1>8, <2>1 DEF RestoreFollowsPage
    <2>3. QED
      BY <1>5, <1>8, <2>1, <2>2
  <1>9. QED
    BY <1>6, <1>7, <1>8

(* For any number of requests and queues, and whatever is cancelled, times   *)
(* out or is lost with the process: a restoration at CUPS comes right after  *)
(* the page it restores, on the same queue.                                  *)
THEOREM RestorationIsAdjacent == Spec => []RestoreFollowsPage
  <1>1. Init => RestoreFollowsPage
    BY DEF Init, RestoreFollowsPage
  <1>2. TypeOK /\ GateInv /\ BracketInv /\ RestoreFollowsPage /\ [Next]_vars
            => RestoreFollowsPage'
    <2> SUFFICES ASSUME TypeOK, GateInv, BracketInv, RestoreFollowsPage,
                        [Next]_vars
                 PROVE  RestoreFollowsPage'
      OBVIOUS
    <2>1. ASSUME NEW r \in Requests, Accept(r) PROVE RestoreFollowsPage'
      BY <2>1, PageKeepsOrder
    <2>2. ASSUME NEW r \in Requests, AcceptRecall(r)
          PROVE  RestoreFollowsPage'
      BY <2>2, RecallKeepsOrder
    <2>3. CASE UNCHANGED stream
      BY <2>3 DEF RestoreFollowsPage, Job
    <2>4. ASSUME NEW r \in Requests,
                 Arrive(r) \/ HandlerStep(r) \/ Advance(r) \/ ContextEnds(r)
          PROVE  UNCHANGED stream
      BY <2>4 DEF HandlerStep, Arrive, Resolve, ResolveFails, AskShared,
                  AskExclusive, Advance, requestVars, Render, RenderFails,
                  StartLp, StartFails, LpReturns, LpRefuses, LpIsCut,
                  StartRecall, RecallReturns, RecallFails, Release, Answer,
                  ContextEnds
    <2>5. QED
      BY <2>1, <2>2, <2>3, <2>4 DEF Next, Stop, vars, requestVars
  <1>3. QED
    BY <1>1, <1>2, GateCorrect, BracketCorrect, PTL DEF Spec

-----------------------------------------------------------------------------
(* the i-th job of queue q is the page of r *)
IsPage(q, i, r) ==
    /\ i \in DOMAIN stream[q]
    /\ stream[q][i].request = r
    /\ stream[q][i].kind # "restore"

NoPageYet == {"idle", "resolve", "ask", "render", "spool", "lp"}
PageIsThere == {"accepted", "recall", "relp", "recalled"}
Returned == {"release", "answer", "done", "lost"}

(* an error is returned once, and a request that went on has none *)
OutcomeInv ==
    \A r \in Requests :
        /\ outcome[r] # "none" => pc[r] \in Returned
        /\ pc[r] \in Returned \ {"lost"} => outcome[r] # "none"

NoPage(r) == \A q \in Queues : \A i \in DOMAIN stream[q] : ~IsPage(q, i, r)

OnePage(r) ==
    \A q \in Queues : \A i \in DOMAIN stream[q] :
        IsPage(q, i, r) =>
            /\ q = target[r]
            /\ stream[q][i].kind = mode[r]
            /\ \A j \in DOMAIN stream[q] : IsPage(q, j, r) => i = j

HasPage(r) ==
    \E q \in Queues : q = target[r] /\ \E i \in DOMAIN stream[q] : IsPage(q, i, r)

HasRestoredPage(r) ==
    \E q \in Queues :
        /\ q = target[r]
        /\ \E i \in DOMAIN stream[q] : IsPage(q, i, r) /\ IsRestoredAt(q, i)

(* where its page is according to its phase and to what it returned *)
NotSubmitted(r) == pc[r] \in NoPageYet \/ outcome[r] \in {"unresolved", "render"}
Submitted(r) == pc[r] \in PageIsThere \/ outcome[r] = "sent"
Restored(r) == pc[r] = "recalled" \/ (outcome[r] = "sent" /\ mode[r] = "inverting")

PageInv ==
    \A r \in Requests :
        /\ NotSubmitted(r) => NoPage(r)
        /\ OnePage(r)
        /\ Submitted(r) => HasPage(r)
        /\ Restored(r) => HasRestoredPage(r)

(* A submission leaves every page where it was and what follows it, and adds *)
(* a page only when it is one.                                               *)
LEMMA SubmitPages ==
    ASSUME stream \in [Queues -> Seq(Jobs)],
           NEW r \in Requests, NEW kind \in Kinds, Submit(r, kind),
           target[r] \in Queues
    PROVE  /\ \A q \in Queues, s \in Requests : \A i \in DOMAIN stream'[q] :
                  IsPage(q, i, s)' <=>
                      \/ IsPage(q, i, s)
                      \/ /\ kind # "restore"
                         /\ q = target[r] /\ i = Len(stream[q]) + 1 /\ s = r
           /\ \A q \in Queues : \A i \in DOMAIN stream[q] :
                  /\ i \in DOMAIN stream'[q]
                  /\ stream'[q][i] = stream[q][i]
                  /\ IsRestoredAt(q, i) => IsRestoredAt(q, i)'
           /\ \A q \in Queues : \A i \in DOMAIN stream[q] :
                  /\ kind = "restore"
                  /\ q = target[r] /\ i = Len(stream[q])
                  /\ stream[q][i].request = r
                  => IsRestoredAt(q, i)'
  <1> DEFINE t == target[r]
             n == Len(stream[t])
  <1>1. /\ \A q \in Queues \ {t} : stream'[q] = stream[q]
        /\ n \in Nat
        /\ DOMAIN stream[t] = 1 .. n
        /\ DOMAIN stream'[t] = 1 .. (n + 1)
        /\ \A i \in 1 .. n : stream'[t][i] = stream[t][i]
        /\ stream'[t][n + 1] = Job(r, kind)
    BY SubmitEffect
  <1>2. /\ Job(r, kind).request = r
        /\ Job(r, kind).kind = kind
    BY DEF Job
  <1>3. ASSUME NEW q \in Queues, NEW i \in DOMAIN stream[q]
        PROVE  /\ i \in DOMAIN stream'[q]
               /\ stream'[q][i] = stream[q][i]
               /\ IsRestoredAt(q, i) => IsRestoredAt(q, i)'
    <2>1. CASE q # t
      BY <1>1, <2>1 DEF IsRestoredAt, Job
    <2>2. CASE q = t
      <3>1. i \in 1 .. n /\ i \in DOMAIN stream'[q]
        BY <1>1, <2>2
      <3>2. stream'[q][i] = stream[q][i]
        BY <1>1, <2>2, <3>1
      <3>3. IsRestoredAt(q, i) => i + 1 \in 1 .. n
        BY <1>1, <2>2 DEF IsRestoredAt
      <3>4. IsRestoredAt(q, i) => IsRestoredAt(q, i)'
        BY <1>1, <2>2, <3>1, <3>2, <3>3 DEF IsRestoredAt, Job
      <3>5. QED
        BY <3>1, <3>2, <3>4
    <2>3. QED
      BY <2>1, <2>2
  <1>4. ASSUME NEW q \in Queues, NEW s \in Requests, NEW i \in DOMAIN stream'[q]
        PROVE  IsPage(q, i, s)' <=>
                   \/ IsPage(q, i, s)
                   \/ /\ kind # "restore"
                      /\ q = t /\ i = Len(stream[q]) + 1 /\ s = r
    <2>1. CASE q # t
      BY <1>1, <2>1 DEF IsPage
    <2>2. CASE q = t /\ i \in 1 .. n
      BY <1>1, <2>2 DEF IsPage
    <2>3. CASE q = t /\ i = n + 1
      BY <1>1, <1>2, <2>3 DEF IsPage
    <2>4. QED
      BY <1>1, <2>1, <2>2, <2>3
  <1>5. ASSUME NEW q \in Queues, NEW i \in DOMAIN stream[q],
               kind = "restore", q = t, i = n, stream[q][i].request = r
        PROVE  IsRestoredAt(q, i)'
    <2>1. stream'[q][i] = stream[q][i]
      BY <1>1, <1>5
    <2>2. stream'[q][i + 1] = Job(stream'[q][i].request, "restore")
      BY <1>1, <1>5, <2>1
    <2>3. i + 1 \in DOMAIN stream'[q]
      BY <1>1, <1>5
    <2>4. QED
      BY <2>2, <2>3 DEF IsRestoredAt, Job
  <1>6. QED
    BY <1>3, <1>4, <1>5

(* The outcome is set on the way out and never before.                       *)
LEMMA OutcomeStep ==
    ASSUME TypeOK, OutcomeInv, [Next]_vars
    PROVE  OutcomeInv'
  <1> USE DEF TypeOK, OutcomeInv, Returned, Goto, Return, Outcomes
  <1>1. ASSUME NEW r \in Requests,
               Arrive(r) \/ Resolve(r) \/ ResolveFails(r) \/ AskShared(r)
                 \/ AskExclusive(r) \/ Render(r) \/ RenderFails(r) \/ StartLp(r)
                 \/ StartFails(r) \/ Accept(r)
        PROVE  OutcomeInv'
    BY <1>1 DEF Arrive, Resolve, ResolveFails, AskShared, AskExclusive, Render,
                RenderFails, StartLp, StartFails, Accept
  <1>2. ASSUME NEW r \in Requests,
               LpReturns(r) \/ LpRefuses(r) \/ LpIsCut(r) \/ StartRecall(r)
                 \/ AcceptRecall(r) \/ RecallReturns(r) \/ RecallFails(r)
                 \/ Release(r) \/ Answer(r) \/ ContextEnds(r)
        PROVE  OutcomeInv'
    BY <1>2 DEF LpReturns, LpRefuses, LpIsCut, StartRecall, AcceptRecall,
                RecallReturns, RecallFails, Release, Answer, ContextEnds
  <1>3. CASE Stop
    BY <1>3 DEF Stop, InFlight, InGate, LpPhases
  <1>4. ASSUME NEW r \in Requests, Advance(r) PROVE OutcomeInv'
    BY <1>4 DEF Advance, requestVars
  <1>5. CASE UNCHANGED vars
    BY <1>5 DEF vars, requestVars
  <1>6. QED
    BY <1>1, <1>2, <1>3, <1>4, <1>5 DEF Next, HandlerStep

(* A step that submits nothing moves a request only between phases that say  *)
(* the same of its page.                                                     *)
LEMMA QuietStep ==
    ASSUME TypeOK, OutcomeInv, PageInv, [Next]_vars, UNCHANGED stream
    PROVE  PageInv'
  <1> DEFINE Kept(s) ==
        /\ NotSubmitted(s)' => NotSubmitted(s)
        /\ Submitted(s)' => Submitted(s)
        /\ Restored(s)' => Restored(s)
        /\ (target'[s] = target[s] /\ mode'[s] = mode[s]) \/ NotSubmitted(s)'
  <1>1. ASSUME \A s \in Requests : Kept(s) PROVE PageInv'
    <2> SUFFICES ASSUME NEW s \in Requests
                 PROVE  /\ NotSubmitted(s)' => NoPage(s)'
                        /\ OnePage(s)'
                        /\ Submitted(s)' => HasPage(s)'
                        /\ Restored(s)' => HasRestoredPage(s)'
      BY DEF PageInv
    <2>1. Kept(s)
      BY <1>1
    <2>2. NotSubmitted(s)' => NoPage(s)'
      BY <2>1 DEF PageInv, NoPage, IsPage
    <2>3. CASE NotSubmitted(s)'
      <3>1. ~Submitted(s) /\ ~Restored(s)
        BY <2>1, <2>3 DEF OutcomeInv, NotSubmitted, Submitted, Restored,
                          NoPageYet, PageIsThere, Returned
      <3>2. NoPage(s)' => OnePage(s)'
        BY DEF NoPage, OnePage
      <3>3. QED
        BY <2>1, <2>2, <2>3, <3>1, <3>2
    <2>4. CASE target'[s] = target[s] /\ mode'[s] = mode[s]
      <3>1. OnePage(s)'
        BY <2>4 DEF PageInv, OnePage, IsPage
      <3>2. Submitted(s)' => HasPage(s)'
        BY <2>1, <2>4 DEF PageInv, HasPage, IsPage
      <3>3. Restored(s)' => HasRestoredPage(s)'
        BY <2>1, <2>4
           DEF PageInv, HasRestoredPage, IsPage, IsRestoredAt, Job
      <3>4. QED
        BY <2>2, <3>1, <3>2, <3>3
    <2>5. QED
      BY <2>1, <2>3, <2>4
  <1>2. SUFFICES ASSUME NEW s \in Requests PROVE Kept(s)
    BY <1>1
  <1> USE DEF TypeOK, OutcomeInv, Returned, Goto, Return, Outcomes, NotSubmitted,
              Submitted, Restored, NoPageYet, PageIsThere
  <1>3. ASSUME NEW r \in Requests,
               Arrive(r) \/ Resolve(r) \/ ResolveFails(r) \/ AskShared(r)
                 \/ AskExclusive(r) \/ Render(r) \/ RenderFails(r) \/ StartLp(r)
                 \/ StartFails(r)
        PROVE  Kept(s)
    BY <1>3 DEF Arrive, Resolve, ResolveFails, AskShared, AskExclusive, Render,
                RenderFails, StartLp, StartFails
  <1>4. ASSUME NEW r \in Requests,
               LpReturns(r) \/ LpRefuses(r) \/ LpIsCut(r) \/ StartRecall(r)
                 \/ RecallReturns(r) \/ RecallFails(r)
                 \/ Release(r) \/ Answer(r) \/ ContextEnds(r)
        PROVE  Kept(s)
    BY <1>4 DEF LpReturns, LpRefuses, LpIsCut, StartRecall,
                RecallReturns, RecallFails, Release, Answer, ContextEnds
  <1>5. CASE Stop
    BY <1>5 DEF Stop, InFlight, InGate, LpPhases
  <1>6. ASSUME NEW r \in Requests, Advance(r) PROVE Kept(s)
    BY <1>6 DEF Advance, requestVars
  <1>7. CASE UNCHANGED vars
    BY <1>7 DEF vars, requestVars
  <1>8. ASSUME NEW r \in Requests, Accept(r) \/ AcceptRecall(r) PROVE FALSE
    <2>1. target[r] \in Queues /\ \E kind \in Kinds : Submit(r, kind)
      BY <1>8 DEF Accept, AcceptRecall, InGate, LpPhases, Kinds, Modes
    <2>2. Len(stream'[target[r]]) # Len(stream[target[r]])
      BY <2>1, SubmitEffect
    <2>3. QED
      BY <2>2
  <1>9. QED
    BY <1>3, <1>4, <1>5, <1>6, <1>7, <1>8 DEF Next, HandlerStep
(* CUPS takes the page of a request that had none.                           *)
LEMMA PageStep ==
    ASSUME TypeOK, OutcomeInv, PageInv, NEW r \in Requests, Accept(r)
    PROVE  PageInv'
  <1>1. target[r] \in Queues /\ mode[r] \in Kinds /\ mode[r] # "restore"
    BY DEF Accept, TypeOK, Modes, Kinds, InGate, LpPhases
  <1>2. stream \in [Queues -> Seq(Jobs)] /\ Submit(r, mode[r])
    BY DEF Accept, TypeOK
  <1>3. /\ \A q \in Queues, s \in Requests : \A i \in DOMAIN stream'[q] :
               IsPage(q, i, s)' <=>
                   \/ IsPage(q, i, s)
                   \/ q = target[r] /\ i = Len(stream[q]) + 1 /\ s = r
        /\ \A q \in Queues : \A i \in DOMAIN stream[q] :
               /\ i \in DOMAIN stream'[q]
               /\ stream'[q][i] = stream[q][i]
               /\ IsRestoredAt(q, i) => IsRestoredAt(q, i)'
    BY <1>1, <1>2, SubmitPages
  <1>4. /\ Len(stream[target[r]]) + 1 \in DOMAIN stream'[target[r]]
        /\ stream'[target[r]][Len(stream[target[r]]) + 1].kind = mode[r]
    <2>1. /\ Len(stream[target[r]]) \in Nat
          /\ DOMAIN stream'[target[r]] = 1 .. (Len(stream[target[r]]) + 1)
          /\ stream'[target[r]][Len(stream[target[r]]) + 1] = Job(r, mode[r])
      BY <1>1, <1>2, SubmitEffect
    <2>2. Job(r, mode[r]).kind = mode[r]
      BY DEF Job
    <2>3. QED
      BY <2>1, <2>2
  <1>5. /\ UNCHANGED <<mode, target, outcome>>
        /\ pc[r] = "lp" /\ pc'[r] = "accepted"
        /\ \A s \in Requests \ {r} : pc'[s] = pc[s]
    BY DEF Accept, Goto, TypeOK
  <1>6. outcome[r] = "none" /\ NoPage(r)
    BY <1>5 DEF OutcomeInv, PageInv, NotSubmitted, NoPageYet, Returned
  <1> SUFFICES ASSUME NEW s \in Requests
               PROVE  /\ NotSubmitted(s)' => NoPage(s)'
                      /\ OnePage(s)'
                      /\ Submitted(s)' => HasPage(s)'
                      /\ Restored(s)' => HasRestoredPage(s)'
    BY DEF PageInv
  <1>7. CASE s # r
    <2>1. \A q \in Queues : \A i \in DOMAIN stream'[q] :
              IsPage(q, i, s)' <=> IsPage(q, i, s)
      BY <1>3, <1>7
    <2>2. \A q \in Queues : \A i \in DOMAIN stream[q] :
              IsPage(q, i, s)' <=> IsPage(q, i, s)
      BY <1>3, <2>1
    <2>3. \A q \in Queues : \A i \in DOMAIN stream'[q] :
              IsPage(q, i, s) => i \in DOMAIN stream[q]
      BY DEF IsPage
    <2>4. NotSubmitted(s)' => NoPage(s)'
      BY <1>5, <1>7, <2>1, <2>3 DEF PageInv, NoPage, NotSubmitted
    <2>5. OnePage(s)'
      <3> SUFFICES ASSUME NEW q \in Queues, NEW i \in DOMAIN stream'[q],
                          IsPage(q, i, s)'
                   PROVE  /\ q = target'[s]
                          /\ stream'[q][i].kind = mode'[s]
                          /\ \A j \in DOMAIN stream'[q] :
                                 IsPage(q, j, s)' => i = j
        BY DEF OnePage
      <3>1. IsPage(q, i, s) /\ i \in DOMAIN stream[q]
        BY <2>1, <2>3
      <3>2. QED
        BY <1>3, <1>5, <2>1, <2>3, <3>1 DEF PageInv, OnePage
    <2>6. Submitted(s)' => HasPage(s)'
      BY <1>3, <1>5, <1>7, <2>2 DEF PageInv, HasPage, Submitted
    <2>7. Restored(s)' => HasRestoredPage(s)'
      BY <1>3, <1>5, <1>7, <2>2 DEF PageInv, HasRestoredPage, Restored
    <2>8. QED
      BY <2>4, <2>5, <2>6, <2>7
  <1>8. CASE s = r
    <2>1. \A q \in Queues : \A i \in DOMAIN stream'[q] :
              IsPage(q, i, r)' <=>
                  q = target[r] /\ i = Len(stream[q]) + 1
      BY <1>3, <1>6 DEF NoPage, IsPage
    <2>2. OnePage(r)'
      BY <1>4, <1>5, <2>1 DEF OnePage
    <2>3. HasPage(r)'
      BY <1>1, <1>4, <1>5, <2>1 DEF HasPage
    <2>4. ~NotSubmitted(r)' /\ ~Restored(r)'
      BY <1>5, <1>6 DEF NotSubmitted, NoPageYet, Restored
    <2>5. QED
      BY <1>8, <2>2, <2>3, <2>4
  <1>9. QED
    BY <1>7, <1>8

(* CUPS takes the restoration: it comes right after the page.                *)
LEMMA RestorationStep ==
    ASSUME TypeOK, GateInv, BracketInv, OutcomeInv, PageInv,
           NEW r \in Requests, AcceptRecall(r)
    PROVE  PageInv'
  <1>1. target[r] \in Queues /\ mode[r] = "inverting" /\ "restore" \in Kinds
    BY DEF AcceptRecall, TypeOK, Kinds, InGate, LpPhases, GateInv, Bracketed
  <1>2. stream \in [Queues -> Seq(Jobs)] /\ Submit(r, "restore")
    BY DEF AcceptRecall, TypeOK
  <1>3. /\ \A q \in Queues, s \in Requests : \A i \in DOMAIN stream'[q] :
               IsPage(q, i, s)' <=> IsPage(q, i, s)
        /\ \A q \in Queues : \A i \in DOMAIN stream[q] :
               /\ i \in DOMAIN stream'[q]
               /\ stream'[q][i] = stream[q][i]
               /\ IsRestoredAt(q, i) => IsRestoredAt(q, i)'
        /\ \A q \in Queues : \A i \in DOMAIN stream[q] :
               /\ q = target[r] /\ i = Len(stream[q])
               /\ stream[q][i].request = r
               => IsRestoredAt(q, i)'
    BY <1>1, <1>2, SubmitPages
  <1>4. /\ UNCHANGED <<mode, target, outcome>>
        /\ pc[r] = "relp" /\ pc'[r] = "recalled"
        /\ \A s \in Requests \ {r} : pc'[s] = pc[s]
    BY DEF AcceptRecall, Goto, TypeOK
  <1>5. HasRestoredPage(r)'
    <2> DEFINE t == target[r]
               n == Len(stream[t])
    <2>1. n > 0 /\ stream[t][n] = Job(r, "inverting")
      BY <1>1, <1>4 DEF BracketInv
    <2>2. n \in DOMAIN stream[t]
      BY <1>1, <1>2, <2>1, SubmitEffect
    <2>3. IsPage(t, n, r)
      BY <2>1, <2>2 DEF IsPage, Job
    <2>4. ASSUME NEW q \in Queues, NEW i \in DOMAIN stream[q], q = t, i = n
          PROVE  IsPage(q, i, r)' /\ IsRestoredAt(q, i)' /\ i \in DOMAIN stream'[q]
      BY <1>3, <2>3, <2>4 DEF IsPage
    <2>5. QED
      BY <1>1, <1>4, <2>2, <2>4 DEF HasRestoredPage
  <1> SUFFICES ASSUME NEW s \in Requests
               PROVE  /\ NotSubmitted(s)' => NoPage(s)'
                      /\ OnePage(s)'
                      /\ Submitted(s)' => HasPage(s)'
                      /\ Restored(s)' => HasRestoredPage(s)'
    BY DEF PageInv
  <1>6. /\ NotSubmitted(s)' => NotSubmitted(s)
        /\ Submitted(s)' => Submitted(s)
        /\ s # r => (Restored(s)' => Restored(s))
    BY <1>4 DEF NotSubmitted, NoPageYet, Submitted, PageIsThere, Restored
  <1>7. \A q \in Queues : \A i \in DOMAIN stream'[q] :
            IsPage(q, i, s) => i \in DOMAIN stream[q]
    BY DEF IsPage
  <1>8. NotSubmitted(s)' => NoPage(s)'
    BY <1>3, <1>6, <1>7 DEF PageInv, NoPage
  <1>9. OnePage(s)'
    BY <1>3, <1>4, <1>7 DEF PageInv, OnePage
  <1>10. Submitted(s)' => HasPage(s)'
    BY <1>3, <1>4, <1>6 DEF PageInv, HasPage
  <1>11. s # r /\ Restored(s)' => HasRestoredPage(s)'
    BY <1>3, <1>4, <1>6 DEF PageInv, HasRestoredPage
  <1>12. QED
    BY <1>5, <1>8, <1>9, <1>10, <1>11
(* What a request has put at CUPS is decided by its phase and its outcome.   *)
LEMMA PageCorrect == Spec => [](OutcomeInv /\ PageInv)
  <1>1. Init => OutcomeInv /\ PageInv
    <2> SUFFICES ASSUME Init PROVE OutcomeInv /\ PageInv
      OBVIOUS
    <2>1. /\ \A r \in Requests : pc[r] = "idle" /\ outcome[r] = "none"
          /\ \A q \in Queues : stream[q] = << >>
      BY DEF Init
    <2>2. \A q \in Queues : DOMAIN stream[q] = {}
      BY <2>1
    <2>3. OutcomeInv
      BY <2>1 DEF OutcomeInv, Returned
    <2>4. PageInv
      BY <2>1, <2>2 DEF PageInv, NoPage, OnePage, Submitted, PageIsThere, Restored
    <2>5. QED
      BY <2>3, <2>4
  <1>2. /\ TypeOK /\ GateInv /\ BracketInv /\ OutcomeInv /\ PageInv
        /\ [Next]_vars
        => OutcomeInv' /\ PageInv'
    <2> SUFFICES ASSUME TypeOK, GateInv, BracketInv, OutcomeInv, PageInv,
                        [Next]_vars
                 PROVE  OutcomeInv' /\ PageInv'
      OBVIOUS
    <2>1. OutcomeInv'
      BY OutcomeStep
    <2>2. ASSUME NEW r \in Requests, Accept(r) PROVE PageInv'
      BY <2>2, PageStep
    <2>3. ASSUME NEW r \in Requests, AcceptRecall(r) PROVE PageInv'
      BY <2>3, RestorationStep
    <2>4. CASE UNCHANGED stream
      BY <2>1, <2>4, QuietStep
    <2>5. ASSUME NEW r \in Requests,
                 Arrive(r) \/ HandlerStep(r) \/ Advance(r) \/ ContextEnds(r)
          PROVE  UNCHANGED stream
      BY <2>5 DEF HandlerStep, Arrive, Resolve, ResolveFails, AskShared,
                  AskExclusive, Advance, requestVars, Render, RenderFails,
                  StartLp, StartFails, LpReturns, LpRefuses, LpIsCut,
                  StartRecall, RecallReturns, RecallFails, Release, Answer,
                  ContextEnds
    <2>6. QED
      BY <2>1, <2>2, <2>3, <2>4, <2>5 DEF Next, Stop, vars, requestVars
  <1>3. QED
    BY <1>1, <1>2, GateCorrect, BracketCorrect, PTL DEF Spec

(* The places of a page, as the properties speak of them.                    *)
LEMMA PlacesOfAPage ==
    ASSUME NEW r \in Requests, NEW p
    PROVE  p \in PagePlaces(r) <=>
               \E q \in Queues : \E i \in DOMAIN stream[q] :
                   p = <<q, i>> /\ IsPage(q, i, r)
  <1>1. ASSUME NEW q \in Queues, NEW i
        PROVE  i \in PagesOn(q, r) <=> i \in DOMAIN stream[q] /\ IsPage(q, i, r)
    BY DEF PagesOn, IsPage
  <1>2. p \in PagePlaces(r) <=>
            \E q \in Queues : \E i \in PagesOn(q, r) : p = <<q, i>>
    BY DEF PagePlaces
  <1>3. QED
    BY <1>1, <1>2

(* For any number of requests, queues and ends of the process: a request     *)
(* puts at most one page on paper, whatever was cut short or answered with   *)
(* an error.                                                                 *)
THEOREM OnceOnPaper == Spec => []LandsAtMostOnce
  <1>1. PageInv => LandsAtMostOnce
    BY PlacesOfAPage DEF PageInv, OnePage, LandsAtMostOnce
  <1>2. QED
    BY <1>1, PageCorrect, PTL

(* What a request is answered is what CUPS was given: a 200 is one page on   *)
(* the queue it resolved to, restored if it changed the settings; a failed   *)
(* resolution or render is no page at all.                                   *)
THEOREM TrueAnswers == Spec => []AnswersAreTrue
  <1>1. TypeOK /\ PageInv => AnswersAreTrue
    <2> SUFFICES ASSUME TypeOK, PageInv, NEW r \in Requests, pc[r] = "done"
                 PROVE  /\ outcome[r] = "sent" =>
                               \E i \in DOMAIN stream[target[r]] :
                                  /\ PagePlaces(r) = {<<target[r], i>>}
                                  /\ stream[target[r]][i].kind = mode[r]
                                  /\ mode[r] = "inverting" =>
                                         IsRestoredAt(target[r], i)
                        /\ outcome[r] \in {"unresolved", "render"} =>
                               PagePlaces(r) = {}
      BY DEF AnswersAreTrue
    <2>1. ASSUME outcome[r] \in {"unresolved", "render"}
          PROVE  PagePlaces(r) = {}
      BY <2>1, PlacesOfAPage DEF PageInv, NotSubmitted, NoPage
    <2>2. ASSUME outcome[r] = "sent"
          PROVE  \E i \in DOMAIN stream[target[r]] :
                     /\ PagePlaces(r) = {<<target[r], i>>}
                     /\ stream[target[r]][i].kind = mode[r]
                     /\ mode[r] = "inverting" => IsRestoredAt(target[r], i)
      <3>1. PICK i \in DOMAIN stream[target[r]] :
                /\ target[r] \in Queues
                /\ IsPage(target[r], i, r)
                /\ mode[r] = "inverting" => IsRestoredAt(target[r], i)
        BY <2>2 DEF PageInv, Submitted, Restored, HasPage, HasRestoredPage
      <3>2. \A q \in Queues : \A j \in DOMAIN stream[q] :
                IsPage(q, j, r) => q = target[r] /\ j = i
        BY <3>1 DEF PageInv, OnePage
      <3>3. PagePlaces(r) = {<<target[r], i>>}
        BY <3>1, <3>2, PlacesOfAPage
      <3>4. stream[target[r]][i].kind = mode[r]
        BY <3>1 DEF PageInv, OnePage
      <3>5. QED
        BY <3>1, <3>3, <3>4
    <2>3. QED
      BY <2>1, <2>2
  <1>2. QED
    BY <1>1, TypeCorrect, PageCorrect, PTL

(* An inverting page that something else has followed without a restoration  *)
(* is one whose request failed at lp, or went down with the process.         *)
THEOREM InheritanceIsReported == Spec => []InheritedSettingsAreReported
  <1>1. TypeOK /\ BracketInv /\ OutcomeInv /\ PageInv
            => InheritedSettingsAreReported
    <2> SUFFICES ASSUME TypeOK, BracketInv, OutcomeInv, PageInv,
                        NEW q \in Queues, NEW i \in DOMAIN stream[q],
                        stream[q][i].kind = "inverting",
                        i + 1 \in DOMAIN stream[q],
                        ~IsRestoredAt(q, i)
                 PROVE  \/ pc[stream[q][i].request] = "lost"
                        \/ outcome[stream[q][i].request] \in {"spool", "restore"}
      BY DEF InheritedSettingsAreReported
    <2> DEFINE r == stream[q][i].request
               n == Len(stream[q])
    <2>1. /\ stream[q] \in Seq(Jobs) /\ n \in Nat /\ DOMAIN stream[q] = 1 .. n
          /\ r \in Requests
      <3>1. stream[q] \in Seq(Jobs)
        BY DEF TypeOK
      <3>2. n \in Nat /\ DOMAIN stream[q] = 1 .. n /\ stream[q][i] \in Jobs
        BY <3>1
      <3>3. QED
        BY <3>1, <3>2 DEF Jobs
    <2>2. IsPage(q, i, r)
      BY DEF IsPage
    <2>3. /\ q = target[r] /\ mode[r] = "inverting"
          /\ \A j \in DOMAIN stream[q] : IsPage(q, j, r) => i = j
      BY <2>1, <2>2 DEF PageInv, OnePage
    <2>4. ~NotSubmitted(r)
      BY <2>1, <2>2 DEF PageInv, NoPage
    <2>5. ~Restored(r)
      BY <2>1, <2>3 DEF PageInv, HasRestoredPage
    <2>6. ASSUME pc[r] \in {"accepted", "recall", "relp"} PROVE FALSE
      <3>1. n > 0 /\ stream[q][n] = Job(r, "inverting")
        BY <2>1, <2>3, <2>6 DEF BracketInv
      <3>2. n \in DOMAIN stream[q] /\ IsPage(q, n, r)
        BY <2>1, <3>1 DEF IsPage, Job
      <3>3. i = n
        BY <2>3, <3>2
      <3>4. QED
        BY <2>1, <3>3
    <2>7. outcome[r] # "none" \/ pc[r] = "lost"
      BY <2>1, <2>4, <2>5, <2>6
         DEF TypeOK, OutcomeInv, NotSubmitted, NoPageYet, Restored, Returned,
             Phases, InFlight, InGate, LpPhases
    <2>8. QED
      BY <2>1, <2>3, <2>4, <2>5, <2>7
         DEF TypeOK, Outcomes, NotSubmitted, Restored
  <1>2. QED
    BY <1>1, TypeCorrect, BracketCorrect, PageCorrect, PTL
-----------------------------------------------------------------------------
(* The refinement.  r's page is at CUPS and r is on its way to the restoration. *)
InBracket(r) == mode[r] = "inverting" /\ pc[r] \in {"accepted", "recall", "relp"}

OneBracket ==
    /\ \A r \in Requests : InBracket(r) <=> OpenBracket = r
    /\ (\A r \in Requests : ~InBracket(r)) => OpenBracket = NoRequest

(* At most one bracket is open, and the promise's names it.                  *)
LEMMA BracketsExclude ==
    ASSUME TypeOK, OrderInv, GateInv
    PROVE  OneBracket
  <1> DEFINE inside == {r \in Requests : InBracket(r)}
  <1>1. OpenBracket = IF inside = {} THEN NoRequest ELSE CHOOSE r \in inside : TRUE
    BY DEF OpenBracket, InBracket
  <1>2. \A r \in inside : owner = r
    BY DEF InBracket, GateInv, Holds, HoldsExclusive, InGate, LpPhases
  <1>3. inside # {} => OpenBracket \in inside
    BY <1>1
  <1>4. inside = {} => OpenBracket = NoRequest
    BY <1>1
  <1>5. QED
    BY <1>2, <1>3, <1>4, NoRequestAssumption DEF OneBracket

(* Has one of r's jobs of these kinds landed?                                *)
LEMMA LandedPages ==
    ASSUME TypeOK, PageInv, NEW r \in Requests
    PROVE  /\ NotSubmitted(r) =>
                  ~Promise!Landed(r, {"raw", "document", "inverting"})
           /\ outcome[r] = "sent" =>
                  \/ Promise!Landed(r, {"raw", "document"})
                  \/ Promise!Landed(r, {"restore"})
  <1>1. ASSUME NotSubmitted(r), Promise!Landed(r, {"raw", "document", "inverting"})
        PROVE  FALSE
    BY <1>1 DEF Promise!Landed, PageInv, NoPage, IsPage
  <1>2. ASSUME outcome[r] = "sent", mode[r] # "inverting"
        PROVE  Promise!Landed(r, {"raw", "document"})
    BY <1>2 DEF Promise!Landed, PageInv, Submitted, HasPage, OnePage, IsPage,
                TypeOK, Modes
  <1>3. ASSUME outcome[r] = "sent", mode[r] = "inverting"
        PROVE  Promise!Landed(r, {"restore"})
    <2>1. PICK q \in Queues : \E i \in DOMAIN stream[q] :
              IsPage(q, i, r) /\ IsRestoredAt(q, i)
      BY <1>3 DEF PageInv, Restored, HasRestoredPage
    <2> PICK i \in DOMAIN stream[q] : IsPage(q, i, r) /\ IsRestoredAt(q, i)
      BY <2>1
    <2>2. /\ i + 1 \in DOMAIN stream[q]
          /\ stream[q][i + 1].request = r
          /\ stream[q][i + 1].kind = "restore"
      BY DEF IsPage, IsRestoredAt, Job
    <2>3. QED
      BY <2>2 DEF Promise!Landed
  <1>4. QED
    BY <1>1, <1>2, <1>3

(* A fresh process has promised nothing.                                     *)
LEMMA PromiseInit == Init => Promise!Init
  <1> SUFFICES ASSUME Init PROVE Promise!Init
    OBVIOUS
  <1>1. \A r \in Requests : pc[r] = "idle"
    BY DEF Init
  <1>2. OpenBracket = NoRequest
    BY <1>1 DEF OpenBracket
  <1>3. Told = [r \in Requests |-> "pending"]
    BY <1>1 DEF Told
  <1>4. QED
    BY <1>2, <1>3 DEF Init, Promise!Init

(* What a step that leaves the streams and the answers alone may do to the   *)
(* bracket: leave it alone too, or give it up.                               *)
LEMMA PromiseQuiet ==
    ASSUME OneBracket, OneBracket', UNCHANGED stream, Told' = Told,
           \A r \in Requests : InBracket(r)' => InBracket(r)
    PROVE  [Promise!Next]_<<stream, OpenBracket, Told>>
  <1>1. CASE \E r \in Requests : InBracket(r)'
    BY <1>1 DEF OneBracket
  <1>2. CASE OpenBracket' = NoRequest
    BY <1>2 DEF Promise!Next, Promise!GiveUp
  <1>3. QED
    BY <1>1, <1>2 DEF OneBracket

(* What a handler is about to answer, and what the caller is told.           *)
LEMMA ToldPending ==
    ASSUME NEW r \in Requests
    PROVE  /\ Told[r] = "pending" <=> pc[r] \notin {"done", "lost"}
           /\ Told[r] = "lost" <=> pc[r] = "lost"
           /\ Told[r] = "sent" <=> pc[r] = "done" /\ outcome[r] = "sent"
           /\ Told[r] = "failed" <=> pc[r] = "done" /\ outcome[r] # "sent"
  BY DEF Told

(* CUPS takes a page: the promise's Job, which no open bracket allows.       *)
LEMMA PromiseAccept ==
    ASSUME TypeOK, OrderInv, GateInv, OutcomeInv, PageInv, OneBracket, OneBracket',
           NEW r \in Requests, Accept(r)
    PROVE  Promise!Job(r, target[r])
  <1>1. /\ pc[r] = "lp" /\ pc'[r] = "accepted"
        /\ \A s \in Requests \ {r} : pc'[s] = pc[s]
        /\ UNCHANGED <<mode, target, outcome>>
    BY DEF Accept, Goto, TypeOK
  <1>2. Told[r] = "pending" /\ Told' = Told
    BY <1>1 DEF Told
  <1>3. \A s \in Requests : ~InBracket(s)
    BY <1>1, HoldersExclude
       DEF InBracket, GateInv, Holds, ExclusiveSubmission, InGate, LpPhases
  <1>4. OpenBracket = NoRequest
    BY <1>3 DEF OneBracket
  <1>5. ~Promise!Landed(r, {"raw", "document", "inverting"})
    BY <1>1, LandedPages DEF NotSubmitted, NoPageYet
  <1>6. Promise!Append1(target[r], r, mode[r])
    BY DEF Accept, Submit, Promise!Append1
  <1>7. CASE mode[r] = "inverting"
    <2>1. InBracket(r)'
      BY <1>1, <1>7 DEF InBracket
    <2>2. OpenBracket' = r
      BY <2>1 DEF OneBracket
    <2>3. QED
      BY <1>2, <1>4, <1>5, <1>6, <1>7, <2>2 DEF Promise!Job
  <1>8. CASE mode[r] \in {"raw", "document"}
    <2>1. \A s \in Requests : ~InBracket(s)'
      BY <1>1, <1>3, <1>8 DEF InBracket
    <2>2. OpenBracket' = NoRequest
      BY <2>1 DEF OneBracket
    <2>3. QED
      BY <1>2, <1>4, <1>5, <1>6, <1>8, <2>2 DEF Promise!Job
  <1>9. QED
    BY <1>7, <1>8 DEF TypeOK, Modes

(* CUPS takes a restoration: the promise's Restore closes the bracket.       *)
LEMMA PromiseRestore ==
    ASSUME TypeOK, OrderInv, GateInv, BracketInv, OneBracket, OneBracket',
           NEW r \in Requests, AcceptRecall(r)
    PROVE  Promise!Restore(r, target[r])
  <1>1. /\ pc[r] = "relp" /\ pc'[r] = "recalled" /\ mode[r] = "inverting"
        /\ \A s \in Requests \ {r} : pc'[s] = pc[s]
        /\ UNCHANGED <<mode, target, outcome>>
    BY DEF AcceptRecall, Goto, TypeOK, GateInv, Bracketed
  <1>2. Told[r] = "pending" /\ Told' = Told
    BY <1>1 DEF Told
  <1>3. InBracket(r) /\ OpenBracket = r
    BY <1>1 DEF InBracket, OneBracket
  <1>4. \A s \in Requests : ~InBracket(s)'
    BY <1>1, <1>3 DEF InBracket, OneBracket
  <1>5. OpenBracket' = NoRequest
    BY <1>4 DEF OneBracket
  <1>6. /\ Len(stream[target[r]]) > 0
        /\ stream[target[r]][Len(stream[target[r]])] = Job(r, "inverting")
    BY <1>3 DEF BracketInv, InBracket
  <1>7. stream[target[r]] # << >>
    BY <1>6
  <1>8. Promise!Append1(target[r], r, "restore")
    BY DEF AcceptRecall, Submit, Promise!Append1
  <1>9. QED
    BY <1>2, <1>3, <1>5, <1>6, <1>7, <1>8 DEF Promise!Restore, Job

(* The answer: what is told is what has landed.                              *)
LEMMA PromiseTell ==
    ASSUME TypeOK, OutcomeInv, PageInv, OneBracket, OneBracket',
           NEW r \in Requests, Answer(r)
    PROVE  Promise!Tell(r)
  <1>1. /\ pc[r] = "answer" /\ pc' = [pc EXCEPT ![r] = "done"]
        /\ UNCHANGED <<mode, target, outcome, stream>>
    BY DEF Answer, Goto
  <1>2. Told[r] = "pending" /\ ~InBracket(r)
    BY <1>1 DEF Told, InBracket
  <1>3. OpenBracket # r
    BY <1>2 DEF OneBracket
  <1>4. \A s \in Requests : InBracket(s)' <=> InBracket(s)
    BY <1>1 DEF InBracket, TypeOK
  <1>5. OpenBracket' = OpenBracket
    BY <1>4 DEF OneBracket
  <1>6. Told' = [Told EXCEPT ![r] = IF outcome[r] = "sent" THEN "sent" ELSE "failed"]
    BY <1>1 DEF Told, TypeOK
  <1>7. outcome[r] = "sent" => \/ Promise!Landed(r, {"raw", "document"})
                               \/ Promise!Landed(r, {"restore"})
    BY LandedPages
  <1>8. QED
    BY <1>1, <1>2, <1>3, <1>5, <1>6, <1>7 DEF Promise!Tell

(* The end of the process: everyone in flight loses the answer.              *)
LEMMA PromiseLose ==
    ASSUME TypeOK, OneBracket, OneBracket', Stop
    PROVE  Promise!Lose
  <1> DEFINE R == {r \in Requests : pc[r] \in InFlight}
  <1>1. pc' = [r \in Requests |-> IF pc[r] \in InFlight THEN "lost" ELSE pc[r]]
    BY DEF Stop
  <1>2. UNCHANGED <<mode, outcome, stream>>
    BY DEF Stop
  <1>3. R \in SUBSET {r \in Requests : Told[r] = "pending"}
    BY DEF Told, InFlight, InGate, LpPhases
  <1>4. Told' = [r \in Requests |-> IF r \in R THEN "lost" ELSE Told[r]]
    BY <1>1, <1>2 DEF Told, InFlight, InGate, LpPhases
  <1>5. \A r \in Requests : ~InBracket(r)'
    BY <1>1 DEF InBracket, InFlight, InGate, LpPhases
  <1>6. OpenBracket' = NoRequest
    BY <1>5 DEF OneBracket
  <1>7. QED
    BY <1>2, <1>3, <1>4, <1>6 DEF Promise!Lose

(* Every step of the handlers, of lp and of the process is a step of the     *)
(* promise, or changes nothing the promise speaks of.                        *)
LEMMA PromiseStep ==
    ASSUME TypeOK, OrderInv, GateInv, BracketInv, OutcomeInv, PageInv, OneBracket,
           OneBracket', [Next]_vars
    PROVE  [Promise!Next]_<<stream, OpenBracket, Told>>
  <1>1. ASSUME NEW r \in Requests, Accept(r) PROVE Promise!Next
    BY <1>1, PromiseAccept DEF Promise!Next, Accept, TypeOK, InGate, LpPhases
  <1>2. ASSUME NEW r \in Requests, AcceptRecall(r) PROVE Promise!Next
    BY <1>2, PromiseRestore DEF Promise!Next, AcceptRecall, TypeOK, InGate, LpPhases
  <1>3. ASSUME NEW r \in Requests, Answer(r) PROVE Promise!Next
    BY <1>3, PromiseTell DEF Promise!Next
  <1>4. CASE Stop
    BY <1>4, PromiseLose DEF Promise!Next
  <1>5. ASSUME NEW r \in Requests,
               Arrive(r) \/ Resolve(r) \/ ResolveFails(r) \/ AskShared(r)
                 \/ AskExclusive(r) \/ Render(r) \/ RenderFails(r) \/ StartLp(r)
                 \/ StartFails(r) \/ ContextEnds(r)
        PROVE  [Promise!Next]_<<stream, OpenBracket, Told>>
    <2>1. /\ UNCHANGED stream
          /\ \A s \in Requests : /\ InBracket(s)' => InBracket(s)
                                 /\ pc'[s] = "done" <=> pc[s] = "done"
                                 /\ pc'[s] = "lost" <=> pc[s] = "lost"
                                 /\ pc[s] = "done" => outcome'[s] = outcome[s]
      BY <1>5 DEF Arrive, Resolve, ResolveFails, AskShared, AskExclusive, Render,
                  RenderFails, StartLp, StartFails, ContextEnds, InBracket, TypeOK,
                  Goto, Return
    <2>2. Told' = Told
      BY <2>1 DEF Told
    <2>3. QED
      BY <2>1, <2>2, PromiseQuiet
  <1>6. ASSUME NEW r \in Requests,
               LpReturns(r) \/ LpRefuses(r) \/ LpIsCut(r) \/ StartRecall(r)
                 \/ RecallReturns(r) \/ RecallFails(r) \/ Release(r)
        PROVE  [Promise!Next]_<<stream, OpenBracket, Told>>
    <2>1. /\ UNCHANGED stream
          /\ \A s \in Requests : /\ InBracket(s)' => InBracket(s)
                                 /\ pc'[s] = "done" <=> pc[s] = "done"
                                 /\ pc'[s] = "lost" <=> pc[s] = "lost"
                                 /\ pc[s] = "done" => outcome'[s] = outcome[s]
      BY <1>6 DEF LpReturns, LpRefuses, LpIsCut, StartRecall, RecallReturns,
                  RecallFails, Release, InBracket, TypeOK, Goto, Return, GateInv,
                  Bracketed
    <2>2. Told' = Told
      BY <2>1 DEF Told
    <2>3. QED
      BY <2>1, <2>2, PromiseQuiet
  <1>7. CASE (\E r \in Requests : Advance(r)) \/ UNCHANGED vars
    <2>1. UNCHANGED <<pc, mode, outcome, stream>>
      BY <1>7 DEF Advance, vars, requestVars
    <2>2. OpenBracket' = OpenBracket /\ Told' = Told
      BY <2>1 DEF OpenBracket, Told
    <2>3. QED
      BY <2>1, <2>2
  <1>8. QED
    BY <1>1, <1>2, <1>3, <1>4, <1>5, <1>6, <1>7 DEF Next, HandlerStep

(* The handlers, the lock, lp and the timeouts implement the promise of the  *)
(* print routes, for any number of requests and queues.                      *)
THEOREM KeepsThePromise == Spec => ImplementsPromise
  <1> DEFINE Inv == /\ TypeOK /\ OrderInv /\ GateInv /\ BracketInv
                    /\ OutcomeInv /\ PageInv /\ OneBracket
  <1>1. Spec => []Inv
    <2>1. TypeOK /\ OrderInv /\ GateInv => OneBracket
      BY BracketsExclude
    <2>2. QED
      BY <2>1, GateCorrect, BracketCorrect, PageCorrect, PTL
  <1>2. Inv /\ Inv' /\ [Next]_vars => [Promise!Next]_<<stream, OpenBracket, Told>>
    BY PromiseStep
  <1>3. QED
    BY <1>1, <1>2, PromiseInit, PTL DEF Spec, ImplementsPromise, Promise!Spec, Promise!promiseVars
=============================================================================
