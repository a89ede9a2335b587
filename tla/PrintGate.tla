------------------------------- MODULE PrintGate -------------------------------
(***************************************************************************)
(* From an admitted print request to its answer: the tail of handleWrite    *)
(* and handlePrintPDF (src/server.go), printRaw, printDocument, spool and   *)
(* osRunner.Run (src/cups.go), the lp processes they start and the jobs     *)
(* CUPS accepts from them.  Each request is served by its own goroutine.    *)
(*                                                                         *)
(* Who is usable, which queue a request resolves to and whether its driver  *)
(* inverts are answers of other components, here any answer.  A job is its  *)
(* request and its kind: "raw" ZPL, a PDF "document", the generated page of *)
(* an "inverting" document, the "restore" (^JUR) that must follow it.       *)
(***************************************************************************)
EXTENDS PrintOrder, Naturals, Sequences

CONSTANTS Queues,     \* the CUPS queues of the station
          NoQueue,    \* "not resolved yet"
          MaxStops    \* bound on the ends of the process that are explored

ASSUME NoQueueAssumption == NoQueue \notin Queues
ASSUME MaxStopsAssumption == MaxStops \in Nat

VARIABLES pc,         \* where each request's handler is
          mode,       \* how its job is submitted
          target,     \* the queue it resolved to
          live,       \* is its context (writeBudget, client) still alive?
          outcome,    \* what printRaw or printDocument returned
          stream,     \* per queue, the jobs CUPS accepted, oldest first
          stops       \* how often the process has ended

requestVars == <<pc, mode, target, live, outcome, stream, stops>>
vars == <<orderVars, requestVars>>

Modes == {"raw", "document", "inverting"}
Kinds == Modes \cup {"restore"}
Jobs == [request : Requests, kind : Kinds]

(* "lp" and "relp": the lp process runs and CUPS has not yet taken its job;  *)
(* "accepted" and "recalled": it has, and lp has not yet returned.           *)
LpPhases == {"lp", "accepted", "relp", "recalled"}
InGate == {"spool", "recall", "release"} \cup LpPhases
InFlight == {"resolve", "ask", "render", "answer"} \cup InGate
Phases == {"idle", "done", "lost"} \cup InFlight

(* What the handler answers: 200, or 500 with the error of the stage named. *)
Outcomes == {"none", "sent", "unresolved", "render", "spool", "restore"}

TypeOK ==
    /\ OrderTypeOK
    /\ pc \in [Requests -> Phases]
    /\ mode \in [Requests -> Modes]
    /\ target \in [Requests -> Queues \cup {NoQueue}]
    /\ live \in [Requests -> BOOLEAN]
    /\ outcome \in [Requests -> Outcomes]
    /\ stream \in [Queues -> Seq(Jobs)]
    /\ stops \in 0..MaxStops
    /\ \A r \in Requests :
           pc[r] \in {"ask", "render"} \cup InGate => target[r] \in Queues

(* The mode a request starts with is its route: /write or /print-pdf. *)
Init ==
    /\ OrderInit
    /\ pc = [r \in Requests |-> "idle"]
    /\ mode \in [Requests -> {"raw", "document"}]
    /\ target = [r \in Requests |-> NoQueue]
    /\ live = [r \in Requests |-> TRUE]
    /\ outcome = [r \in Requests |-> "none"]
    /\ stream = [q \in Queues |-> << >>]
    /\ stops = 0

-----------------------------------------------------------------------------
Goto(r, phase) == pc' = [pc EXCEPT ![r] = phase]

Return(r, result, phase) ==
    /\ outcome' = [outcome EXCEPT ![r] = result]
    /\ Goto(r, phase)

Submit(r, kind) ==
    stream' = [stream EXCEPT ![target[r]] =
                   Append(@, [request |-> r, kind |-> kind])]

(* The body is validated and the writeBudget context starts. *)
Arrive(r) ==
    /\ pc[r] = "idle"
    /\ Goto(r, "resolve")
    /\ UNCHANGED <<orderVars, mode, target, live, outcome, stream, stops>>

(* resolveTarget, and for a document the driver verdict of the queue it got *)
Resolve(r) ==
    /\ pc[r] = "resolve"
    /\ \E q \in Queues, inverting \in BOOLEAN :
           /\ target' = [target EXCEPT ![r] = q]
           /\ mode' = [mode EXCEPT ![r] =
                  IF mode[r] = "document" /\ inverting THEN "inverting" ELSE @]
    /\ Goto(r, "ask")
    /\ UNCHANGED <<orderVars, live, outcome, stream, stops>>

(* Fault: the missing return after resolveTarget's error. *)
ResolveFailsKeepsGoing(r) ==
    /\ pc[r] = "resolve"
    /\ Return(r, "unresolved", "ask")
    /\ UNCHANGED <<orderVars, mode, target, live, stream, stops>>

ResolveFails(r) ==
    /\ pc[r] = "resolve"
    /\ Return(r, "unresolved", "answer")
    /\ UNCHANGED <<orderVars, mode, target, live, stream, stops>>

AskShared(r) ==
    /\ pc[r] = "ask"
    /\ mode[r] # "inverting"
    /\ RLock(r)
    /\ Goto(r, "spool")
    /\ UNCHANGED <<mode, target, live, outcome, stream, stops>>

(* Fault: the inverting document takes the gate shared, like any other. *)
AskExclusiveShared(r) ==
    /\ pc[r] = "ask"
    /\ mode[r] = "inverting"
    /\ RLock(r)
    /\ Goto(r, "render")
    /\ UNCHANGED <<mode, target, live, outcome, stream, stops>>

AskExclusive(r) ==
    /\ pc[r] = "ask"
    /\ mode[r] = "inverting"
    /\ Lock(r)
    /\ Goto(r, "render")
    /\ UNCHANGED <<mode, target, live, outcome, stream, stops>>

(* the two steps of printOrder.Lock between the call and its return *)
Advance(r) ==
    /\ Announce(r) \/ Enter(r)
    /\ UNCHANGED requestVars

(* Rendering offline and rewriting the bitmap: no printer sees either. *)
Render(r) ==
    /\ pc[r] = "render"
    /\ Holds(r)
    /\ live[r]
    /\ Goto(r, "spool")
    /\ UNCHANGED <<orderVars, mode, target, live, outcome, stream, stops>>

RenderFails(r) ==
    /\ pc[r] = "render"
    /\ Holds(r)
    /\ Return(r, "render", "release")
    /\ UNCHANGED <<orderVars, mode, target, live, stream, stops>>

-----------------------------------------------------------------------------
(* Fault: an ordinary job spools without waiting for the gate. *)
StartLpUngated(r) ==
    /\ pc[r] = "spool"
    /\ live[r]
    /\ Goto(r, "lp")
    /\ UNCHANGED <<orderVars, mode, target, live, outcome, stream, stops>>

(* spool: the temporary file is written and lp starts, unless the context   *)
(* is dead already, in which case exec never starts it.                     *)
StartLp(r) ==
    /\ pc[r] = "spool"
    /\ Holds(r)
    /\ live[r]
    /\ Goto(r, "lp")
    /\ UNCHANGED <<orderVars, mode, target, live, outcome, stream, stops>>

StartFails(r) ==
    /\ pc[r] = "spool"
    /\ Holds(r)
    /\ Return(r, "spool", "release")
    /\ UNCHANGED <<orderVars, mode, target, live, stream, stops>>

(* CUPS takes the job; lp has yet to print the request id and exit.  A lp    *)
(* whose context has just ended may still get here before it is killed.     *)
Accept(r) ==
    /\ pc[r] = "lp"
    /\ Submit(r, mode[r])
    /\ Goto(r, "accepted")
    /\ UNCHANGED <<orderVars, mode, target, live, outcome, stops>>

(* Fault: the gate is given back after the page instead of at the return. *)
LpReturnsReleasing(r) ==
    /\ pc[r] = "accepted"
    /\ live[r]
    /\ \/ /\ mode[r] = "inverting"
          /\ Unlock(r)
          /\ Goto(r, "recall")
          /\ UNCHANGED outcome
       \/ /\ mode[r] # "inverting"
          /\ Return(r, "sent", "release")
          /\ UNCHANGED orderVars
    /\ UNCHANGED <<mode, target, live, stream, stops>>

(* lp exits 0 and Run finds the context still alive. *)
LpReturns(r) ==
    /\ pc[r] = "accepted"
    /\ live[r]
    /\ \/ /\ mode[r] = "inverting"
          /\ Goto(r, "recall")
          /\ UNCHANGED outcome
       \/ /\ mode[r] # "inverting"
          /\ Return(r, "sent", "release")
    /\ UNCHANGED <<orderVars, mode, target, live, stream, stops>>

(* lp exits with an error: CUPS has refused the job. *)
LpRefuses(r) ==
    /\ pc[r] = "lp"
    /\ Return(r, "spool", "release")
    /\ UNCHANGED <<orderVars, mode, target, live, stream, stops>>

(* Fault: a submission whose fate is unknown is tried again. *)
LpIsRetried(r) ==
    /\ pc[r] \in {"lp", "accepted"}
    /\ Goto(r, "spool")
    /\ UNCHANGED <<orderVars, mode, target, live, outcome, stream, stops>>

(* lp is killed by its 15 s timeout or by the end of the context, or Run      *)
(* finds the context ended once lp has exited: an error in every case,       *)
(* whether or not CUPS has taken the job by then.                            *)
LpIsCut(r) ==
    /\ pc[r] \in {"lp", "accepted"}
    /\ Return(r, "spool", "release")
    /\ UNCHANGED <<orderVars, mode, target, live, stream, stops>>

(* The restoration is spooled under WithoutCancel: live is not looked at.    *)
StartRecall(r) ==
    /\ pc[r] = "recall"
    /\ Goto(r, "relp")
    /\ UNCHANGED <<orderVars, mode, target, live, outcome, stream, stops>>

AcceptRecall(r) ==
    /\ pc[r] = "relp"
    /\ Submit(r, "restore")
    /\ Goto(r, "recalled")
    /\ UNCHANGED <<orderVars, mode, target, live, outcome, stops>>

RecallReturns(r) ==
    /\ pc[r] = "recalled"
    /\ Return(r, "sent", "release")
    /\ UNCHANGED <<orderVars, mode, target, live, stream, stops>>

(* Fault: the error of the restoration is dropped. *)
RecallFailsSilently(r) ==
    /\ pc[r] \in {"recall", "relp", "recalled"}
    /\ Return(r, "sent", "release")
    /\ UNCHANGED <<orderVars, mode, target, live, stream, stops>>

(* Fault: a restoration CUPS has not taken is tried again until it has. *)
RecallFailsRetrying(r) ==
    /\ \/ pc[r] \in {"recall", "relp"} /\ Goto(r, "recall") /\ UNCHANGED outcome
       \/ pc[r] = "recalled" /\ Return(r, "restore", "release")
    /\ UNCHANGED <<orderVars, mode, target, live, stream, stops>>

(* No temporary file, a refusal, or lp's own timeout before or after CUPS    *)
(* took the job.                                                             *)
RecallFails(r) ==
    /\ pc[r] \in {"recall", "relp", "recalled"}
    /\ Return(r, "restore", "release")
    /\ UNCHANGED <<orderVars, mode, target, live, stream, stops>>

-----------------------------------------------------------------------------
(* The deferred RUnlock or Unlock, before the handler logs and answers. *)
Release(r) ==
    /\ pc[r] = "release"
    /\ Unlock(r) \/ RUnlock(r)
    /\ Goto(r, "answer")
    /\ UNCHANGED <<mode, target, live, outcome, stream, stops>>

Answer(r) ==
    /\ pc[r] = "answer"
    /\ Goto(r, "done")
    /\ UNCHANGED <<orderVars, mode, target, live, outcome, stream, stops>>

(* The client disconnects, or the 20 s writeBudget runs out. *)
ContextEnds(r) ==
    /\ pc[r] \in InFlight
    /\ live[r]
    /\ live' = [live EXCEPT ![r] = FALSE]
    /\ UNCHANGED <<orderVars, pc, mode, target, outcome, stream, stops>>

(* The process ends: a kill, a crash, or the end of the shutdown grace with  *)
(* handlers still running.  Its lp children go with its process group, its   *)
(* lock and its connections with its memory; what CUPS took stays.           *)
Stop ==
    /\ stops < MaxStops
    /\ stops' = stops + 1
    /\ Reset
    /\ pc' = [r \in Requests |-> IF pc[r] \in InFlight THEN "lost" ELSE pc[r]]
    /\ UNCHANGED <<mode, target, live, outcome, stream>>

(* What the goroutine of r does next: every command it waits for is bounded  *)
(* by a timeout, so it never stays in one of these steps for ever.           *)
HandlerStep(r) ==
    \/ Resolve(r) \/ ResolveFails(r)
    \/ AskShared(r) \/ AskExclusive(r)
    \/ Render(r) \/ RenderFails(r)
    \/ StartLp(r) \/ StartFails(r)
    \/ LpReturns(r) \/ LpRefuses(r) \/ LpIsCut(r)
    \/ StartRecall(r) \/ RecallReturns(r) \/ RecallFails(r)
    \/ Release(r) \/ Answer(r)

Next ==
    \/ \E r \in Requests :
           \/ Arrive(r) \/ HandlerStep(r) \/ Advance(r)
           \/ Accept(r) \/ AcceptRecall(r) \/ ContextEnds(r)
    \/ Stop

Spec == Init /\ [][Next]_vars

(* Advance is strongly fair for the reason given in PrintOrder. *)
Fairness ==
    \A r \in Requests : WF_vars(HandlerStep(r)) /\ SF_vars(Advance(r))

FairSpec == Spec /\ Fairness

-----------------------------------------------------------------------------
Job(r, kind) == [request |-> r, kind |-> kind]

(* where the page of r, as opposed to its restoration, is in the streams *)
PagesOn(q, r) ==
    {i \in DOMAIN stream[q] :
        stream[q][i].request = r /\ stream[q][i].kind # "restore"}

PagePlaces(r) == UNION {{q} \X PagesOn(q, r) : q \in Queues}

IsRestoredAt(q, i) ==
    /\ i + 1 \in DOMAIN stream[q]
    /\ stream[q][i + 1] = Job(stream[q][i].request, "restore")

(* While an inverting document is inside the gate, no lp of any other       *)
(* request is running: nothing can be accepted between its page and its      *)
(* restoration (src/cups.go:178-182).                                        *)
ExclusiveSubmission ==
    \A r, s \in Requests :
        r # s /\ HoldsExclusive(r) => pc[s] \notin LpPhases

(* In the order CUPS prints them, a restoration comes right after the page   *)
(* it restores, on the queue that page went to, whatever failed before.      *)
RestoreFollowsPage ==
    \A q \in Queues : \A i \in DOMAIN stream[q] :
        stream[q][i].kind = "restore" =>
            /\ i > 1
            /\ stream[q][i - 1] = Job(stream[q][i].request, "inverting")

(* A job that lands on settings an inverting page has left behind does so    *)
(* only after that page's request has failed at lp or gone down with the     *)
(* process: never while it may still restore, and never after a 200.         *)
InheritedSettingsAreReported ==
    \A q \in Queues : \A i \in DOMAIN stream[q] :
        LET r == stream[q][i].request IN
        /\ stream[q][i].kind = "inverting"
        /\ i + 1 \in DOMAIN stream[q]
        /\ ~IsRestoredAt(q, i)
        => pc[r] = "lost" \/ outcome[r] \in {"spool", "restore"}

(* A 200 means CUPS took the job, once, on the queue the request resolved    *)
(* to, and restored its settings if it changed them; a request that failed   *)
(* to resolve or to render has left nothing at CUPS.                         *)
AnswersAreTrue ==
    \A r \in Requests :
        pc[r] = "done" =>
            /\ outcome[r] = "sent" =>
                   \E i \in DOMAIN stream[target[r]] :
                       /\ PagePlaces(r) = {<<target[r], i>>}
                       /\ stream[target[r]][i].kind = mode[r]
                       /\ mode[r] = "inverting" => IsRestoredAt(target[r], i)
            /\ outcome[r] \in {"unresolved", "render"} => PagePlaces(r) = {}

(* The agent never retries a submission, not even one whose fate it does     *)
(* not know: a request puts at most one page on paper.                       *)
LandsAtMostOnce ==
    \A r \in Requests : \A p1, p2 \in PagePlaces(r) : p1 = p2

(* Every request that reaches resolution is answered, whatever the queue     *)
(* does, unless the process ends: nobody is parked at the gate for ever.     *)
EveryRequestEnds ==
    \A r \in Requests : (pc[r] = "resolve") ~> (pc[r] \in {"done", "lost"})

(* src/cups.go:338-340, "Once CUPS has accepted the rendered job, restoring  *)
(* shared printer state is required even if the HTTP client disconnects":    *)
(* a request whose inverting page was accepted does not end before it has    *)
(* at least tried to restore.                                                *)
AcceptedPageIsRestored ==
    \A r \in Requests :
        /\ pc[r] = "done"
        /\ mode[r] = "inverting"
        /\ PagePlaces(r) # {}
        => outcome[r] \in {"sent", "restore"}

-----------------------------------------------------------------------------
(* The bracket of PrintPromise is open while an inverting page is at CUPS    *)
(* and its handler is still on the way to the restoration.                   *)
OpenBracket ==
    LET inside == {r \in Requests :
                      /\ mode[r] = "inverting"
                      /\ pc[r] \in {"accepted", "recall", "relp"}}
    IN IF inside = {} THEN NoRequest ELSE CHOOSE r \in inside : TRUE

Told == [r \in Requests |->
            CASE pc[r] = "lost" -> "lost"
              [] pc[r] = "done" /\ outcome[r] = "sent" -> "sent"
              [] pc[r] = "done" /\ outcome[r] # "sent" -> "failed"
              [] OTHER -> "pending"]

Promise == INSTANCE PrintPromise WITH open <- OpenBracket, told <- Told

(* The gate, the processes and the timeouts keep the promise of the routes.  *)
ImplementsPromise == Promise!Spec
=============================================================================
