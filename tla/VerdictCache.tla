----------------------------- MODULE VerdictCache -----------------------------
(***************************************************************************)
(* healthChecker.healthy and driverChecker.inverting (src/health.go): a      *)
(* verdict about one queue, read out of CUPS by one or two commands and      *)
(* cached.  The two checkers have the same shape and differ in what they     *)
(* probe (Facets) and how long they remember it (TTL).  Entries of different *)
(* queues do not influence each other, so one queue is modelled.             *)
(*                                                                         *)
(* The mutex guards the map and nothing more: between a lookup that misses   *)
(* and the store of what was probed any number of other callers look up,     *)
(* probe and store.  The entry is stamped when it is STORED.                 *)
(*                                                                         *)
(* Time advances in ticks.  The model keeps ages instead of instants, and    *)
(* an age stops at Horizon.  Only probes take time: the rest of a call is    *)
(* done between two ticks.                                                  *)
(***************************************************************************)
EXTENDS Naturals, Sequences

CONSTANTS Callers,     \* concurrent requests asking about the queue
          Facets,      \* what is probed, one command each, in order
          TTL,         \* healthCacheTTL or driverCacheTTL
          ProbeLimit,  \* cupsCommandTimeout
          Horizon      \* bound on the ages that are told apart

N == Len(Facets)

ASSUME FacetsAssumption == Facets \in Seq(STRING) /\ N > 0
ASSUME TimesAssumption ==
    TTL \in Nat \ {0} /\ ProbeLimit \in Nat /\ Horizon \in Nat

(* Ages below the horizon must tell every bound of this module apart. *)
ASSUME HorizonAssumption == TTL + N * ProbeLimit < Horizon

VARIABLES truth,      \* per facet, does CUPS hold it true at this moment?
          sinceTrue,  \* per facet, how long ago it last was true
          sinceBad,   \* how long ago some facet was false or a probe failed
          entry,      \* the cached verdict: "none", "yes" or "no"
          age,        \* how long ago the entry was stored
          pc,         \* what each caller is doing
          step,       \* which facet it is probing
          elapsed,    \* how long its command has been running
          seen        \* what the command read, later the verdict returned

vars == <<truth, sinceTrue, sinceBad, entry, age, pc, step, elapsed, seen>>

FacetSet == {Facets[i] : i \in 1..N}
Ages == 0..Horizon

(* "probing": the command runs and has not yet read CUPS's answer; "read":   *)
(* it has, and has not yet exited.                                           *)
Phases == {"idle", "probing", "read", "answered"}

TypeOK ==
    /\ truth \in [FacetSet -> BOOLEAN]
    /\ sinceTrue \in [FacetSet -> Ages]
    /\ sinceBad \in Ages
    /\ entry \in {"none", "yes", "no"}
    /\ age \in Ages
    /\ pc \in [Callers -> Phases]
    /\ step \in [Callers -> 1..N]
    /\ elapsed \in [Callers -> 0..ProbeLimit]
    /\ seen \in [Callers -> BOOLEAN]

AllTrue == \A f \in FacetSet : truth[f]

Init ==
    /\ truth \in [FacetSet -> BOOLEAN]
    /\ sinceTrue = [f \in FacetSet |-> IF truth[f] THEN 0 ELSE Horizon]
    /\ sinceBad = IF AllTrue THEN Horizon ELSE 0
    /\ entry = "none"
    /\ age = Horizon
    /\ pc = [c \in Callers |-> "idle"]
    /\ step = [c \in Callers |-> 1]
    /\ elapsed = [c \in Callers |-> 0]
    /\ seen = [c \in Callers |-> FALSE]

-----------------------------------------------------------------------------
(* Fault: a negative verdict is kept until the next positive one. *)
FreshForEverIfNo == entry = "no" \/ (entry = "yes" /\ age < TTL)

Fresh == entry # "none" /\ age < TTL

(* Fault: every use of a verdict prolongs it. *)
HitProlongs(c) ==
    /\ pc[c] = "idle"
    /\ Fresh
    /\ pc' = [pc EXCEPT ![c] = "answered"]
    /\ seen' = [seen EXCEPT ![c] = entry = "yes"]
    /\ age' = 0
    /\ UNCHANGED <<truth, sinceTrue, sinceBad, entry, step, elapsed>>

Hit(c) ==
    /\ pc[c] = "idle"
    /\ Fresh
    /\ pc' = [pc EXCEPT ![c] = "answered"]
    /\ seen' = [seen EXCEPT ![c] = entry = "yes"]
    /\ UNCHANGED <<truth, sinceTrue, sinceBad, entry, age, step, elapsed>>

Miss(c) ==
    /\ pc[c] = "idle"
    /\ ~Fresh
    /\ pc' = [pc EXCEPT ![c] = "probing"]
    /\ step' = [step EXCEPT ![c] = 1]
    /\ elapsed' = [elapsed EXCEPT ![c] = 0]
    /\ UNCHANGED <<truth, sinceTrue, sinceBad, entry, age, seen>>

(* lpstat -l -p, lpstat -a or lpoptions -p reads the state of the queue *)
Read(c) ==
    /\ pc[c] = "probing"
    /\ seen' = [seen EXCEPT ![c] = truth[Facets[step[c]]]]
    /\ pc' = [pc EXCEPT ![c] = "read"]
    /\ UNCHANGED <<truth, sinceTrue, sinceBad, entry, age, step, elapsed>>

Store(c, verdict) ==
    /\ entry' = IF verdict THEN "yes" ELSE "no"
    /\ age' = 0
    /\ seen' = [seen EXCEPT ![c] = verdict]
    /\ pc' = [pc EXCEPT ![c] = "answered"]
    /\ UNCHANGED <<truth, sinceTrue, step, elapsed>>

(* A positive answer leads to the next command, if there is one. *)
ProbeNext(c) ==
    /\ pc[c] = "read"
    /\ seen[c]
    /\ step[c] < N
    /\ step' = [step EXCEPT ![c] = @ + 1]
    /\ elapsed' = [elapsed EXCEPT ![c] = 0]
    /\ pc' = [pc EXCEPT ![c] = "probing"]
    /\ UNCHANGED <<truth, sinceTrue, sinceBad, entry, age, seen>>

ProbeEnds(c) ==
    /\ pc[c] = "read"
    /\ ~seen[c] \/ step[c] = N
    /\ Store(c, seen[c])
    /\ UNCHANGED sinceBad

(* The command is missing, its timeout fires, or this caller's own context   *)
(* ends: no longer than the timeout, and a negative verdict for everybody.   *)
ProbeFails(c) ==
    /\ pc[c] \in {"probing", "read"}
    /\ Store(c, FALSE)
    /\ sinceBad' = 0

Leave(c) ==
    /\ pc[c] = "answered"
    /\ pc' = [pc EXCEPT ![c] = "idle"]
    /\ UNCHANGED <<truth, sinceTrue, sinceBad, entry, age, step, elapsed, seen>>

-----------------------------------------------------------------------------
(* The queue is disabled, unplugged, rejected, or comes back; for a driver,  *)
(* the printer is reinstalled.                                               *)
Flip(f) ==
    /\ truth' = [truth EXCEPT ![f] = ~@]
    /\ sinceTrue' = [sinceTrue EXCEPT ![f] = 0]
    /\ sinceBad' = 0
    /\ UNCHANGED <<entry, age, pc, step, elapsed, seen>>

Older(a) == IF a < Horizon THEN a + 1 ELSE a

Running(c) == pc[c] \in {"probing", "read"}

Tick ==
    /\ \A c \in Callers :
           pc[c] # "answered" /\ (Running(c) => elapsed[c] < ProbeLimit)
    /\ sinceTrue' = [f \in FacetSet |->
                        IF truth[f] THEN 0 ELSE Older(sinceTrue[f])]
    /\ sinceBad' = IF AllTrue THEN Older(sinceBad) ELSE 0
    /\ age' = Older(age)
    /\ elapsed' = [c \in Callers |->
                      IF Running(c) THEN elapsed[c] + 1 ELSE elapsed[c]]
    /\ UNCHANGED <<truth, entry, pc, step, seen>>

Next ==
    \/ \E c \in Callers : \/ Hit(c) \/ Miss(c) \/ Read(c)
                          \/ ProbeNext(c) \/ ProbeEnds(c) \/ ProbeFails(c)
                          \/ Leave(c)
    \/ \E f \in FacetSet : Flip(f)
    \/ Tick

Spec == Init /\ [][Next]_vars

-----------------------------------------------------------------------------
(* A positive verdict, cached or probed, with any number of callers probing  *)
(* and storing over one another: each facet was true at most one TTL plus    *)
(* the commands from its own on before the answer.  A queue that has been    *)
(* dead for longer than that is never offered (src/health.go:64-84).         *)
PositiveIsRecent ==
    \A c \in Callers :
        pc[c] = "answered" /\ seen[c] =>
            \A i \in 1..N :
                sinceTrue[Facets[i]] < TTL + (N - i + 1) * ProbeLimit

(* A negative verdict has a cause no older than one TTL plus the commands: a *)
(* facet that was false, or a probe that failed, of whichever caller.  What  *)
(* one caller's cancelled probe poisons heals after the TTL.                 *)
NegativeHasCause ==
    \A c \in Callers :
        pc[c] = "answered" /\ ~seen[c] => sinceBad < TTL + N * ProbeLimit
=============================================================================
