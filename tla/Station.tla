-------------------------------- MODULE Station --------------------------------
(***************************************************************************)
(* Which printer a job goes to (src/discovery.go, src/health.go,             *)
(* resolveTarget in src/server.go): the queues of the station are            *)
(* enumerated, each is judged from what lpstat prints about it or from the   *)
(* cached verdict, and the job goes to the pinned printer or, said in the    *)
(* log, to the first usable one, USB before network.                         *)
(*                                                                         *)
(* A device is what a device URI names; its uid is the device when the URI   *)
(* has a serial number and the queue's name otherwise.  While a request is   *)
(* on its way the operator renames queues, points a name at another device   *)
(* and disables queues, at most MaxChanges times, between the two commands   *)
(* of a verdict too.  The age of a verdict is VerdictCache's subject; here   *)
(* it is forgotten at any moment after it was taken.                         *)
(***************************************************************************)
EXTENDS Integers, SequencesExt

CONSTANTS Requests,
          Names,       \* queue names, in the order lpstat lists them
          Devices,     \* device URIs
          Usb,         \* those with the usb scheme
          Serial,      \* those that carry serial=
          None,
          MaxChanges

NameSet == ToSet(Names)

ASSUME StationAssumption ==
    /\ Names \in Seq(NameSet) /\ IsInjective(Names)
    /\ Usb \subseteq Devices /\ Serial \subseteq Devices
    /\ NameSet \cap Devices = {} /\ None \notin NameSet \cup Devices
    /\ MaxChanges \in Nat

VARIABLES queue,    \* per name, the device CUPS has it for, or None
          state,    \* per name, the state of the queue
          verdict,  \* per name, the cached verdict: "none", "yes" or "no"
          pin,      \* what the web page keeps: [uid, device it was read from]
          changes,
          pc,       \* per request: "idle", "judge", "submit", "sent", "failed"
          wants,    \* the pin it names
          found,    \* the queues it discovered
          probe,    \* per name, how far the commands of its verdict are
          judged,   \* names it has judged so far
          good,     \* and found usable
          target,   \* the queue it chose
          said,     \* was a fallback line logged?
          landed    \* the device CUPS took the job for

cups == <<queue, state, changes>>
choice == <<target, said, landed>>
vars == <<queue, state, changes, verdict, pin, pc, wants, found, probe, judged, good,
          target, said, landed>>

States == {"ready", "offline", "disabled", "rejecting"}
Probes == {"none", "online", "well", "ill", "silent"}
NoPin == [uid |-> None, device |-> None]
Pins == [uid : NameSet \cup Devices \cup {None}, device : Devices \cup {None}]

-----------------------------------------------------------------------------
(* What lpstat -l -p and lpstat -a print about each queue: a line that names *)
(* it, and under it lines that name none.                                    *)
Status == [name \in NameSet |->
    << [queue |-> name,
        says |-> IF state[name] = "disabled" THEN "disabled" ELSE "enabled"] >>
    \o IF state[name] = "offline" THEN << [queue |-> None, says |-> "offline"] >> ELSE <<>>]

Accepts == [name \in NameSet |->
    << [queue |-> name,
        says |-> IF state[name] = "rejecting" THEN "not accepting" ELSE "accepting"] >>]

(* The answer about one queue, which may come among others. *)
Answers(lines, name) ==
    {lines[name]} \cup {lines[other] \o lines[name] : other \in NameSet \ {name}}
                  \cup {lines[name] \o lines[other] : other \in NameSet \ {name}}

(* Fault: the first line counts, whichever queue it names. *)
FirstLineSays(report, name, word) == report # <<>> /\ report[1].says = word

FirstSays(report, name, word) ==
    \E i \in DOMAIN report :
        /\ report[i] = [queue |-> name, says |-> word]
        /\ \A j \in 1 .. i - 1 : report[j].queue # name

(* parseQueueEnabled, parseQueueAccepting *)
Enabled(report, name) == FirstSays(report, name, "enabled")
Accepting(report, name) == FirstSays(report, name, "accepting")

(* parseQueueOffline: a status line under the queue's own *)
Offline(report, name) ==
    \E i, j \in DOMAIN report :
        /\ i < j /\ report[i].queue = name
        /\ \A k \in i + 1 .. j : report[k].queue = None
        /\ report[j].says = "offline"

Online(report, name) == Enabled(report, name) /\ ~Offline(report, name)

-----------------------------------------------------------------------------
(* Fault: the uid is the queue's name, whatever the URI. *)
NameAsUID(name, device) == name

StableUID(name, device) == IF device \in Serial THEN device ELSE name

Position(name) == CHOOSE i \in DOMAIN Names : Names[i] = name

(* Fault: CUPS's order. *)
ListedBefore(queues, m, n) == Position(m) < Position(n)

(* discoverPrinters: USB first, each tier in CUPS's order *)
Precedes(queues, m, n) ==
    IF queues[m] \in Usb <=> queues[n] \in Usb THEN Position(m) < Position(n)
                                               ELSE queues[m] \in Usb

(* the first of some printers, in that order, which healthyPrinters keeps *)
Foremost(queues, printers, name) ==
    name \in printers /\ \A other \in printers \ {name} : Precedes(queues, name, other)

(* matchPrinter: by uid, then by name *)
Matches(queues, printers, requested) ==
    LET same == {n \in printers : StableUID(n, queues[n]) = requested}
    IN IF same # {} THEN same ELSE printers \cap {requested}

-----------------------------------------------------------------------------
TypeOK ==
    /\ queue \in [NameSet -> Devices \cup {None}]
    /\ state \in [NameSet -> States]
    /\ verdict \in [NameSet -> {"none", "yes", "no"}]
    /\ pin \in Pins
    /\ changes \in 0..MaxChanges
    /\ pc \in [Requests -> {"idle", "judge", "submit", "sent", "failed"}]
    /\ wants \in [Requests -> Pins]
    /\ found \in [Requests -> [NameSet -> Devices \cup {None}]]
    /\ probe \in [Requests -> [NameSet -> Probes]]
    /\ judged \in [Requests -> SUBSET NameSet]
    /\ good \in [Requests -> SUBSET NameSet]
    /\ \A r \in Requests : good[r] \subseteq judged[r]
    /\ target \in [Requests -> NameSet \cup {None}]
    /\ said \in [Requests -> BOOLEAN]
    /\ landed \in [Requests -> Devices \cup {None}]

NoQueues == [n \in NameSet |-> None]

Init ==
    /\ queue \in [NameSet -> Devices \cup {None}]
    /\ state = [n \in NameSet |-> "ready"]
    /\ verdict = [n \in NameSet |-> "none"]
    /\ pin = NoPin
    /\ changes = 0
    /\ pc = [r \in Requests |-> "idle"]
    /\ wants = [r \in Requests |-> NoPin]
    /\ found = [r \in Requests |-> NoQueues]
    /\ probe = [r \in Requests |-> [n \in NameSet |-> "none"]]
    /\ judged = [r \in Requests |-> {}]
    /\ good = [r \in Requests |-> {}]
    /\ target = [r \in Requests |-> None]
    /\ said = [r \in Requests |-> FALSE]
    /\ landed = [r \in Requests |-> None]

(* lpstat -v: the exit code decides nothing, so a listing that breaks off is *)
(* a listing.                                                                *)
Listing(length) ==
    [n \in NameSet |-> IF n \in ToSet(SubSeq(Names, 1, length)) THEN queue[n] ELSE None]

(* discoverPrinters for a page that names the pinned printer, or none *)
Discover(r) ==
    /\ pc[r] = "idle"
    /\ \E wanted \in {pin, NoPin} : wants' = [wants EXCEPT ![r] = wanted]
    /\ \E length \in 0 .. Len(Names) : found' = [found EXCEPT ![r] = Listing(length)]
    /\ judged' = [judged EXCEPT ![r] = {}]
    /\ good' = [good EXCEPT ![r] = {}]
    /\ pc' = [pc EXCEPT ![r] = "judge"]
    /\ UNCHANGED <<cups, verdict, pin, probe, choice>>

(* lpstat does not answer in time: no printer, and the answer says so *)
DiscoverFails(r) ==
    /\ pc[r] = "idle"
    /\ pc' = [pc EXCEPT ![r] = "failed"]
    /\ UNCHANGED <<cups, verdict, pin, wants, found, probe, judged, good, choice>>

(* healthy, for each queue in a goroutine of its own: the cached verdict, *)
ToJudge(r, name) ==
    pc[r] = "judge" /\ found[r][name] # None /\ name \notin judged[r]

Judged(r, name, usable) ==
    /\ judged' = [judged EXCEPT ![r] = @ \cup {name}]
    /\ good' = [good EXCEPT ![r] = IF usable THEN @ \cup {name} ELSE @]
    /\ UNCHANGED <<cups, pin, pc, wants, found, choice>>

UseVerdict(r, name) ==
    /\ ToJudge(r, name) /\ probe[r][name] = "none"
    /\ verdict[name] # "none"
    /\ Judged(r, name, verdict[name] = "yes")
    /\ UNCHANGED <<verdict, probe>>

Asked(r, name, answer) ==
    /\ probe' = [probe EXCEPT ![r][name] = answer]
    /\ UNCHANGED <<cups, verdict, pin, pc, wants, found, judged, good, choice>>

(* or queueOnline and then, of a queue that is, queueAccepting, each of      *)
(* which may get no answer in time,                                          *)
AskOnline(r, name) ==
    /\ ToJudge(r, name) /\ probe[r][name] = "none"
    /\ verdict[name] = "none"
    /\ \/ /\ queue[name] # None
          /\ \E status \in Answers(Status, name) :
                 Asked(r, name, IF Online(status, name) THEN "online" ELSE "ill")
       \/ Asked(r, name, "silent")

AskAccepting(r, name) ==
    /\ probe[r][name] = "online"
    /\ \/ /\ queue[name] # None
          /\ \E accepts \in Answers(Accepts, name) :
                 Asked(r, name, IF Accepting(accepts, name) THEN "well" ELSE "ill")
       \/ Asked(r, name, "silent")

(* and the verdict, whatever another request stored meanwhile.               *)
Store(r, name) ==
    /\ probe[r][name] \in {"well", "ill", "silent"}
    /\ verdict' = [verdict EXCEPT ![name] = IF probe[r][name] = "well" THEN "yes" ELSE "no"]
    /\ probe' = [probe EXCEPT ![r][name] = "none"]
    /\ Judged(r, name, probe[r][name] = "well")

AllJudged(r) == pc[r] = "judge" /\ \A n \in NameSet : found[r][n] # None => n \in judged[r]

(* handleAvailable, handleDefault: the page pins a printer it was shown *)
List(r) ==
    /\ AllJudged(r)
    /\ pc' = [pc EXCEPT ![r] = "idle"]
    /\ \/ \E name \in good[r] :
              pin' = [uid |-> StableUID(name, found[r][name]), device |-> found[r][name]]
       \/ UNCHANGED pin
    /\ UNCHANGED <<cups, verdict, wants, found, probe, judged, good, choice>>

Take(r, name, fallback) ==
    /\ pc' = [pc EXCEPT ![r] = "submit"]
    /\ target' = [target EXCEPT ![r] = name]
    /\ said' = [said EXCEPT ![r] = fallback]

(* Fault: the pinned queue is looked up first and judged afterwards. *)
ChooseFirstMatch(r) ==
    LET hits == Matches(found[r], {n \in NameSet : found[r][n] # None}, wants[r].uid)
        pinned == {n \in good[r] : Foremost(found[r], hits, n)}
    IN /\ AllJudged(r)
       /\ \E name \in good[r] :
              IF pinned # {} THEN name \in pinned /\ Take(r, name, FALSE)
              ELSE Foremost(found[r], good[r], name) /\ Take(r, name, wants[r] # NoPin)
       /\ UNCHANGED <<cups, verdict, pin, wants, found, probe, judged, good, landed>>

(* resolveTarget: the pinned printer if it is usable, or else the first one *)
Choose(r) ==
    LET hits == Matches(found[r], good[r], wants[r].uid)
    IN /\ AllJudged(r)
       /\ \E name \in good[r] :
              \/ Foremost(found[r], hits, name) /\ Take(r, name, FALSE)
              \/ /\ hits = {}
                 /\ Foremost(found[r], good[r], name)
                 /\ Take(r, name, wants[r] # NoPin)
       /\ UNCHANGED <<cups, verdict, pin, wants, found, probe, judged, good, landed>>

NoneUsable(r) ==
    /\ AllJudged(r)
    /\ good[r] = {}
    /\ pc' = [pc EXCEPT ![r] = "failed"]
    /\ UNCHANGED <<cups, verdict, pin, wants, found, probe, judged, good, choice>>

(* lp -d: CUPS takes the job for whatever the name stands for by now,        *)
(* whether or not it can print, unless the queue is gone or rejects it.      *)
Submit(r) ==
    LET name == target[r]
        accepted == queue[name] # None /\ state[name] # "rejecting"
    IN /\ pc[r] = "submit"
       /\ landed' = [landed EXCEPT ![r] = IF accepted THEN queue[name] ELSE None]
       /\ pc' = [pc EXCEPT ![r] = IF accepted THEN "sent" ELSE "failed"]
       /\ UNCHANGED <<cups, verdict, pin, wants, found, probe, judged, good, target, said>>

(* the answer, after which the request leaves nothing behind *)
Leave(r) ==
    /\ pc[r] \in {"sent", "failed"}
    /\ pc' = [pc EXCEPT ![r] = "idle"]
    /\ wants' = [wants EXCEPT ![r] = NoPin]
    /\ found' = [found EXCEPT ![r] = NoQueues]
    /\ judged' = [judged EXCEPT ![r] = {}]
    /\ good' = [good EXCEPT ![r] = {}]
    /\ target' = [target EXCEPT ![r] = None]
    /\ said' = [said EXCEPT ![r] = FALSE]
    /\ landed' = [landed EXCEPT ![r] = None]
    /\ UNCHANGED <<cups, verdict, pin, probe>>

-----------------------------------------------------------------------------
Expire(name) ==
    /\ verdict[name] # "none"
    /\ verdict' = [verdict EXCEPT ![name] = "none"]
    /\ UNCHANGED <<cups, pin, pc, wants, found, probe, judged, good, choice>>

Changing ==
    /\ changes < MaxChanges
    /\ changes' = changes + 1
    /\ UNCHANGED <<verdict, pin, pc, wants, found, probe, judged, good, choice>>

(* A queue is added, deleted, or made again for another device; *)
Repoint(name) ==
    /\ Changing
    /\ \E device \in (Devices \cup {None}) \ {queue[name]} :
           queue' = [queue EXCEPT ![name] = device]
    /\ state' = [state EXCEPT ![name] = "ready"]

(* a printer gets another queue name; *)
Rename(old, new) ==
    /\ Changing
    /\ queue[old] # None
    /\ queue' = [queue EXCEPT ![new] = queue[old], ![old] = None]
    /\ state' = [state EXCEPT ![new] = state[old]]

(* a queue is disabled, rejects jobs, loses its printer, or is well again. *)
Flip(name) ==
    /\ Changing
    /\ \E s \in States \ {state[name]} : state' = [state EXCEPT ![name] = s]
    /\ UNCHANGED queue

Next ==
    \/ \E r \in Requests :
           \/ Discover(r) \/ DiscoverFails(r) \/ List(r) \/ Choose(r) \/ NoneUsable(r)
           \/ Submit(r) \/ Leave(r)
           \/ \E name \in NameSet :
                  \/ UseVerdict(r, name) \/ AskOnline(r, name) \/ AskAccepting(r, name)
                  \/ Store(r, name)
    \/ \E name \in NameSet : Expire(name) \/ Repoint(name) \/ Flip(name)
    \/ \E old, new \in NameSet : old # new /\ Rename(old, new)

Spec == Init /\ [][Next]_vars

-----------------------------------------------------------------------------
(* "A URI carrying serial= identifies the physical unit"                     *)
(* (src/discovery.go:95-104): across renames, queues made again under an old *)
(* name and other queues for the same printer, a page pinned to such a unit  *)
(* comes out of it, unless a fallback line says otherwise or the queue was   *)
(* changed under the request.                                                *)
ReachesPinned ==
    \A r \in Requests :
        /\ landed[r] # None /\ landed[r] = found[r][target[r]]
        /\ wants[r].device \in Serial
        /\ ~said[r]
        => landed[r] = wants[r].device

(* A page does not leave the pinned printer without need: when the fallback  *)
(* is taken, no queue of that printer was found usable                       *)
(* (src/server.go:385-393).                                                  *)
FallbackOnlyIfNeeded ==
    \A r \in Requests :
        said[r] => \A n \in good[r] : StableUID(n, found[r][n]) # wants[r].uid

(* "USB before network": a job nobody pinned, or one that falls back, leaves *)
(* for a network queue only when no USB queue was usable.                    *)
UsbFirst ==
    \A r \in Requests :
        /\ target[r] # None /\ found[r][target[r]] \notin Usb
        /\ wants[r] = NoPin \/ said[r]
        => \A n \in good[r] : found[r][n] \notin Usb

(* Whatever lpstat prints around a queue's own lines, an answered command is *)
(* read as what that queue is at that command's moment, no better and no     *)
(* worse: enabled and online at the first, accepting at the second, with     *)
(* whatever became of the queue between them.  Only when both say so does    *)
(* the cache take up that it can print (src/cups.go:388-455).                *)
CommandsReadTheQueue ==
    [][\A n \in NameSet :
           /\ \A r \in Requests :
                  /\ probe[r][n] = "none" /\ probe'[r][n] \in {"online", "ill"} =>
                        /\ queue[n] # None
                        /\ probe'[r][n] = "online" <=> state[n] \notin {"disabled", "offline"}
                  /\ probe[r][n] = "online" /\ probe'[r][n] \in {"well", "ill"} =>
                        /\ queue[n] # None
                        /\ probe'[r][n] = "well" <=> state[n] # "rejecting"
           /\ verdict[n] # "yes" /\ verdict'[n] = "yes" =>
                  \E r \in Requests : probe[r][n] = "well"]_vars
=============================================================================
