----------------------------- MODULE StationProofs -----------------------------
(***************************************************************************)
(* Proofs about Station, for any station, any number of requests under way  *)
(* at once and any number of changes of the station meanwhile.              *)
(*                                                                         *)
(* RequestInv is what a request carries from one step to the next: the pin   *)
(* of a unit with a serial number is that unit, a queue found usable is one  *)
(* that was discovered, and what the choice established of the target holds  *)
(* until the request is answered, since nothing a request has found out is   *)
(* changed by another request, by the station, or by a later verdict.        *)
(***************************************************************************)
EXTENDS Station, SequenceTheorems, TLAPS

(* a pin read from a device with a serial number names that device *)
PinHolds(p) == p.device \in Serial => p.uid = p.device

Chosen(r) ==
    /\ target[r] \in good[r]
    /\ said[r] => \A n \in good[r] : StableUID(n, found[r][n]) # wants[r].uid
    /\ ~said[r] /\ wants[r].device \in Serial => found[r][target[r]] = wants[r].device
    /\ found[r][target[r]] \notin Usb /\ (wants[r] = NoPin \/ said[r])
           => \A n \in good[r] : found[r][n] \notin Usb

RequestInv(r) ==
    /\ PinHolds(wants[r])
    /\ \A n \in good[r] : found[r][n] # None
    /\ \A n \in NameSet : probe[r][n] # "none" => ToJudge(r, n)
    /\ pc[r] \in {"idle", "judge"} => target[r] = None
    /\ pc[r] \in {"submit", "sent"} => target[r] # None
    /\ IF target[r] = None THEN ~said[r] /\ landed[r] = None ELSE Chosen(r)

StationInv ==
    /\ TypeOK
    /\ PinHolds(pin)
    /\ \A r \in Requests : RequestInv(r)

-----------------------------------------------------------------------------
(* A request that a step leaves alone. *)
Untouched(q) ==
    /\ pc'[q] = pc[q] /\ wants'[q] = wants[q] /\ found'[q] = found[q]
    /\ probe'[q] = probe[q] /\ judged'[q] = judged[q]
    /\ good'[q] = good[q] /\ target'[q] = target[q]
    /\ said'[q] = said[q] /\ landed'[q] = landed[q]

LEMMA UntouchedKeeps ==
    ASSUME NEW q \in Requests, RequestInv(q), Untouched(q)
    PROVE  RequestInv(q)'
  BY DEF RequestInv, Chosen, Untouched, ToJudge

(* No command runs for a request that judges nothing, or has judged it all.  *)
LEMMA NoCommands ==
    ASSUME NEW r \in Requests, RequestInv(r), AllJudged(r) \/ pc[r] # "judge"
    PROVE  \A n \in NameSet : probe[r][n] = "none"
  BY DEF RequestInv, ToJudge, AllJudged

(* A step of one request is that request's business only.                    *)
LEMMA OneRequest ==
    ASSUME StationInv, NEW r \in Requests, TypeOK', PinHolds(pin)', RequestInv(r)',
           \A q \in Requests \ {r} : Untouched(q)
    PROVE  StationInv'
  BY UntouchedKeeps DEF StationInv

(* What lpstat -v lists, and what is pinned of it.                           *)
LEMMA ListingTyped ==
    ASSUME TypeOK, NEW length
    PROVE  Listing(length) \in [NameSet -> Devices \cup {None}]
  BY DEF Listing, TypeOK

LEMMA PinTyped ==
    ASSUME NEW name \in NameSet, NEW device \in Devices
    PROVE  [uid |-> StableUID(name, device), device |-> device] \in Pins
  BY DEF StableUID, Pins

LEMMA NoPinTyped == NoPin \in Pins /\ PinHolds(NoPin)
  BY StationAssumption DEF NoPin, Pins, PinHolds

(* It holds at first.                                                        *)
LEMMA StationInit == Init => StationInv
  <1> SUFFICES ASSUME Init PROVE StationInv
    OBVIOUS
  <1> USE StationAssumption DEF Init
  <1>1. TypeOK
    BY NoPinTyped DEF TypeOK, States, Probes, NoQueues
  <1>2. \A r \in Requests : RequestInv(r)
    BY NoPinTyped DEF RequestInv
  <1>3. QED
    BY <1>1, <1>2, NoPinTyped DEF StationInv

(* A round begins with nothing judged.                                       *)
LEMMA DiscoverStep ==
    ASSUME StationInv, NEW r \in Requests, Discover(r)
    PROVE  StationInv'
  <1> USE DEF StationInv
  <1>1. PICK wanted \in {pin, NoPin}, length \in 0 .. Len(Names) :
            wants' = [wants EXCEPT ![r] = wanted] /\ found' = [found EXCEPT ![r] = Listing(length)]
    BY DEF Discover
  <1>2. /\ pc[r] = "idle" /\ pc' = [pc EXCEPT ![r] = "judge"]
        /\ judged' = [judged EXCEPT ![r] = {}] /\ good' = [good EXCEPT ![r] = {}]
        /\ UNCHANGED <<cups, verdict, pin, probe, choice>>
    BY DEF Discover
  <1>3. wanted \in Pins /\ PinHolds(wanted)
    BY NoPinTyped DEF TypeOK
  <1>4. TypeOK'
    BY <1>1, <1>2, <1>3, ListingTyped DEF TypeOK, cups, choice
  <1>5. RequestInv(r)'
    BY <1>1, <1>2, <1>3 DEF TypeOK, RequestInv, ToJudge, choice
  <1>6. PinHolds(pin)' /\ \A q \in Requests \ {r} : Untouched(q)
    BY <1>1, <1>2 DEF TypeOK, PinHolds, Untouched, choice
  <1>7. QED
    BY <1>4, <1>5, <1>6, OneRequest

(* Commands run for a queue that is yet to be judged.                         *)
LEMMA AskStep ==
    ASSUME StationInv, NEW r \in Requests, NEW name \in NameSet,
           AskOnline(r, name) \/ AskAccepting(r, name)
    PROVE  StationInv'
  <1> USE DEF StationInv
  <1>1. PICK answer \in Probes : Asked(r, name, answer)
    BY DEF AskOnline, AskAccepting, Probes
  <1>2. ToJudge(r, name)
    BY DEF AskOnline, AskAccepting, RequestInv
  <1>3. /\ UNCHANGED <<cups, verdict, pin, pc, wants, found, judged, good, choice>>
        /\ probe' = [probe EXCEPT ![r][name] = answer]
    BY <1>1 DEF Asked
  <1>4. /\ probe' \in [Requests -> [NameSet -> Probes]]
        /\ \A n \in NameSet \ {name} : probe'[r][n] = probe[r][n]
        /\ \A q \in Requests \ {r} : probe'[q] = probe[q]
    BY <1>3 DEF TypeOK
  <1>5. TypeOK'
    BY <1>3, <1>4 DEF TypeOK, cups, choice
  <1>6. RequestInv(r)'
    <2>1. \A n \in NameSet : probe'[r][n] # "none" => ToJudge(r, n)'
      BY <1>2, <1>3, <1>4 DEF RequestInv, ToJudge
    <2>2. QED
      BY <1>3, <2>1 DEF RequestInv, Chosen, choice
  <1>7. PinHolds(pin)' /\ \A q \in Requests \ {r} : Untouched(q)
    BY <1>3, <1>4 DEF PinHolds, Untouched, choice
  <1>8. QED
    BY <1>5, <1>6, <1>7, OneRequest

(* Only a queue that was discovered is found usable.                         *)
LEMMA JudgeStep ==
    ASSUME StationInv, NEW r \in Requests, NEW name \in NameSet,
           UseVerdict(r, name) \/ Store(r, name)
    PROVE  StationInv'
  <1> USE DEF StationInv
  <1>1. PICK usable \in BOOLEAN : Judged(r, name, usable)
    BY DEF UseVerdict, Store
  <1>2. ToJudge(r, name)
    BY DEF UseVerdict, Store, RequestInv
  <1>3. /\ verdict' \in [NameSet -> {"none", "yes", "no"}]
        /\ probe' \in [Requests -> [NameSet -> Probes]]
        /\ probe'[r][name] = "none"
        /\ \A n \in NameSet \ {name} : probe'[r][n] = probe[r][n]
        /\ \A q \in Requests \ {r} : probe'[q] = probe[q]
    <2>1. CASE UseVerdict(r, name)
      BY <2>1 DEF UseVerdict, TypeOK
    <2>2. CASE Store(r, name)
      BY <2>2 DEF Store, TypeOK, Probes
    <2>3. QED
      BY <2>1, <2>2
  <1>4. /\ judged' \in [Requests -> SUBSET NameSet]
        /\ good' \in [Requests -> SUBSET NameSet]
        /\ good'[r] \in {good[r], good[r] \cup {name}} /\ judged'[r] = judged[r] \cup {name}
        /\ \A q \in Requests \ {r} : good'[q] = good[q] /\ judged'[q] = judged[q]
        /\ UNCHANGED <<cups, pin, pc, wants, found, choice>>
    <2>1. PICK g \in {good[r], good[r] \cup {name}} : good' = [good EXCEPT ![r] = g]
      BY <1>1 DEF Judged
    <2>2. judged' = [judged EXCEPT ![r] = judged[r] \cup {name}]
      BY <1>1 DEF Judged
    <2>3. QED
      BY <1>1, <2>1, <2>2 DEF Judged, TypeOK
  <1>5. TypeOK'
    BY <1>3, <1>4 DEF TypeOK, cups, choice
  <1>6. RequestInv(r)'
    <2>1. \A n \in NameSet : probe'[r][n] # "none" => ToJudge(r, n)'
      BY <1>3, <1>4 DEF RequestInv, ToJudge
    <2>2. \A n \in good'[r] : found'[r][n] # None
      BY <1>2, <1>4 DEF RequestInv, ToJudge
    <2>3. target[r] = None /\ ~said[r] /\ landed[r] = None
      BY <1>2 DEF RequestInv, ToJudge
    <2>4. QED
      BY <1>2, <1>4, <2>1, <2>2, <2>3 DEF RequestInv, ToJudge, choice
  <1>7. PinHolds(pin)' /\ \A q \in Requests \ {r} : Untouched(q)
    BY <1>3, <1>4 DEF PinHolds, Untouched, choice
  <1>8. QED
    BY <1>5, <1>6, <1>7, OneRequest

(* The page pins what it was shown.                                          *)
LEMMA ListStep ==
    ASSUME StationInv, NEW r \in Requests, List(r)
    PROVE  StationInv'
  <1> USE StationAssumption DEF StationInv
  <1>1. /\ pc[r] = "judge" /\ pc' = [pc EXCEPT ![r] = "idle"]
        /\ UNCHANGED <<cups, verdict, wants, found, probe, judged, good, choice>>
    BY DEF List, AllJudged
  <1>2. pin' \in Pins /\ PinHolds(pin')
    <2>1. CASE UNCHANGED pin
      BY <2>1 DEF TypeOK
    <2>2. CASE \E name \in good[r] :
              pin' = [uid |-> StableUID(name, found[r][name]), device |-> found[r][name]]
      <3>1. PICK name \in good[r] :
                pin' = [uid |-> StableUID(name, found[r][name]), device |-> found[r][name]]
        BY <2>2
      <3>2. name \in NameSet /\ found[r][name] \in Devices
        BY DEF TypeOK, RequestInv
      <3>3. QED
        BY <3>1, <3>2, PinTyped DEF PinHolds, StableUID
    <2>3. QED
      BY <2>1, <2>2 DEF List
  <1>3. TypeOK'
    BY <1>1, <1>2 DEF TypeOK, cups, choice
  <1>4. RequestInv(r)'
    <2>1. \A n \in NameSet : probe[r][n] = "none"
      BY NoCommands DEF List
    <2>2. QED
      BY <1>1, <2>1 DEF TypeOK, RequestInv, choice
  <1>5. PinHolds(pin)' /\ \A q \in Requests \ {r} : Untouched(q)
    BY <1>1, <1>2 DEF TypeOK, PinHolds, Untouched, choice
  <1>6. QED
    BY <1>3, <1>4, <1>5, OneRequest

(* What matchPrinter finds: a printer of that uid, or of that name.          *)
LEMMA MatchesUid ==
    ASSUME NEW queues, NEW printers, NEW requested, NEW n \in Matches(queues, printers, requested)
    PROVE  n \in printers /\ (StableUID(n, queues[n]) = requested \/ n = requested)
  BY DEF Matches

LEMMA NoMatch ==
    ASSUME NEW queues, NEW printers, NEW requested, Matches(queues, printers, requested) = {}
    PROVE  \A n \in printers : StableUID(n, queues[n]) # requested
  BY DEF Matches

(* The first of some printers is a network printer only if they all are.     *)
LEMMA UsbLeads ==
    ASSUME NEW queues, NEW printers, NEW name, Foremost(queues, printers, name),
           queues[name] \notin Usb
    PROVE  \A n \in printers : queues[n] \notin Usb
  BY DEF Foremost, Precedes

(* No queue is found by the pin of a unit with a serial number but that      *)
(* unit's, and none by no pin.                                               *)
LEMMA PinMatches ==
    ASSUME NEW p \in Pins, PinHolds(p), NEW name \in NameSet, NEW device \in Devices,
           StableUID(name, device) = p.uid \/ name = p.uid
    PROVE  /\ p.device \in Serial => device = p.device
           /\ p # NoPin
  BY StationAssumption DEF StableUID, PinHolds, NoPin

(* The choice, which establishes what it promises.                           *)
LEMMA ChooseStep ==
    ASSUME StationInv, NEW r \in Requests, Choose(r)
    PROVE  StationInv'
  <1> USE StationAssumption DEF StationInv
  <1> DEFINE hits == Matches(found[r], good[r], wants[r].uid)
  <1>1. pc[r] = "judge" /\ UNCHANGED <<cups, verdict, pin, wants, found, probe, judged, good, landed>>
    BY DEF Choose, AllJudged
  <1>2. PICK name \in good[r] :
            \/ Foremost(found[r], hits, name) /\ Take(r, name, FALSE)
            \/ /\ hits = {} /\ Foremost(found[r], good[r], name)
               /\ Take(r, name, wants[r] # NoPin)
    BY DEF Choose
  <1> HIDE DEF hits
  <1>3. PICK fallback \in BOOLEAN : Take(r, name, fallback)
    BY <1>2
  <1>4. /\ name \in NameSet /\ name # None /\ found[r][name] \in Devices
        /\ wants[r] \in Pins /\ PinHolds(wants[r])
    BY DEF TypeOK, RequestInv
  <1>5. TypeOK'
    BY <1>1, <1>3, <1>4 DEF Take, TypeOK, cups
  <1>6. /\ pc'[r] = "submit" /\ target'[r] = name /\ said'[r] = fallback
        /\ UNCHANGED <<wants, found, probe, judged, good, landed>>
    BY <1>1, <1>3 DEF Take, TypeOK
  <1>7. Chosen(r)'
    <2>1. CASE Foremost(found[r], hits, name) /\ Take(r, name, FALSE)
      <3>1. name \in hits /\ said'[r] = FALSE
        BY <2>1 DEF Foremost, Take, TypeOK
      <3>2. StableUID(name, found[r][name]) = wants[r].uid \/ name = wants[r].uid
        BY <3>1, MatchesUid DEF hits
      <3>3. wants[r] # NoPin /\ (wants[r].device \in Serial => found[r][name] = wants[r].device)
        BY <1>4, <3>2, PinMatches
      <3>4. QED
        BY <1>6, <3>1, <3>3 DEF Chosen
    <2>2. CASE /\ hits = {} /\ Foremost(found[r], good[r], name)
               /\ Take(r, name, wants[r] # NoPin)
      <3>1. said'[r] <=> wants[r] # NoPin
        BY <2>2 DEF Take, TypeOK
      <3>2. \A n \in good[r] : StableUID(n, found[r][n]) # wants[r].uid
        BY <2>2, NoMatch DEF hits
      <3>3. found[r][name] \notin Usb => \A n \in good[r] : found[r][n] \notin Usb
        BY <2>2, UsbLeads
      <3>4. wants[r] = NoPin => wants[r].device \notin Serial
        BY DEF NoPin
      <3>5. QED
        BY <1>6, <3>1, <3>2, <3>3, <3>4 DEF Chosen
    <2>3. QED
      BY <1>2, <2>1, <2>2
  <1>8. RequestInv(r)'
    <2>1. \A n \in NameSet : probe'[r][n] = "none"
      BY <1>6, NoCommands DEF Choose
    <2>2. QED
      BY <1>4, <1>6, <1>7, <2>1 DEF RequestInv
  <1>9. PinHolds(pin)' /\ \A q \in Requests \ {r} : Untouched(q)
    BY <1>1, <1>3 DEF Take, TypeOK, PinHolds, Untouched
  <1>10. QED
    BY <1>5, <1>8, <1>9, OneRequest

(* CUPS takes the job, or does not.                                          *)
LEMMA SubmitStep ==
    ASSUME StationInv, NEW r \in Requests, Submit(r)
    PROVE  StationInv'
  <1> USE StationAssumption DEF StationInv
  <1>1. /\ pc[r] = "submit" /\ target[r] # None
        /\ UNCHANGED <<cups, verdict, pin, wants, found, probe, judged, good, target, said>>
    BY DEF Submit, RequestInv
  <1>2. PICK step \in {"sent", "failed"}, device \in Devices \cup {None} :
            /\ pc' = [pc EXCEPT ![r] = step]
            /\ landed' = [landed EXCEPT ![r] = device]
    <2>1. target[r] \in NameSet /\ queue[target[r]] \in Devices \cup {None}
      BY <1>1 DEF TypeOK
    <2>2. QED
      BY <2>1 DEF Submit
  <1>3. TypeOK'
    BY <1>1, <1>2 DEF TypeOK, cups
  <1>4. RequestInv(r)'
    <2>1. \A n \in NameSet : probe[r][n] = "none"
      BY <1>1, NoCommands
    <2>2. QED
      BY <1>1, <1>2, <2>1 DEF TypeOK, RequestInv, Chosen
  <1>5. PinHolds(pin)' /\ \A q \in Requests \ {r} : Untouched(q)
    BY <1>1, <1>2 DEF TypeOK, PinHolds, Untouched
  <1>6. QED
    BY <1>3, <1>4, <1>5, OneRequest

(* A request that ends without a job, and one that leaves.                   *)
LEMMA EndStep ==
    ASSUME StationInv, NEW r \in Requests, DiscoverFails(r) \/ NoneUsable(r) \/ Leave(r)
    PROVE  StationInv'
  <1> USE StationAssumption DEF StationInv
  <1>1. CASE DiscoverFails(r) \/ NoneUsable(r)
    <2>1. /\ pc[r] \in {"idle", "judge"} /\ pc' = [pc EXCEPT ![r] = "failed"]
          /\ UNCHANGED <<cups, verdict, pin, wants, found, probe, judged, good, choice>>
      BY <1>1 DEF DiscoverFails, NoneUsable, AllJudged
    <2>2. TypeOK'
      BY <2>1 DEF TypeOK, cups, choice
    <2>3. RequestInv(r)'
      <3>1. \A n \in NameSet : probe[r][n] = "none"
        BY <1>1, NoCommands DEF DiscoverFails, NoneUsable
      <3>2. QED
        BY <2>1, <3>1 DEF TypeOK, RequestInv, choice
    <2>4. PinHolds(pin)' /\ \A q \in Requests \ {r} : Untouched(q)
      BY <2>1 DEF TypeOK, PinHolds, Untouched, choice
    <2>5. QED
      BY <2>2, <2>3, <2>4, OneRequest
  <1>2. CASE Leave(r)
    <2>1. TypeOK'
      BY <1>2, NoPinTyped DEF Leave, TypeOK, cups, NoQueues
    <2>2. RequestInv(r)'
      <3>1. \A n \in NameSet : probe[r][n] = "none"
        BY <1>2, NoCommands DEF Leave
      <3>2. /\ pc'[r] = "idle" /\ wants'[r] = NoPin /\ good'[r] = {} /\ target'[r] = None
            /\ ~said'[r] /\ landed'[r] = None /\ UNCHANGED probe
        BY <1>2 DEF Leave, TypeOK
      <3>3. PinHolds(wants'[r])
        BY <3>2, NoPinTyped
      <3>4. QED
        BY <3>1, <3>2, <3>3 DEF RequestInv
    <2>3. PinHolds(pin)' /\ \A q \in Requests \ {r} : Untouched(q)
      BY <1>2 DEF Leave, TypeOK, PinHolds, Untouched
    <2>4. QED
      BY <2>1, <2>2, <2>3, OneRequest
  <1>3. QED
    BY <1>1, <1>2

(* A verdict expires, or the station changes.                                *)
LEMMA StationChanges ==
    ASSUME StationInv,
           \/ \E name \in NameSet : Expire(name) \/ Repoint(name) \/ Flip(name)
           \/ \E old, new \in NameSet : old # new /\ Rename(old, new)
           \/ UNCHANGED vars
    PROVE  StationInv'
  <1> USE StationAssumption DEF StationInv
  <1>1. UNCHANGED <<pin, pc, wants, found, probe, judged, good, choice>>
    BY DEF Expire, Repoint, Flip, Rename, Changing, vars, choice
  <1>2. /\ queue' \in [NameSet -> Devices \cup {None}]
        /\ state' \in [NameSet -> States]
        /\ verdict' \in [NameSet -> {"none", "yes", "no"}]
        /\ changes' \in 0..MaxChanges
    <2>1. CASE \E name \in NameSet : Expire(name)
      BY <2>1 DEF Expire, TypeOK, cups
    <2>2. CASE \E name \in NameSet : Repoint(name)
      BY <2>2 DEF Repoint, Changing, TypeOK, States
    <2>3. CASE \E name \in NameSet : Flip(name)
      BY <2>3 DEF Flip, Changing, TypeOK
    <2>4. CASE \E old, new \in NameSet : Rename(old, new)
      <3>1. PICK old, new \in NameSet : Rename(old, new)
        BY <2>4
      <3>2. /\ queue' = [queue EXCEPT ![new] = queue[old], ![old] = None]
            /\ state' = [state EXCEPT ![new] = state[old]]
            /\ UNCHANGED verdict /\ changes < MaxChanges /\ changes' = changes + 1
        BY <3>1 DEF Rename, Changing
      <3>3. queue' \in [NameSet -> Devices \cup {None}]
        <4>1. [queue EXCEPT ![new] = queue[old]] \in [NameSet -> Devices \cup {None}]
          BY DEF TypeOK
        <4>2. queue' = [[queue EXCEPT ![new] = queue[old]] EXCEPT ![old] = None]
          BY <3>2
        <4>3. QED
          BY <4>1, <4>2
      <3>4. state' \in [NameSet -> States]
        BY <3>2 DEF TypeOK
      <3>5. changes' \in 0..MaxChanges
        BY <3>2 DEF TypeOK
      <3>6. QED
        BY <3>2, <3>3, <3>4, <3>5 DEF TypeOK
    <2>5. CASE UNCHANGED vars
      BY <2>5 DEF vars, cups, TypeOK
    <2>6. QED
      BY <2>1, <2>2, <2>3, <2>4, <2>5
  <1>3. TypeOK'
    BY <1>1, <1>2 DEF TypeOK, choice
  <1>4. \A r \in Requests : Untouched(r)
    BY <1>1 DEF Untouched, choice
  <1>5. QED
    BY <1>1, <1>3, <1>4, UntouchedKeeps DEF PinHolds

(* Every reachable state of the station and its requests.                    *)
LEMMA StationCorrect == Spec => []StationInv
  <1>1. StationInv /\ [Next]_vars => StationInv'
    BY DiscoverStep, AskStep, JudgeStep, ListStep, ChooseStep, SubmitStep, EndStep, StationChanges
       DEF Next
  <1>2. QED
    BY <1>1, StationInit, PTL DEF Spec

(* The state of the station is of its type: no queue is found usable that    *)
(* this round has not judged, however often rounds follow one another.       *)
THEOREM TypeCorrect == Spec => []TypeOK
  <1>1. StationInv => TypeOK
    BY DEF StationInv
  <1>2. QED
    BY <1>1, StationCorrect, PTL

(* A page pinned to a unit with a serial number comes out of that unit,      *)
(* whatever the queues are called by now, unless a fallback line says        *)
(* otherwise or the queue was changed under the request.                     *)
THEOREM PinnedIsReached == Spec => []ReachesPinned
  <1>1. StationInv => ReachesPinned
    BY DEF StationInv, RequestInv, Chosen, ReachesPinned
  <1>2. QED
    BY <1>1, StationCorrect, PTL

(* The fallback is taken only when no usable queue is the pinned printer's.  *)
THEOREM FallbackIsNeeded == Spec => []FallbackOnlyIfNeeded
  <1>1. StationInv => FallbackOnlyIfNeeded
    BY DEF StationInv, RequestInv, Chosen, FallbackOnlyIfNeeded
  <1>2. QED
    BY <1>1, StationCorrect, PTL

(* A job nobody pinned, or one that falls back, goes to a network queue only *)
(* when no USB queue is usable.                                              *)
THEOREM UsbGoesFirst == Spec => []UsbFirst
  <1>1. StationInv => UsbFirst
    BY DEF StationInv, RequestInv, Chosen, UsbFirst
  <1>2. QED
    BY <1>1, StationCorrect, PTL

-----------------------------------------------------------------------------
(* What lpstat prints about a queue: a line with its name, and then the      *)
(* status of one that is offline.                                            *)
Words == {"enabled", "disabled", "offline", "accepting", "not accepting"}

Report == [queue : NameSet \cup {None}, says : Words]

Own(name, word) == [queue |-> name, says |-> word]

LEMMA OneLine ==
    ASSUME NEW name \in NameSet \cup {None}, NEW word \in Words
    PROVE  /\ << Own(name, word) >> \in Seq(Report)
           /\ Len(<< Own(name, word) >>) = 1
           /\ << Own(name, word) >>[1] = Own(name, word)
  BY DEF Own, Report

LEMMA StatusLines ==
    ASSUME NEW name \in NameSet
    PROVE  /\ Status[name] \in Seq(Report)
           /\ \A i \in DOMAIN Status[name] : Status[name][i].queue \in {name, None}
           /\ 1 \in DOMAIN Status[name] /\ Status[name][1].queue = name
           /\ IF state[name] = "disabled"
              THEN \A i \in DOMAIN Status[name] : Status[name][i] # Own(name, "enabled")
              ELSE Status[name][1] = Own(name, "enabled")
           /\ IF state[name] = "offline"
              THEN /\ Len(Status[name]) = 2
                   /\ Status[name][2] = [queue |-> None, says |-> "offline"]
              ELSE Len(Status[name]) = 1
  <1> DEFINE word == IF state[name] = "disabled" THEN "disabled" ELSE "enabled"
             header == << Own(name, word) >>
             offline == << Own(None, "offline") >>
  <1>1. /\ header \in Seq(Report) /\ Len(header) = 1 /\ header[1] = Own(name, word)
        /\ offline \in Seq(Report) /\ Len(offline) = 1 /\ offline[1] = Own(None, "offline")
    <2>1. word \in Words /\ "offline" \in Words
      BY DEF Words
    <2>2. name \in NameSet \cup {None} /\ None \in NameSet \cup {None}
      OBVIOUS
    <2> HIDE DEF word
    <2>3. header \in Seq(Report) /\ Len(header) = 1 /\ header[1] = Own(name, word)
      BY <2>1, <2>2, OneLine
    <2>4. offline \in Seq(Report) /\ Len(offline) = 1 /\ offline[1] = Own(None, "offline")
      BY <2>1, <2>2, OneLine
    <2>5. QED
      BY <2>3, <2>4
  <1>2. Status[name] = header \o IF state[name] = "offline" THEN offline ELSE << >>
    BY DEF Status, Own
  <1> HIDE DEF header, offline
  <1>3. CASE state[name] = "offline"
    <2>1. Status[name] = header \o offline
      BY <1>2, <1>3
    <2>2. /\ Status[name] \in Seq(Report) /\ Len(Status[name]) = 2
          /\ Status[name][1] = header[1] /\ Status[name][2] = offline[1]
      <3> DEFINE both == header \o offline
      <3>1. /\ both \in Seq(Report) /\ Len(both) = Len(header) + Len(offline)
            /\ \A i \in 1..(Len(header) + Len(offline)) :
                   both[i] = IF i <= Len(header) THEN header[i] ELSE offline[i - Len(header)]
        BY <1>1, ConcatProperties
      <3> HIDE DEF both
      <3>2. both \in Seq(Report) /\ Len(both) = 2 /\ both[1] = header[1] /\ both[2] = offline[1]
        BY <1>1, <3>1
      <3>3. QED
        BY <2>1, <3>2 DEF both
    <2>3. DOMAIN Status[name] = 1..2
      BY <2>2, LenProperties
    <2>4. QED
      BY <1>1, <1>3, <2>2, <2>3 DEF Own
  <1>4. CASE state[name] # "offline"
    <2>1. Status[name] = header
      BY <1>1, <1>2, <1>4, ConcatEmptySeq
    <2>2. DOMAIN header = 1..1
      BY <1>1, LenProperties
    <2>3. QED
      BY <1>1, <1>4, <2>1, <2>2 DEF Own
  <1>5. QED
    BY <1>3, <1>4

LEMMA AcceptsLines ==
    ASSUME NEW name \in NameSet
    PROVE  /\ Accepts[name] \in Seq(Report)
           /\ \A i \in DOMAIN Accepts[name] : Accepts[name][i].queue \in {name, None}
           /\ 1 \in DOMAIN Accepts[name] /\ Accepts[name][1].queue = name
           /\ IF state[name] = "rejecting"
              THEN \A i \in DOMAIN Accepts[name] : Accepts[name][i] # Own(name, "accepting")
              ELSE Accepts[name][1] = Own(name, "accepting")
  <1> DEFINE word == IF state[name] = "rejecting" THEN "not accepting" ELSE "accepting"
             only == << Own(name, word) >>
  <1>1. word \in Words
    BY DEF Words
  <1>2. Accepts[name] = only
    BY DEF Accepts, Own
  <1>3. only \in Seq(Report) /\ Len(only) = 1 /\ only[1] = Own(name, word)
    <2> HIDE DEF word
    <2>1. QED
      BY <1>1, OneLine
  <1> HIDE DEF only
  <1>4. DOMAIN only = 1..1
    BY <1>3, LenProperties
  <1>5. Own(name, word).queue = name
    BY DEF Own
  <1>6. IF state[name] = "rejecting" THEN Own(name, word) # Own(name, "accepting")
                                     ELSE Own(name, word) = Own(name, "accepting")
    BY DEF Own
  <1> HIDE DEF word
  <1>7. \A i \in DOMAIN only : only[i] = Own(name, word)
    BY <1>3, <1>4
  <1>8. QED
    BY <1>2, <1>3, <1>5, <1>6, <1>7

(* The lines about a queue stand together in the answer, whatever is printed *)
(* around them: no other line names the queue, and what follows names one.   *)
Within(report, own, name, k) ==
    /\ report \in Seq(Report)
    /\ \A i \in 1..Len(own) : k + i \in DOMAIN report /\ report[k + i] = own[i]
    /\ \A i \in DOMAIN report :
           report[i].queue = name => i - k \in 1..Len(own) /\ report[i] = own[i - k]
    /\ k + Len(own) + 1 \in DOMAIN report => report[k + Len(own) + 1].queue # None

About(lines) ==
    \A n \in NameSet :
        /\ lines[n] \in Seq(Report)
        /\ 1 \in DOMAIN lines[n] /\ lines[n][1].queue = n
        /\ \A i \in DOMAIN lines[n] : lines[n][i].queue \in {n, None}

LEMMA AfterOthers ==
    ASSUME NEW own \in Seq(Report), NEW before \in Seq(Report), NEW name,
           \A i \in 1..Len(before) : before[i].queue # name
    PROVE  Within(before \o own, own, name, Len(before))
  <1> DEFINE report == before \o own
  <1>1. Len(own) \in Nat /\ Len(before) \in Nat
    BY LenProperties
  <1>2. /\ report \in Seq(Report)
        /\ Len(report) = Len(before) + Len(own)
        /\ \A i \in 1..(Len(before) + Len(own)) :
               report[i] = IF i <= Len(before) THEN before[i] ELSE own[i - Len(before)]
    BY ConcatProperties
  <1> HIDE DEF report
  <1>3. DOMAIN report = 1..(Len(before) + Len(own))
    BY <1>2, LenProperties
  <1>4. ASSUME NEW i \in 1..Len(own)
        PROVE  Len(before) + i \in DOMAIN report /\ report[Len(before) + i] = own[i]
    <2>1. /\ Len(before) + i \in 1..(Len(before) + Len(own))
          /\ ~(Len(before) + i <= Len(before)) /\ (Len(before) + i) - Len(before) = i
      BY <1>1
    <2>2. QED
      BY <1>2, <1>3, <2>1
  <1>5. ASSUME NEW i \in DOMAIN report, report[i].queue = name
        PROVE  i - Len(before) \in 1..Len(own) /\ report[i] = own[i - Len(before)]
    <2>1. ~(i <= Len(before))
      BY <1>1, <1>2, <1>3, <1>5
    <2>2. QED
      BY <1>1, <1>2, <1>3, <2>1
  <1>6. Len(before) + Len(own) + 1 \notin DOMAIN report
    BY <1>1, <1>3
  <1>7. QED
    BY <1>2, <1>4, <1>5, <1>6 DEF Within, report

LEMMA BeforeOthers ==
    ASSUME NEW own \in Seq(Report), NEW after \in Seq(Report), NEW name,
           \A i \in 1..Len(after) : after[i].queue # name,
           1 \in DOMAIN after /\ after[1].queue # None
    PROVE  Within(own \o after, own, name, 0)
  <1> DEFINE report == own \o after
  <1>1. Len(own) \in Nat /\ Len(after) \in Nat /\ DOMAIN after = 1..Len(after)
    BY LenProperties
  <1>2. /\ report \in Seq(Report)
        /\ Len(report) = Len(own) + Len(after)
        /\ \A i \in 1..(Len(own) + Len(after)) :
               report[i] = IF i <= Len(own) THEN own[i] ELSE after[i - Len(own)]
    BY ConcatProperties
  <1> HIDE DEF report
  <1>3. DOMAIN report = 1..(Len(own) + Len(after))
    BY <1>2, LenProperties
  <1>4. ASSUME NEW i \in 1..Len(own)
        PROVE  0 + i \in DOMAIN report /\ report[0 + i] = own[i]
    <2>1. 0 + i = i /\ i \in 1..(Len(own) + Len(after)) /\ i <= Len(own)
      BY <1>1
    <2>2. QED
      BY <1>2, <1>3, <2>1
  <1>5. ASSUME NEW i \in DOMAIN report, report[i].queue = name
        PROVE  i - 0 \in 1..Len(own) /\ report[i] = own[i - 0]
    <2>1. i <= Len(own)
      BY <1>1, <1>2, <1>3, <1>5
    <2>2. i - 0 = i /\ i \in 1..Len(own)
      BY <1>1, <1>3, <2>1
    <2>3. QED
      BY <1>2, <1>3, <2>2
  <1>6. report[0 + Len(own) + 1].queue # None
    <2>1. /\ 0 + Len(own) + 1 \in 1..(Len(own) + Len(after))
          /\ ~(0 + Len(own) + 1 <= Len(own)) /\ (0 + Len(own) + 1) - Len(own) = 1
      BY <1>1
    <2>2. QED
      BY <1>2, <2>1
  <1>7. QED
    BY <1>2, <1>4, <1>5, <1>6 DEF Within, report

LEMMA OwnLines ==
    ASSUME NEW lines, NEW name \in NameSet, NEW report \in Answers(lines, name), About(lines)
    PROVE  \E k \in Nat : Within(report, lines[name], name, k)
  <1> DEFINE own == lines[name]
  <1>1. own \in Seq(Report) /\ Len(own) \in Nat /\ DOMAIN own = 1..Len(own)
    BY LenProperties DEF About
  <1>2. ASSUME NEW other \in NameSet \ {name}
        PROVE  /\ lines[other] \in Seq(Report) /\ Len(lines[other]) \in Nat
               /\ 1 \in DOMAIN lines[other] /\ lines[other][1].queue # None
               /\ \A i \in 1..Len(lines[other]) : lines[other][i].queue # name
    BY LenProperties, StationAssumption DEF About
  <1>3. CASE report = own
    <2>1. 0 + Len(own) + 1 \notin DOMAIN own
      BY <1>1
    <2>2. /\ \A i \in 1..Len(own) : 0 + i \in DOMAIN own /\ own[0 + i] = own[i]
          /\ \A i \in DOMAIN own : i - 0 \in 1..Len(own) /\ own[i] = own[i - 0]
      BY <1>1
    <2>3. Within(own, own, name, 0)
      <3> HIDE DEF own
      <3>1. QED
        BY <1>1, <2>1, <2>2 DEF Within
    <2>4. QED
      BY <1>3, <2>3
  <1>4. CASE \E other \in NameSet \ {name} : report = lines[other] \o own
    <2>1. PICK other \in NameSet \ {name} : report = lines[other] \o own
      BY <1>4
    <2>2. Within(lines[other] \o own, own, name, Len(lines[other]))
      BY <1>1, <1>2, AfterOthers
    <2>3. QED
      BY <1>2, <2>1, <2>2
  <1>5. CASE \E other \in NameSet \ {name} : report = own \o lines[other]
    <2>1. PICK other \in NameSet \ {name} : report = own \o lines[other]
      BY <1>5
    <2>2. Within(own \o lines[other], own, name, 0)
      BY <1>1, <1>2, BeforeOthers
    <2>3. QED
      BY <2>1, <2>2
  <1>6. QED
    BY <1>3, <1>4, <1>5 DEF Answers

(* The first line that names a queue is its own first line.                  *)
LEMMA FirstIsOwn ==
    ASSUME NEW report, NEW own \in Seq(Report), NEW name \in NameSet, NEW k \in Nat,
           NEW word \in Words, 1 \in DOMAIN own, Within(report, own, name, k)
    PROVE  /\ own[1] = Own(name, word) => FirstSays(report, name, word)
           /\ FirstSays(report, name, word) => \E i \in DOMAIN own : own[i] = Own(name, word)
  <1>1. DOMAIN own = 1..Len(own) /\ Len(own) \in Nat
    BY LenProperties
  <1>2. Own(name, word).queue = name
    BY DEF Own
  <1>3. ASSUME own[1] = Own(name, word)
        PROVE  FirstSays(report, name, word)
    <2>1. k + 1 \in DOMAIN report /\ report[k + 1] = Own(name, word)
      BY <1>1, <1>3 DEF Within
    <2>2. ASSUME NEW j \in 1 .. (k + 1) - 1
          PROVE  report[j].queue # name
      <3>0. j \in DOMAIN report
        <4>1. report \in Seq(Report)
          BY DEF Within
        <4>2. DOMAIN report = 1..Len(report) /\ Len(report) \in Nat
          BY <4>1, LenProperties
        <4>3. QED
          BY <2>1, <4>2
      <3>1. \A i \in DOMAIN report : report[i].queue = name => i - k \in 1..Len(own)
        BY DEF Within
      <3>2. j - k \notin 1..Len(own)
        BY <1>1
      <3>3. QED
        BY <3>0, <3>1, <3>2
    <2>3. QED
      BY <2>1, <2>2 DEF FirstSays, Own
  <1>4. ASSUME FirstSays(report, name, word)
        PROVE  \E i \in DOMAIN own : own[i] = Own(name, word)
    <2>1. PICK i \in DOMAIN report : report[i] = Own(name, word)
      BY <1>4 DEF FirstSays, Own
    <2>2. i - k \in 1..Len(own) /\ report[i] = own[i - k]
      BY <1>2, <2>1 DEF Within
    <2>3. QED
      BY <1>1, <2>1, <2>2
  <1>5. QED
    BY <1>3, <1>4

(* What the parsers read in an answer is the queue's own state.              *)
LEMMA OnlineIsRead ==
    ASSUME NEW name \in NameSet, NEW status \in Answers(Status, name)
    PROVE  Online(status, name) <=> state[name] \notin {"disabled", "offline"}
  <1> DEFINE lines == Status
             own == lines[name]
  <1>1. About(lines)
    BY StatusLines DEF About
  <1>2. status \in Answers(lines, name)
    OBVIOUS
  <1>3. /\ own \in Seq(Report) /\ 1 \in DOMAIN own /\ own[1].queue = name
        /\ IF state[name] = "disabled"
           THEN \A i \in DOMAIN own : own[i] # Own(name, "enabled")
           ELSE own[1] = Own(name, "enabled")
        /\ IF state[name] = "offline"
           THEN Len(own) = 2 /\ own[2] = [queue |-> None, says |-> "offline"]
           ELSE Len(own) = 1
    BY StatusLines
  <1> HIDE DEF lines
  <1>4. PICK k \in Nat : Within(status, own, name, k)
    BY <1>1, <1>2, OwnLines
  <1> HIDE DEF own
  <1>5. Enabled(status, name) <=> state[name] # "disabled"
    <2>1. "enabled" \in Words
      BY DEF Words
    <2>2. /\ own[1] = Own(name, "enabled") => FirstSays(status, name, "enabled")
          /\ FirstSays(status, name, "enabled") =>
                 \E i \in DOMAIN own : own[i] = Own(name, "enabled")
      BY <1>3, <1>4, <2>1, FirstIsOwn
    <2>3. QED
      BY <1>3, <2>2 DEF Enabled
  <1>6. Offline(status, name) <=> state[name] = "offline"
    <2>1. DOMAIN own = 1..Len(own)
      BY <1>3, LenProperties
    <2>2. CASE state[name] = "offline"
      <3>1. /\ k + 1 \in DOMAIN status /\ status[k + 1].queue = name
            /\ k + 2 \in DOMAIN status
            /\ status[k + 2].queue = None /\ status[k + 2].says = "offline"
        BY <1>3, <1>4, <2>1, <2>2 DEF Within
      <3>2. k + 1 < k + 2 /\ \A i \in (k + 1) + 1 .. k + 2 : i = k + 2
        OBVIOUS
      <3>3. QED
        BY <2>2, <3>1, <3>2 DEF Offline
    <2>3. ASSUME state[name] # "offline", Offline(status, name)
          PROVE  FALSE
      <3>1. PICK i, j \in DOMAIN status :
                /\ i < j /\ status[i].queue = name
                /\ \A n \in i + 1 .. j : status[n].queue = None
        BY <2>3 DEF Offline
      <3>2. Len(own) = 1
        BY <1>3, <2>3
      <3>3. DOMAIN status = 1..Len(status) /\ Len(status) \in Nat
        BY <1>4, LenProperties DEF Within
      <3>4. i - k \in 1..1
        BY <1>4, <3>1, <3>2 DEF Within
      <3>5. k + 1 + 1 \in DOMAIN status /\ k + 1 + 1 \in i + 1 .. j
        BY <3>1, <3>3, <3>4
      <3>6. status[k + 1 + 1].queue # None
        BY <1>4, <3>2, <3>5 DEF Within
      <3>7. QED
        BY <3>1, <3>5, <3>6
    <2>4. QED
      BY <2>2, <2>3
  <1>7. QED
    BY <1>5, <1>6 DEF Online

LEMMA AcceptingIsRead ==
    ASSUME NEW name \in NameSet, NEW accepts \in Answers(Accepts, name)
    PROVE  Accepting(accepts, name) <=> state[name] # "rejecting"
  <1> DEFINE lines == Accepts
             own == lines[name]
  <1>1. About(lines)
    BY AcceptsLines DEF About
  <1>2. accepts \in Answers(lines, name)
    OBVIOUS
  <1>3. /\ own \in Seq(Report) /\ 1 \in DOMAIN own
        /\ IF state[name] = "rejecting"
           THEN \A i \in DOMAIN own : own[i] # Own(name, "accepting")
           ELSE own[1] = Own(name, "accepting")
    BY AcceptsLines
  <1> HIDE DEF lines
  <1>4. PICK k \in Nat : Within(accepts, own, name, k)
    BY <1>1, <1>2, OwnLines
  <1> HIDE DEF own
  <1>5. "accepting" \in Words
    BY DEF Words
  <1>6. /\ own[1] = Own(name, "accepting") => FirstSays(accepts, name, "accepting")
        /\ FirstSays(accepts, name, "accepting") =>
               \E i \in DOMAIN own : own[i] = Own(name, "accepting")
    BY <1>3, <1>4, <1>5, FirstIsOwn
  <1>7. QED
    BY <1>3, <1>6 DEF Accepting

(* What one step makes of one queue's verdict.                               *)
ReadAsItIs(n) ==
    /\ \A r \in Requests :
           /\ probe[r][n] = "none" /\ probe'[r][n] \in {"online", "ill"} =>
                 /\ queue[n] # None
                 /\ probe'[r][n] = "online" <=> state[n] \notin {"disabled", "offline"}
           /\ probe[r][n] = "online" /\ probe'[r][n] \in {"well", "ill"} =>
                 /\ queue[n] # None
                 /\ probe'[r][n] = "well" <=> state[n] # "rejecting"
    /\ verdict[n] # "yes" /\ verdict'[n] = "yes" =>
           \E r \in Requests : probe[r][n] = "well"

LEMMA NothingRead ==
    ASSUME NEW n \in NameSet, UNCHANGED probe, verdict'[n] # "yes" \/ verdict[n] = verdict'[n]
    PROVE  ReadAsItIs(n)
  BY DEF ReadAsItIs

LEMMA ReadStep ==
    ASSUME StationInv, NEW r \in Requests, NEW name \in NameSet, NEW n \in NameSet,
           AskOnline(r, name) \/ AskAccepting(r, name)
    PROVE  ReadAsItIs(n)
  <1>1. PICK answer : Asked(r, name, answer)
    BY DEF AskOnline, AskAccepting
  <1>2. UNCHANGED verdict /\ probe' = [probe EXCEPT ![r][name] = answer]
    BY <1>1 DEF Asked
  <1>3. \A q \in Requests : q # r \/ n # name => probe'[q][n] = probe[q][n]
    BY <1>2 DEF StationInv, TypeOK
  <1>4. CASE AskOnline(r, name)
    <2>1. probe[r][name] = "none"
      BY <1>4 DEF AskOnline
    <2>2. probe'[r][name] \in {"online", "ill"} =>
              /\ queue[name] # None
              /\ probe'[r][name] = "online" <=> state[name] \notin {"disabled", "offline"}
      <3>1. CASE Asked(r, name, "silent")
        BY <3>1 DEF Asked, StationInv, TypeOK
      <3>2. ASSUME queue[name] # None, NEW status \in Answers(Status, name),
                   Asked(r, name, IF Online(status, name) THEN "online" ELSE "ill")
            PROVE  probe'[r][name] = "online" <=> state[name] \notin {"disabled", "offline"}
        <4>1. probe'[r][name] = IF Online(status, name) THEN "online" ELSE "ill"
          BY <3>2 DEF Asked, StationInv, TypeOK
        <4>2. QED
          BY <4>1, OnlineIsRead
      <3>3. QED
        BY <1>4, <3>1, <3>2 DEF AskOnline
    <2>3. QED
      BY <1>2, <1>3, <2>1, <2>2 DEF ReadAsItIs
  <1>5. CASE AskAccepting(r, name)
    <2>1. probe[r][name] = "online"
      BY <1>5 DEF AskAccepting
    <2>2. probe'[r][name] \in {"well", "ill"} =>
              /\ queue[name] # None
              /\ probe'[r][name] = "well" <=> state[name] # "rejecting"
      <3>1. CASE Asked(r, name, "silent")
        BY <3>1 DEF Asked, StationInv, TypeOK
      <3>2. ASSUME queue[name] # None, NEW accepts \in Answers(Accepts, name),
                   Asked(r, name, IF Accepting(accepts, name) THEN "well" ELSE "ill")
            PROVE  probe'[r][name] = "well" <=> state[name] # "rejecting"
        <4>1. probe'[r][name] = IF Accepting(accepts, name) THEN "well" ELSE "ill"
          BY <3>2 DEF Asked, StationInv, TypeOK
        <4>2. QED
          BY <4>1, AcceptingIsRead
      <3>3. QED
        BY <1>5, <3>1, <3>2 DEF AskAccepting
    <2>3. QED
      BY <1>2, <1>3, <2>1, <2>2 DEF ReadAsItIs
  <1>6. QED
    BY <1>4, <1>5

LEMMA StoreStep ==
    ASSUME StationInv, NEW r \in Requests, NEW name \in NameSet, NEW n \in NameSet,
           Store(r, name)
    PROVE  ReadAsItIs(n)
  <1>1. \A q \in Requests : probe'[q][n] \in {probe[q][n], "none"}
    BY DEF Store, StationInv, TypeOK
  <1>2. verdict[n] # "yes" /\ verdict'[n] = "yes" => probe[r][n] = "well"
    BY DEF Store, StationInv, TypeOK
  <1>3. QED
    BY <1>1, <1>2 DEF ReadAsItIs

(* Whatever lpstat prints around a queue's own lines, each command of a      *)
(* verdict is read as what the queue is when that command is answered, and   *)
(* the cache takes up that it can print only when both say so.               *)
THEOREM EachCommandIsRead == Spec => CommandsReadTheQueue
  <1>1. ASSUME StationInv, [Next]_vars, NEW n \in NameSet
        PROVE  ReadAsItIs(n)
    <2>1. CASE \E r \in Requests, name \in NameSet :
                   AskOnline(r, name) \/ AskAccepting(r, name) \/ Store(r, name)
      BY <1>1, <2>1, ReadStep, StoreStep
    <2>2. CASE \E name \in NameSet : Expire(name)
      BY <1>1, <2>2, NothingRead DEF Expire, StationInv, TypeOK
    <2>3. CASE UNCHANGED <<probe, verdict>>
      BY <2>3, NothingRead
    <2>4. QED
      BY <1>1, <2>1, <2>2, <2>3 DEF Next, Discover, DiscoverFails, List, Choose, NoneUsable,
         Submit, Leave, UseVerdict, Repoint, Flip, Rename, Changing, vars
  <1>2. StationInv /\ [Next]_vars => [\A n \in NameSet : ReadAsItIs(n)]_vars
    BY <1>1
  <1>3. Spec => [][\A n \in NameSet : ReadAsItIs(n)]_vars
    BY <1>2, StationCorrect, PTL DEF Spec
  <1>4. QED
    BY <1>3 DEF CommandsReadTheQueue, ReadAsItIs
=============================================================================
