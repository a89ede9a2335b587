------------------------------ MODULE PrintOrder ------------------------------
(***************************************************************************)
(* The submission gate of the agent: cupsClient.printOrder, a Go           *)
(* sync.RWMutex (src/cups.go:178-182).  Ordinary jobs take it shared and    *)
(* an inverting document takes it exclusive for its render, its page and    *)
(* the restoration that follows.  Neither Lock nor RLock looks at the       *)
(* request's context: a caller that has hung up still waits its turn.       *)
(*                                                                         *)
(* The lock itself is library code and is modelled by the contract its      *)
(* callers use: an exclusive caller first wins the writers' mutex           *)
(* (claimants, owner), which parks every shared caller that comes later,    *)
(* then waits for the readers inside to leave (entered); its Unlock lets    *)
(* all parked callers in at once, before another exclusive caller can own   *)
(* the lock.                                                                *)
(***************************************************************************)
CONSTANTS Requests,   \* the HTTP requests that reach the gate
          NoRequest   \* "nobody"

ASSUME NoRequestAssumption == NoRequest \notin Requests

VARIABLES readers,    \* requests that hold the gate shared
          parked,     \* shared callers waiting behind an exclusive one
          claimants,  \* exclusive callers waiting for the writers' mutex
          owner,      \* the exclusive caller that owns the writers' mutex
          entered     \* has owner seen the last reader leave?

orderVars == <<readers, parked, claimants, owner, entered>>

OrderTypeOK ==
    /\ readers \subseteq Requests
    /\ parked \subseteq Requests
    /\ claimants \subseteq Requests
    /\ owner \in Requests \cup {NoRequest}
    /\ entered \in BOOLEAN

OrderInit ==
    /\ readers = {}
    /\ parked = {}
    /\ claimants = {}
    /\ owner = NoRequest
    /\ entered = FALSE

HoldsExclusive(r) == owner = r /\ entered

Holds(r) == r \in readers \/ HoldsExclusive(r)

Waits(r) == r \in parked \cup claimants \/ (owner = r /\ ~entered)

-----------------------------------------------------------------------------
(* Fault: a shared caller is let in as long as no exclusive one has entered. *)
RLockPassingOwner(r) ==
    /\ ~Holds(r) /\ ~Waits(r)
    /\ \/ /\ ~entered
          /\ readers' = readers \cup {r}
          /\ UNCHANGED parked
       \/ /\ entered
          /\ parked' = parked \cup {r}
          /\ UNCHANGED readers
    /\ UNCHANGED <<claimants, owner, entered>>

(* printOrder.RLock: inside at once unless an exclusive caller owns the lock *)
RLock(r) ==
    /\ ~Holds(r) /\ ~Waits(r)
    /\ \/ /\ owner = NoRequest
          /\ readers' = readers \cup {r}
          /\ UNCHANGED parked
       \/ /\ owner # NoRequest
          /\ parked' = parked \cup {r}
          /\ UNCHANGED readers
    /\ UNCHANGED <<claimants, owner, entered>>

(* the deferred printOrder.RUnlock *)
RUnlock(r) ==
    /\ r \in readers
    /\ readers' = readers \ {r}
    /\ UNCHANGED <<parked, claimants, owner, entered>>

(* printOrder.Lock, in its three steps: call, win the mutex, drain *)
Lock(r) ==
    /\ ~Holds(r) /\ ~Waits(r)
    /\ claimants' = claimants \cup {r}
    /\ UNCHANGED <<readers, parked, owner, entered>>

Announce(r) ==
    /\ r \in claimants
    /\ owner = NoRequest
    /\ owner' = r
    /\ claimants' = claimants \ {r}
    /\ UNCHANGED <<readers, parked, entered>>

Enter(r) ==
    /\ owner = r
    /\ ~entered
    /\ readers = {}
    /\ entered' = TRUE
    /\ UNCHANGED <<readers, parked, claimants, owner>>

(* Fault: the gate goes to the next exclusive caller, over those parked. *)
UnlockToClaimant(r) ==
    /\ HoldsExclusive(r)
    /\ entered' = FALSE
    /\ \/ /\ claimants = {}
          /\ owner' = NoRequest
          /\ readers' = readers \cup parked
          /\ parked' = {}
          /\ UNCHANGED claimants
       \/ \E w \in claimants :
             /\ owner' = w
             /\ claimants' = claimants \ {w}
             /\ UNCHANGED <<readers, parked>>

(* the deferred printOrder.Unlock: everyone parked goes in together *)
Unlock(r) ==
    /\ HoldsExclusive(r)
    /\ owner' = NoRequest
    /\ entered' = FALSE
    /\ readers' = readers \cup parked
    /\ parked' = {}
    /\ UNCHANGED claimants

(* the process ends: the lock lives in its memory only *)
Reset ==
    /\ readers' = {}
    /\ parked' = {}
    /\ claimants' = {}
    /\ owner' = NoRequest
    /\ entered' = FALSE

OrderNext ==
    \/ \E r \in Requests : RLock(r) \/ RUnlock(r) \/ Lock(r)
                              \/ Announce(r) \/ Enter(r) \/ Unlock(r)
    \/ Reset

-----------------------------------------------------------------------------
(* The contract of sync.RWMutex itself, which the proofs about its callers   *)
(* rest on: shared and exclusive holders never overlap, and a caller is in   *)
(* one place.                                                                *)
OrderInv ==
    /\ entered => owner # NoRequest /\ readers = {}
    /\ owner = NoRequest => parked = {}
    /\ readers \cap (parked \cup claimants) = {}
    /\ parked \cap claimants = {}
    /\ owner \notin readers \cup parked \cup claimants

(* Neither kind of job starves the other: the Lock of an inverting document  *)
(* and the RLock of an ordinary job (src/cups.go:292, 314, 319) return,      *)
(* whatever stream of jobs goes by, or the process ends under them.          *)
GateServesAll == \A r \in Requests : Waits(r) ~> ~Waits(r)
=============================================================================
