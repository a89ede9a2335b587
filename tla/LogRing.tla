-------------------------------- MODULE LogRing --------------------------------
(***************************************************************************)
(* The agent's log ring (src/log.go): rotatingLog's active file and its      *)
(* numbered archives, written one record at a time under agentLogger.mu,     *)
(* rotated before the record that would overflow the active file, and        *)
(* normalised when the process starts.                                      *)
(*                                                                         *)
(* A member is the sequence of its units, each unit the record it belongs    *)
(* to, so a record of length n is n units and the size of a member is its    *)
(* length.  Member 0 is the active file; a member that does not exist is     *)
(* empty.  Every file operation of a rotation is a step of its own: it may   *)
(* fail, and the process may end before or after it.                        *)
(***************************************************************************)
EXTENDS Integers, Sequences

CONSTANTS MaxSize,      \* maxAgentLogSize
          Archives,     \* agentLogArchives
          Lengths,      \* lengths of a record, which nothing bounds
          Traces,       \* lengths of the trace of an ending process, 0 for none
          MaxRecords,   \* bound on the records written
          MaxFaults,    \* bound on the file operations that fail
          MaxCrashes    \* bound on the ends of the process

ASSUME RingAssumption ==
    /\ MaxSize \in Nat \ {0} /\ Archives \in Nat \ {0}
    /\ Lengths \subseteq Nat \ {0}
    /\ Traces \subseteq Nat
    /\ MaxRecords \in Nat /\ MaxFaults \in Nat /\ MaxCrashes \in Nat

VARIABLES member,     \* the ring
          open,       \* is r.file usable?
          stage,      \* the next operation of Write
          shift,      \* the generation a rotation moves next
          length,     \* length of the record being written
          last,       \* the latest record handed to the log
          lost,       \* records not written in full
          faults, crashes

vars == <<member, open, stage, shift, length, last, lost, faults, crashes>>

Generations == 0..Archives
Trace == 0   \* the units of a crash trace belong to no record
Stages == {"ready", "close", "remove", "shift", "archive", "create", "append",
           "down"}

TypeOK ==
    /\ member \in [Generations -> Seq(0..MaxRecords)]
    /\ open \in BOOLEAN
    /\ stage \in Stages
    /\ shift \in Generations
    /\ length \in Lengths
    /\ last \in 0..MaxRecords
    /\ lost \subseteq 1..MaxRecords
    /\ faults \in 0..MaxFaults
    /\ crashes \in 0..MaxCrashes

Init ==
    /\ member = [g \in Generations |-> << >>]
    /\ open = TRUE
    /\ stage = "ready"
    /\ shift = 0
    /\ length \in Lengths
    /\ last = 0
    /\ lost = {}
    /\ faults = 0
    /\ crashes = 0

Size == Len(member[0])

Units(record, n) == [i \in 1..n |-> record]

-----------------------------------------------------------------------------
(* Fault: the file is rotated once it is full, whatever the record's length. *)
WriteThenRotate(n) ==
    /\ stage = "ready"
    /\ last < MaxRecords
    /\ open
    /\ last' = last + 1
    /\ length' = n
    /\ stage' = IF Size >= MaxSize THEN "close" ELSE "append"
    /\ UNCHANGED <<member, open, shift, lost, faults, crashes>>

(* agentLogger.write hands one record to rotatingLog.Write, which first      *)
(* decides whether it has to rotate.  The record may be longer than a member *)
(* may be: a fallback's names the printer as the client did.                 *)
Write(n) ==
    /\ stage = "ready"
    /\ last < MaxRecords
    /\ last' = last + 1
    /\ length' = n
    /\ \/ /\ ~open
          /\ lost' = lost \cup {last + 1}
          /\ UNCHANGED stage
       \/ /\ open
          /\ stage' = IF Size > 0 /\ Size + n > MaxSize THEN "close" ELSE "append"
          /\ UNCHANGED lost
    /\ UNCHANGED <<member, open, shift, faults, crashes>>

(* An operation of the rotation fails: r.file is closed by then, or nil, and *)
(* nothing opens it again.                                                   *)
RotationFails ==
    /\ stage \in {"close", "remove", "shift", "archive", "create"}
    /\ faults < MaxFaults
    /\ faults' = faults + 1
    /\ open' = FALSE
    /\ lost' = lost \cup {last}
    /\ stage' = "ready"
    /\ UNCHANGED <<member, shift, length, last, crashes>>

CloseActive ==
    /\ stage = "close"
    /\ stage' = "remove"
    /\ UNCHANGED <<member, open, shift, length, last, lost, faults, crashes>>

RemoveOldest ==
    /\ stage = "remove"
    /\ member' = [member EXCEPT ![Archives] = << >>]
    /\ shift' = Archives - 1
    /\ stage' = "shift"
    /\ UNCHANGED <<open, length, last, lost, faults, crashes>>

(* os.Rename, which leaves the target alone when the source does not exist *)
Renamed(from, to) ==
    IF member[from] = << >> THEN member
    ELSE [member EXCEPT ![to] = member[from], ![from] = << >>]

(* Fault: the loop ends before the newest archive. *)
ShiftAllButNewest ==
    /\ stage = "shift"
    /\ shift >= 1
    /\ member' = IF shift = 1 THEN member ELSE Renamed(shift, shift + 1)
    /\ shift' = shift - 1
    /\ UNCHANGED <<open, stage, length, last, lost, faults, crashes>>

ShiftArchive ==
    /\ stage = "shift"
    /\ shift >= 1
    /\ member' = Renamed(shift, shift + 1)
    /\ shift' = shift - 1
    /\ UNCHANGED <<open, stage, length, last, lost, faults, crashes>>

(* Fault: the active file is copied, to be truncated when it is next opened. *)
ArchiveByCopy ==
    /\ stage = "shift"
    /\ shift = 0
    /\ member' = [member EXCEPT ![1] = member[0]]
    /\ stage' = "create"
    /\ UNCHANGED <<open, shift, length, last, lost, faults, crashes>>

ArchiveActive ==
    /\ stage = "shift"
    /\ shift = 0
    /\ member' = Renamed(0, 1)
    /\ stage' = "create"
    /\ UNCHANGED <<open, shift, length, last, lost, faults, crashes>>

CreateActive ==
    /\ stage = "create"
    /\ stage' = "append"
    /\ UNCHANGED <<member, open, shift, length, last, lost, faults, crashes>>

(* Fault: a file that was there at the start is opened without O_APPEND. *)
AppendFromStart(n) ==
    /\ stage = "append"
    /\ n = length
    /\ member' = [member EXCEPT ![0] =
                     IF crashes = 0 THEN @ \o Units(last, n)
                     ELSE Units(last, n) \o SubSeq(@, n + 1, Len(@))]
    /\ stage' = "ready"
    /\ UNCHANGED <<open, shift, length, last, lost, faults, crashes>>

(* the write itself, in full or, on a full disk, only the first units of it  *)
AppendRecord(n) ==
    /\ stage = "append"
    /\ \/ /\ n = length
          /\ UNCHANGED <<lost, faults>>
       \/ /\ n < length
          /\ faults < MaxFaults
          /\ faults' = faults + 1
          /\ lost' = lost \cup {last}
    /\ member' = [member EXCEPT ![0] = @ \o Units(last, n)]
    /\ stage' = "ready"
    /\ UNCHANGED <<open, shift, length, last, crashes>>

-----------------------------------------------------------------------------
(* The process ends.  A Go crash leaves its trace on the inode the active    *)
(* log was opened with (debug.SetCrashOutput): that inode is .1 from the      *)
(* rename of the active file on, until openActive has opened a new one.      *)
CrashTarget == IF stage = "create" \/ (~open /\ Size = 0) THEN 1 ELSE 0

Crash(n) ==
    /\ stage # "down"
    /\ crashes < MaxCrashes
    /\ crashes' = crashes + 1
    /\ member' = [member EXCEPT ![CrashTarget] = @ \o Units(Trace, n)]
    /\ open' = FALSE
    /\ stage' = "down"
    /\ lost' = IF stage = "ready" THEN lost ELSE lost \cup {last}
    /\ UNCHANGED <<shift, length, last, faults>>

(* newRotatingLog: normalizeRing removes the members over the bound, then    *)
(* openActive; if either fails the process exits and launchd tries again.    *)
Normalized ==
    [g \in Generations |-> IF Len(member[g]) > MaxSize THEN << >> ELSE member[g]]

Restart ==
    /\ stage = "down"
    /\ member' = Normalized
    /\ open' = TRUE
    /\ stage' = "ready"
    /\ UNCHANGED <<shift, length, last, lost, faults, crashes>>

Next ==
    \/ \E n \in Lengths : Write(n)
    \/ \E n \in 0..length : AppendRecord(n)
    \/ CloseActive \/ RemoveOldest \/ ShiftArchive \/ ArchiveActive
    \/ CreateActive \/ RotationFails
    \/ \E n \in Traces : Crash(n)
    \/ Restart

Spec == Init /\ [][Next]_vars

-----------------------------------------------------------------------------
In(g) == {member[g][i] : i \in DOMAIN member[g]} \ {Trace}

Retained == UNION {In(g) : g \in Generations}

(* Unit i of generation g is read before unit j of h when the ring is read   *)
(* from its oldest archive down to the active file.                          *)
ReadBefore(g, i, h, j) == g > h \/ (g = h /\ i < j)

(* Whatever fails, and wherever the process ends, the ring read from .7 to   *)
(* the active file has its records in the order they were written.           *)
RecordsInOrder ==
    \A g, h \in Generations : \A i \in DOMAIN member[g], j \in DOMAIN member[h] :
        /\ ReadBefore(g, i, h, j)
        /\ Trace \notin {member[g][i], member[h][j]}
        => member[g][i] <= member[h][j]

(* "Rotation never splits or rewrites a record" (src/lat.md/tools.md:277):   *)
(* what was written of a record, which may be the first units of it only, is *)
(* in one member, whatever fails.                                            *)
RecordsAreWhole ==
    \A g, h \in Generations : g # h => In(g) \cap In(h) = {}

(* Of no more than MaxSize, or of one record, which is longer than that.     *)
WithinBound(file) ==
    \/ Len(file) <= MaxSize
    \/ \E r \in 1..MaxRecords : \A i \in DOMAIN file : file[i] = r

(* While the process runs, whatever a crash trace had written past the       *)
(* logger before its start, a file of the ring is over its byte bound only   *)
(* because of a single record that is: nothing is with it there, and nothing *)
(* is ever added.                                                            *)
BoundHolds ==
    stage # "down" => \A g \in Generations : WithinBound(member[g])

(* "The oldest is deleted when the next generation is created"               *)
(* (src/lat.md/tools.md:271-272) and nothing else is: a record leaves the    *)
(* ring from its last generation, or with a file over the bound, by a crash  *)
(* trace or by a record of such a length, when the process starts again.     *)
Oversize == {g \in Generations : Len(member[g]) > MaxSize}

EvictsOldestOnly ==
    [][Retained \ Retained' \subseteq
           In(Archives) \cup UNION {In(g) : g \in Oversize}]_vars

(* src/RUNBOOK.md:980-982, a record's fields "remain present until archive   *)
(* eviction", which takes the oldest: a record that is still there has every *)
(* later one that was written in full still there too.                       *)
PresentUntilEviction ==
    \A r \in Retained : \A s \in (r + 1)..last :
        \/ s \in Retained
        \/ s \in lost
        \/ s = last /\ stage # "ready"
=============================================================================
