----------------------------- MODULE UpdaterProofs -----------------------------
(***************************************************************************)
(* Proofs about the root updater, for any set of versions, working or not,  *)
(* any number of releases, and any number and kind of failures, except      *)
(* where a theorem names one it cannot do with; and about the agent's reader *)
(* of its state, which looks at the public file while runs go on.            *)
(***************************************************************************)
EXTENDS UpdateReport, TLAPS

(* The phases of a run the invariants speak of. *)
BeforeReplacement == {"manifest", "rollback cache", "pkg", "version", "sha", "fetch", "install"}
Keeping == {"kept pkg", "kept version", "kept sha", "updated"}
Failed == {"install failed", "rollback", "reprobe", "rolled back", "rollback failed"}
Undecided == {"idle", "receipt", "manifest"}

(* What a run knows of the station and of itself. *)
RunInv ==
    /\ pc \notin {"idle", "receipt"} => base \in Versions
    /\ pc \notin Undecided => target \in Versions
    /\ pc \in BeforeReplacement => base = installed
    /\ pc \in Keeping => proven /\ installed = target
    /\ pc = "rolled back" => proven /\ installed = base

(* The run's quarantine verdict about its target is the list's. *)
SuspectInv ==
    /\ pc \in {"receipt", "manifest"} => target = None /\ ~suspect
    /\ pc \notin Undecided \cup Failed => ~suspect /\ target \notin bad
    /\ pc \in Failed => suspect /\ target \in bad

(* So is the published one, but for the moment between the two files. *)
PublicInv ==
    \/ pc = "install failed" /\ published.latest = target
    \/ published.latest = None
    \/ (published.quarantined <=> published.latest \in bad)

(* While a build that was kept is cached, the cache fills from the front. *)
KeptInv ==
    /\ pc \in {"kept version", "kept sha", "updated"} => cache.pkg = target
    /\ pc \in {"kept sha", "updated"} => cache.version = target
    /\ pc = "updated" => cache.sha = target

(* Without an unseen failure of a rename, the cache holds one package under  *)
(* its name and digest, or is being filled, in order, with the installed one.*)
Whole == cache.version = cache.pkg /\ cache.sha = cache.pkg

Filling ==
    /\ cache.pkg = installed
    /\ cache.version \in {cache.sha, installed}

CacheInv ==
    /\ Whole \/ Filling
    /\ pc \in {"version", "sha"} => cache.pkg = base
    /\ pc = "sha" => cache.version = base
    /\ pc \notin Undecided \cup Keeping \cup {"rollback cache", "pkg", "version", "sha"}
           => Whole /\ cache.pkg = base
    /\ pc = "kept pkg" => Whole

NoSlip == "store" \notin Failing \/ faults = 0
Uncut == "cut" \notin Failing \/ faults = 0

(* Without any failure, only a run that is replacing a build leaves one      *)
(* unproven, and it has a working one to go back to.                         *)
Replacing == {"probe", "quarantine", "install failed", "rollback", "reprobe"}

ProvenInv ==
    /\ proven => installed \in Working
    /\ faults = 0 =>
           /\ pc # "rollback failed"
           /\ pc \notin Replacing => proven
           /\ pc \in Replacing => base \in Working
           /\ pc = "reprobe" => installed = base
-----------------------------------------------------------------------------
(* What a failure, a publication and a release do to the counters and types. *)
LEMMA FaultCounts ==
    ASSUME NEW kind, TypeOK, Fault(kind)
    PROVE  faults' \in 0..MaxFaults
  BY UpdaterAssumption DEF TypeOK, Fault

(* A failure is of a kind that may happen, and counts, *)
LEMMA FaultShows ==
    ASSUME NEW kind, TypeOK, Fault(kind)
    PROVE  kind \in Failing /\ faults' # 0
  BY UpdaterAssumption DEF TypeOK, Fault

(* a rename that fails unseen is one of kind store, *)
LEMMA SlipShows ==
    ASSUME TypeOK, StoreSlips
    PROVE  "store" \in Failing /\ faults' # 0
  BY FaultShows DEF StoreSlips

(* Only a failure is counted as one. *)
LEMMA StepFaults ==
    ASSUME [Next]_vars
    PROVE  UNCHANGED faults \/ \E kind \in Kinds : Fault(kind)
  <1> USE DEF Kinds
  <1>1. CASE Start \/ Release \/ Pin \/ UNCHANGED vars
    BY <1>1 DEF Start, Release, Pin, vars
  <1>2. CASE Cut
    BY <1>2 DEF Cut
  <1>3. CASE Runs
    BY <1>3 DEF Runs, Skip, ReadReceipt, ManifestFails, ReadManifest, EnsureCache,
                EnsureCacheFails, StoreRollback, StoreUpdate, Store, StoreSlips, FetchPackage,
                FetchFails, Install, InstallFails, Probe, ProbeSucceeds, ProbeFails, Updated,
                Quarantine, ReportInstallFailed, Rollback, RollbackFails, Reprobe, RolledBack,
                GiveUp
  <1>4. QED
    BY <1>1, <1>2, <1>3 DEF Next

(* and none is forgotten. *)
LEMMA FaultsGrow ==
    ASSUME TypeOK, [Next]_vars, faults' = 0
    PROVE  faults = 0
  BY StepFaults, FaultShows

(* A change of the manifest or of the pin stays within its bound. *)
LEMMA ReleaseCounts ==
    ASSUME TypeOK, releases < MaxReleases, releases' = releases + 1
    PROVE  releases' \in 0..MaxReleases
  BY UpdaterAssumption DEF TypeOK

(* What happens outside of a run keeps the types. *)
LEMMA OutsideTypes ==
    ASSUME TypeOK, Release \/ Pin \/ UNCHANGED vars
    PROVE  TypeOK'
  <1>1. CASE Release
    <2>1. releases' \in 0..MaxReleases
      BY <1>1, ReleaseCounts DEF Release
    <2>2. /\ latest' \in Versions
          /\ UNCHANGED <<pc, installed, proven, base, target, suspect, cache, bad,
                         published, pinned, faults>>
      BY <1>1 DEF Release, run, station
    <2>3. QED
      BY <2>1, <2>2 DEF TypeOK
  <1>2. CASE Pin
    <2>1. releases' \in 0..MaxReleases
      <3>1. CASE pinned
        BY <1>2, <3>1 DEF Pin, TypeOK
      <3>2. CASE ~pinned
        BY <1>2, <3>2, ReleaseCounts DEF Pin
      <3>3. QED
        BY <3>1, <3>2
    <2>2. /\ pinned' \in BOOLEAN
          /\ UNCHANGED <<pc, installed, proven, latest, base, target, suspect, cache, bad,
                         published, faults>>
      BY <1>2 DEF Pin, run, station
    <2>3. QED
      BY <2>1, <2>2 DEF TypeOK
  <1>3. CASE UNCHANGED vars
    BY <1>3 DEF vars, TypeOK
  <1>4. QED
    BY <1>1, <1>2, <1>3

(* What write_status writes is a publication, whatever the verdict comes from:*)
LEMMA PublicationTyped ==
    ASSUME NEW status \in Outcomes, NEW version \in Versions \cup {None},
           NEW quarantined \in BOOLEAN, PublishAbout(status, version, quarantined)
    PROVE  published' \in Publications
  BY DEF Publications, PublishAbout

(* a list, *)
LEMMA Membership ==
    ASSUME NEW x, NEW list, NEW q, q = (x \in list)
    PROVE  q \in BOOLEAN
  OBVIOUS

(* the quarantine list, *)
LEMMA VerdictTyped ==
    ASSUME NEW status \in Outcomes, NEW version \in Versions, NEW list,
           PublishAbout(status, version, version \in list)
    PROVE  published' \in Publications
  BY DEF Publications, PublishAbout

(* or the run's own variables. *)
LEMMA StatusTyped ==
    ASSUME TypeOK, NEW status \in Outcomes, WriteStatus(status)
    PROVE  published' \in Publications
  BY PublicationTyped DEF TypeOK, WriteStatus

(* A step that leaves the station, the manifest and the run's own variables  *)
(* alone keeps their types; it goes on, may fail, and may fill the cache.    *)
LEMMA StillTyped ==
    ASSUME TypeOK, pc' \in Steps, faults' \in 0..MaxFaults, cache' \in Files,
           UNCHANGED <<run, station, outside, bad, published>>
    PROVE  TypeOK'
  BY DEF TypeOK, run, station, outside

LEMMA StoreTyped ==
    ASSUME TypeOK, NEW step, NEW part \in {"pkg", "version", "sha"}, NEW version \in Versions,
           NEW next \in Steps, Store(step, part, version, next)
    PROVE  TypeOK'
  <1>1. cache' \in Files
    BY DEF TypeOK, Files, Store
  <1>2. QED
    BY <1>1, StillTyped DEF TypeOK, Store

-----------------------------------------------------------------------------
(* Types. *)
LEMMA TypeStep ==
    ASSUME TypeOK, RunInv, [Next]_vars
    PROVE  TypeOK'
  <1> USE UpdaterAssumption, FaultCounts, StatusTyped
          DEF TypeOK, RunInv, Steps, Files, Outcomes, Undecided,
              BeforeReplacement, CacheIsGood, run, station, outside
  <1>1. CASE Start
    BY <1>1 DEF Start
  <1>2. CASE \E s \in {"skipped-install", "skipped-no-user"} : Skip(s)
    BY <1>2 DEF Skip
  <1>3. CASE ReadReceipt
    BY <1>3 DEF ReadReceipt
  <1>4. CASE \E s \in {"manifest-fetch-failed", "manifest-invalid"} : ManifestFails(s)
    BY <1>4 DEF ManifestFails
  <1>5. CASE ReadManifest
    <2>1. published' \in Publications
      <3>1. CASE latest = base
        <4>1. PublishAbout("current", latest, latest \in bad) /\ latest \in Versions
          BY <1>5, <3>1 DEF ReadManifest
        <4>2. "current" \in Outcomes
          BY DEF Outcomes
        <4>3. QED
          BY <4>1, <4>2, VerdictTyped
      <3>2. CASE latest # base /\ latest \in bad
        BY <1>5, <3>2, PublicationTyped DEF ReadManifest
      <3>3. CASE latest # base /\ latest \notin bad
        BY <1>5, <3>3 DEF ReadManifest
      <3>4. QED
        BY <3>1, <3>2, <3>3
    <2>2. /\ target' = latest
          /\ suspect' = (latest \in bad)
          /\ pc' \in {"idle", "rollback cache"}
          /\ UNCHANGED <<base, station, outside, cache, bad, faults>>
      BY <1>5 DEF ReadManifest
    <2>3. suspect' \in BOOLEAN
      BY <2>2, Membership
    <2>4. QED
      BY <2>1, <2>2, <2>3
  <1>6. CASE EnsureCache
    BY <1>6 DEF EnsureCache
  <1>7. CASE EnsureCacheFails
    BY <1>7 DEF EnsureCacheFails
  <1>8. CASE StoreRollback
    <2>1. base \in Versions
      BY <1>8 DEF StoreRollback, Store
    <2>2. QED
      BY <1>8, <2>1, StoreTyped DEF StoreRollback
  <1>9. CASE StoreSlips
    <2>1. cache' \in Files
      BY <1>9 DEF StoreSlips, Files
    <2>2. pc' \in Steps /\ published' \in Publications
      BY <1>9 DEF StoreSlips
    <2>3. UNCHANGED <<run, station, outside, bad>> /\ faults' \in 0..MaxFaults
      BY <1>9, FaultCounts DEF StoreSlips
    <2>4. QED
      BY <2>1, <2>2, <2>3
  <1>10. CASE FetchPackage
    BY <1>10 DEF FetchPackage
  <1>11. CASE \E s \in {"package-fetch-failed", "checksum-failed", "trust-failed"} : FetchFails(s)
    BY <1>11 DEF FetchFails
  <1>12. CASE Install
    BY <1>12 DEF Install
  <1>13. CASE InstallFails
    BY <1>13 DEF InstallFails
  <1>14. CASE Probe
    BY <1>14 DEF Probe, ProbeSucceeds, ProbeFails
  <1>15. CASE StoreUpdate
    <2>1. target \in Versions
      BY <1>15 DEF StoreUpdate, Store
    <2>2. QED
      BY <1>15, <2>1, StoreTyped DEF StoreUpdate
  <1>16. CASE Updated
    BY <1>16 DEF Updated
  <1>17. CASE Quarantine
    BY <1>17 DEF Quarantine
  <1>18. CASE ReportInstallFailed
    BY <1>18 DEF ReportInstallFailed
  <1>19. CASE Rollback
    BY <1>19 DEF Rollback
  <1>20. CASE RollbackFails
    BY <1>20 DEF RollbackFails
  <1>21. CASE Reprobe
    BY <1>21 DEF Reprobe, ProbeSucceeds, ProbeFails
  <1>22. CASE RolledBack
    BY <1>22 DEF RolledBack
  <1>23. CASE GiveUp
    BY <1>23 DEF GiveUp
  <1>24. CASE Cut
    <2>1. pc' \in Steps /\ faults' \in 0..MaxFaults
      BY <1>24 DEF Cut
    <2>2. QED
      BY <1>24, <2>1, StillTyped DEF Cut
  <1>25. CASE Release \/ Pin \/ UNCHANGED vars
    BY <1>25, OutsideTypes
  <1>26. QED
    BY <1>1, <1>2, <1>3, <1>4, <1>5, <1>6, <1>7, <1>8, <1>9, <1>10, <1>11,
       <1>12, <1>13, <1>14, <1>15, <1>16, <1>17, <1>18, <1>19, <1>20, <1>21,
       <1>22, <1>23, <1>24, <1>25
       DEF Next, Runs

(* What the run knows. *)
LEMMA RunStep ==
    ASSUME TypeOK, RunInv, [Next]_vars
    PROVE  RunInv'
  <1> USE UpdaterAssumption
          DEF TypeOK, RunInv, Files, Undecided, BeforeReplacement, Keeping,
              CacheIsGood, run, station, outside
  <1>1. CASE Start
    BY <1>1 DEF Start
  <1>2. CASE \E s \in {"skipped-install", "skipped-no-user"} : Skip(s)
    BY <1>2 DEF Skip
  <1>3. CASE ReadReceipt
    BY <1>3 DEF ReadReceipt
  <1>4. CASE \E s \in {"manifest-fetch-failed", "manifest-invalid"} : ManifestFails(s)
    BY <1>4 DEF ManifestFails
  <1>5. CASE ReadManifest
    BY <1>5 DEF ReadManifest
  <1>6. CASE EnsureCache
    BY <1>6 DEF EnsureCache
  <1>7. CASE EnsureCacheFails
    BY <1>7 DEF EnsureCacheFails
  <1>8. CASE StoreRollback
    BY <1>8 DEF StoreRollback, Store
  <1>9. CASE StoreSlips
    BY <1>9 DEF StoreSlips
  <1>10. CASE FetchPackage
    BY <1>10 DEF FetchPackage
  <1>11. CASE \E s \in {"package-fetch-failed", "checksum-failed", "trust-failed"} : FetchFails(s)
    BY <1>11 DEF FetchFails
  <1>12. CASE Install
    BY <1>12 DEF Install
  <1>13. CASE InstallFails
    BY <1>13 DEF InstallFails
  <1>14. CASE Probe
    BY <1>14 DEF Probe, ProbeSucceeds, ProbeFails
  <1>15. CASE StoreUpdate
    BY <1>15 DEF StoreUpdate, Store
  <1>16. CASE Updated
    BY <1>16 DEF Updated
  <1>17. CASE Quarantine
    BY <1>17 DEF Quarantine
  <1>18. CASE ReportInstallFailed
    BY <1>18 DEF ReportInstallFailed
  <1>19. CASE Rollback
    BY <1>19 DEF Rollback
  <1>20. CASE RollbackFails
    BY <1>20 DEF RollbackFails
  <1>21. CASE Reprobe
    BY <1>21 DEF Reprobe, ProbeSucceeds, ProbeFails
  <1>22. CASE RolledBack
    BY <1>22 DEF RolledBack
  <1>23. CASE GiveUp
    BY <1>23 DEF GiveUp
  <1>24. CASE Cut
    BY <1>24 DEF Cut
  <1>25. CASE Release
    BY <1>25 DEF Release
  <1>26. CASE Pin
    BY <1>26 DEF Pin
  <1>27. CASE UNCHANGED vars
    BY <1>27 DEF vars
  <1>28. QED
    BY <1>1, <1>2, <1>3, <1>4, <1>5, <1>6, <1>7, <1>8, <1>9, <1>10, <1>11,
       <1>12, <1>13, <1>14, <1>15, <1>16, <1>17, <1>18, <1>19, <1>20, <1>21,
       <1>22, <1>23, <1>24, <1>25, <1>26, <1>27
       DEF Next, Runs

(* The run's verdict about its target. *)
LEMMA SuspectStep ==
    ASSUME TypeOK, SuspectInv, [Next]_vars
    PROVE  SuspectInv'
  <1> USE UpdaterAssumption
          DEF TypeOK, SuspectInv, Undecided, Failed, run, station, outside
  <1>1. CASE Start
    BY <1>1 DEF Start
  <1>2. CASE \E s \in {"skipped-install", "skipped-no-user"} : Skip(s)
    BY <1>2 DEF Skip
  <1>3. CASE ReadReceipt
    BY <1>3 DEF ReadReceipt
  <1>4. CASE \E s \in {"manifest-fetch-failed", "manifest-invalid"} : ManifestFails(s)
    BY <1>4 DEF ManifestFails
  <1>5. CASE ReadManifest
    <2>1. CASE ReadManifest /\ latest = base
      BY <2>1 DEF ReadManifest
    <2>2. CASE ReadManifest /\ latest # base /\ latest \in bad
      BY <2>2 DEF ReadManifest
    <2>3. CASE ReadManifest /\ latest # base /\ latest \notin bad
      BY <2>3 DEF ReadManifest
    <2>4. QED
      BY <1>5, <2>1, <2>2, <2>3 DEF ReadManifest
  <1>6. CASE EnsureCache
    BY <1>6 DEF EnsureCache
  <1>7. CASE EnsureCacheFails
    BY <1>7 DEF EnsureCacheFails
  <1>8. CASE StoreRollback
    <2>1. CASE Store("pkg", "pkg", base, "version")
      BY <2>1 DEF Store
    <2>2. CASE Store("version", "version", base, "sha")
      BY <2>2 DEF Store
    <2>3. CASE Store("sha", "sha", base, "fetch")
      BY <2>3 DEF Store
    <2>4. QED
      BY <1>8, <2>1, <2>2, <2>3 DEF StoreRollback
  <1>9. CASE StoreSlips
    BY <1>9 DEF StoreSlips
  <1>10. CASE FetchPackage
    BY <1>10 DEF FetchPackage
  <1>11. CASE \E s \in {"package-fetch-failed", "checksum-failed", "trust-failed"} : FetchFails(s)
    BY <1>11 DEF FetchFails
  <1>12. CASE Install
    BY <1>12 DEF Install
  <1>13. CASE InstallFails
    BY <1>13 DEF InstallFails
  <1>14. CASE Probe
    <2>1. CASE ProbeSucceeds("probe", target, "kept pkg")
      BY <2>1 DEF ProbeSucceeds
    <2>2. CASE ProbeFails("probe", target, "quarantine")
      BY <2>2 DEF ProbeFails
    <2>3. QED
      BY <1>14, <2>1, <2>2 DEF Probe
  <1>15. CASE StoreUpdate
    <2>1. CASE Store("kept pkg", "pkg", target, "kept version")
      BY <2>1 DEF Store
    <2>2. CASE Store("kept version", "version", target, "kept sha")
      BY <2>2 DEF Store
    <2>3. CASE Store("kept sha", "sha", target, "updated")
      BY <2>3 DEF Store
    <2>4. QED
      BY <1>15, <2>1, <2>2, <2>3 DEF StoreUpdate
  <1>16. CASE Updated
    BY <1>16 DEF Updated
  <1>17. CASE Quarantine
    BY <1>17 DEF Quarantine
  <1>18. CASE ReportInstallFailed
    BY <1>18 DEF ReportInstallFailed
  <1>19. CASE Rollback
    BY <1>19 DEF Rollback
  <1>20. CASE RollbackFails
    BY <1>20 DEF RollbackFails
  <1>21. CASE Reprobe
    BY <1>21 DEF Reprobe, ProbeSucceeds, ProbeFails
  <1>22. CASE RolledBack
    BY <1>22 DEF RolledBack
  <1>23. CASE GiveUp
    BY <1>23 DEF GiveUp
  <1>24. CASE Cut
    BY <1>24 DEF Cut
  <1>25. CASE Release
    BY <1>25 DEF Release
  <1>26. CASE Pin
    BY <1>26 DEF Pin
  <1>27. CASE UNCHANGED vars
    BY <1>27 DEF vars
  <1>28. QED
    BY <1>1, <1>2, <1>3, <1>4, <1>5, <1>6, <1>7, <1>8, <1>9, <1>10, <1>11,
       <1>12, <1>13, <1>14, <1>15, <1>16, <1>17, <1>18, <1>19, <1>20, <1>21,
       <1>22, <1>23, <1>24, <1>25, <1>26, <1>27
       DEF Next, Runs

(* The published verdict, as long as no run is cut. *)
LEMMA PublicStep ==
    ASSUME TypeOK, SuspectInv, PublicInv, Uncut', [Next]_vars
    PROVE  PublicInv'
  <1> USE UpdaterAssumption
          DEF TypeOK, SuspectInv, PublicInv, Undecided, Failed, Fault,
              WriteStatus, PublishAbout, run, station, outside
  <1>1. CASE Start
    BY <1>1 DEF Start
  <1>2. CASE \E s \in {"skipped-install", "skipped-no-user"} : Skip(s)
    BY <1>2 DEF Skip
  <1>3. CASE ReadReceipt
    BY <1>3 DEF ReadReceipt
  <1>4. CASE \E s \in {"manifest-fetch-failed", "manifest-invalid"} : ManifestFails(s)
    BY <1>4 DEF ManifestFails
  <1>5. CASE ReadManifest
    <2>1. CASE latest = base
      <3>1. published'.latest = latest /\ published'.quarantined = (latest \in bad) /\ bad' = bad
        BY <1>5, <2>1 DEF ReadManifest
      <3>2. QED
        BY <3>1, Zenon
    <2>2. CASE latest # base /\ latest \in bad
      <3>1. /\ published' = [status |-> "quarantined", latest |-> latest, quarantined |-> TRUE]
            /\ bad' = bad
        BY <1>5, <2>2 DEF ReadManifest
      <3>2. QED
        BY <2>2, <3>1
    <2>3. CASE latest # base /\ latest \notin bad
      BY <1>5, <2>3 DEF ReadManifest
    <2>4. QED
      BY <2>1, <2>2, <2>3
  <1>6. CASE EnsureCache
    BY <1>6 DEF EnsureCache
  <1>7. CASE EnsureCacheFails
    BY <1>7 DEF EnsureCacheFails
  <1>8. CASE StoreRollback
    <2>1. CASE Store("pkg", "pkg", base, "version")
      BY <2>1 DEF Store
    <2>2. CASE Store("version", "version", base, "sha")
      BY <2>2 DEF Store
    <2>3. CASE Store("sha", "sha", base, "fetch")
      BY <2>3 DEF Store
    <2>4. QED
      BY <1>8, <2>1, <2>2, <2>3 DEF StoreRollback
  <1>9. CASE StoreSlips
    <2>1. CASE pc = "sha"
      <3>1. CASE pc' = "fetch" /\ UNCHANGED published
        BY <1>9, <2>1, <3>1 DEF StoreSlips
      <3>2. CASE WriteStatus("rollback-cache-failed") /\ pc' = "idle"
        BY <1>9, <2>1, <3>2 DEF StoreSlips
      <3>3. QED
        BY <1>9, <2>1, <3>1, <3>2 DEF StoreSlips
    <2>2. CASE pc # "sha"
      BY <1>9, <2>2 DEF StoreSlips
    <2>3. QED
      BY <2>1, <2>2
  <1>10. CASE FetchPackage
    BY <1>10 DEF FetchPackage
  <1>11. CASE \E s \in {"package-fetch-failed", "checksum-failed", "trust-failed"} : FetchFails(s)
    BY <1>11 DEF FetchFails
  <1>12. CASE Install
    BY <1>12 DEF Install
  <1>13. CASE InstallFails
    BY <1>13 DEF InstallFails
  <1>14. CASE Probe
    <2>1. CASE ProbeSucceeds("probe", target, "kept pkg")
      BY <2>1 DEF ProbeSucceeds
    <2>2. CASE ProbeFails("probe", target, "quarantine")
      BY <2>2 DEF ProbeFails
    <2>3. QED
      BY <1>14, <2>1, <2>2 DEF Probe
  <1>15. CASE StoreUpdate
    <2>1. CASE Store("kept pkg", "pkg", target, "kept version")
      BY <2>1 DEF Store
    <2>2. CASE Store("kept version", "version", target, "kept sha")
      BY <2>2 DEF Store
    <2>3. CASE Store("kept sha", "sha", target, "updated")
      BY <2>3 DEF Store
    <2>4. QED
      BY <1>15, <2>1, <2>2, <2>3 DEF StoreUpdate
  <1>16. CASE Updated
    BY <1>16 DEF Updated
  <1>17. CASE Quarantine
    BY <1>17 DEF Quarantine
  <1>18. CASE ReportInstallFailed
    BY <1>18 DEF ReportInstallFailed
  <1>19. CASE Rollback
    BY <1>19 DEF Rollback
  <1>20. CASE RollbackFails
    BY <1>20 DEF RollbackFails
  <1>21. CASE Reprobe
    <2>1. CASE ProbeSucceeds("reprobe", base, "rolled back")
      BY <2>1 DEF ProbeSucceeds
    <2>2. CASE ProbeFails("reprobe", base, "rollback failed")
      BY <2>2 DEF ProbeFails
    <2>3. QED
      BY <1>21, <2>1, <2>2 DEF Reprobe
  <1>22. CASE RolledBack
    BY <1>22 DEF RolledBack
  <1>23. CASE GiveUp
    BY <1>23 DEF GiveUp
  <1>24. CASE Cut
    BY <1>24, FaultShows DEF Cut, Uncut
  <1>25. CASE Release
    BY <1>25 DEF Release
  <1>26. CASE Pin
    BY <1>26 DEF Pin
  <1>27. CASE UNCHANGED vars
    BY <1>27 DEF vars
  <1>28. QED
    BY <1>1, <1>2, <1>3, <1>4, <1>5, <1>6, <1>7, <1>8, <1>9, <1>10, <1>11,
       <1>12, <1>13, <1>14, <1>15, <1>16, <1>17, <1>18, <1>19, <1>20, <1>21,
       <1>22, <1>23, <1>24, <1>25, <1>26, <1>27
       DEF Next, Runs

(* The three files of a build that was kept. *)
LEMMA KeptStep ==
    ASSUME TypeOK, RunInv, KeptInv, [Next]_vars
    PROVE  KeptInv'
  <1> USE UpdaterAssumption
          DEF TypeOK, RunInv, KeptInv, Files, Keeping, Undecided, run,
              station, outside
  <1>1. CASE Start
    BY <1>1 DEF Start
  <1>2. CASE \E s \in {"skipped-install", "skipped-no-user"} : Skip(s)
    BY <1>2 DEF Skip
  <1>3. CASE ReadReceipt
    BY <1>3 DEF ReadReceipt
  <1>4. CASE \E s \in {"manifest-fetch-failed", "manifest-invalid"} : ManifestFails(s)
    BY <1>4 DEF ManifestFails
  <1>5. CASE ReadManifest
    BY <1>5 DEF ReadManifest
  <1>6. CASE EnsureCache
    BY <1>6 DEF EnsureCache
  <1>7. CASE EnsureCacheFails
    BY <1>7 DEF EnsureCacheFails
  <1>8. CASE StoreRollback
    BY <1>8 DEF StoreRollback, Store
  <1>9. CASE StoreSlips
    BY <1>9 DEF StoreSlips
  <1>10. CASE FetchPackage
    BY <1>10 DEF FetchPackage
  <1>11. CASE \E s \in {"package-fetch-failed", "checksum-failed", "trust-failed"} : FetchFails(s)
    BY <1>11 DEF FetchFails
  <1>12. CASE Install
    BY <1>12 DEF Install
  <1>13. CASE InstallFails
    BY <1>13 DEF InstallFails
  <1>14. CASE Probe
    BY <1>14 DEF Probe, ProbeSucceeds, ProbeFails
  <1>15. CASE StoreUpdate
    BY <1>15 DEF StoreUpdate, Store
  <1>16. CASE Updated
    BY <1>16 DEF Updated
  <1>17. CASE Quarantine
    BY <1>17 DEF Quarantine
  <1>18. CASE ReportInstallFailed
    BY <1>18 DEF ReportInstallFailed
  <1>19. CASE Rollback
    BY <1>19 DEF Rollback
  <1>20. CASE RollbackFails
    BY <1>20 DEF RollbackFails
  <1>21. CASE Reprobe
    BY <1>21 DEF Reprobe, ProbeSucceeds, ProbeFails
  <1>22. CASE RolledBack
    BY <1>22 DEF RolledBack
  <1>23. CASE GiveUp
    BY <1>23 DEF GiveUp
  <1>24. CASE Cut
    BY <1>24 DEF Cut
  <1>25. CASE Release
    BY <1>25 DEF Release
  <1>26. CASE Pin
    BY <1>26 DEF Pin
  <1>27. CASE UNCHANGED vars
    BY <1>27 DEF vars
  <1>28. QED
    BY <1>1, <1>2, <1>3, <1>4, <1>5, <1>6, <1>7, <1>8, <1>9, <1>10, <1>11,
       <1>12, <1>13, <1>14, <1>15, <1>16, <1>17, <1>18, <1>19, <1>20, <1>21,
       <1>22, <1>23, <1>24, <1>25, <1>26, <1>27
       DEF Next, Runs

(* The cache, as long as no rename fails unseen. *)
LEMMA CacheStep ==
    ASSUME TypeOK, RunInv, KeptInv, CacheInv, "store" \notin Failing \/ faults' = 0, [Next]_vars
    PROVE  CacheInv'
  <1> USE UpdaterAssumption, FaultShows
          DEF TypeOK, RunInv, KeptInv, CacheInv, Whole, Filling, Files,
              Undecided, Keeping, BeforeReplacement, CacheIsGood, run,
              station, outside
  <1>1. CASE Start
    BY <1>1 DEF Start
  <1>2. CASE \E s \in {"skipped-install", "skipped-no-user"} : Skip(s)
    BY <1>2 DEF Skip
  <1>3. CASE ReadReceipt
    BY <1>3 DEF ReadReceipt
  <1>4. CASE \E s \in {"manifest-fetch-failed", "manifest-invalid"} : ManifestFails(s)
    BY <1>4 DEF ManifestFails
  <1>5. CASE ReadManifest
    BY <1>5 DEF ReadManifest
  <1>6. CASE EnsureCache
    BY <1>6 DEF EnsureCache
  <1>7. CASE EnsureCacheFails
    BY <1>7 DEF EnsureCacheFails
  <1>8. CASE StoreRollback
    BY <1>8 DEF StoreRollback, Store
  <1>9. CASE StoreSlips
    BY <1>9, SlipShows DEF StoreSlips
  <1>10. CASE FetchPackage
    BY <1>10 DEF FetchPackage
  <1>11. CASE \E s \in {"package-fetch-failed", "checksum-failed", "trust-failed"} : FetchFails(s)
    BY <1>11 DEF FetchFails
  <1>12. CASE Install
    BY <1>12 DEF Install
  <1>13. CASE InstallFails
    BY <1>13 DEF InstallFails
  <1>14. CASE Probe
    BY <1>14 DEF Probe, ProbeSucceeds, ProbeFails
  <1>15. CASE StoreUpdate
    BY <1>15 DEF StoreUpdate, Store
  <1>16. CASE Updated
    BY <1>16 DEF Updated
  <1>17. CASE Quarantine
    BY <1>17 DEF Quarantine
  <1>18. CASE ReportInstallFailed
    BY <1>18 DEF ReportInstallFailed
  <1>19. CASE Rollback
    BY <1>19 DEF Rollback
  <1>20. CASE RollbackFails
    BY <1>20 DEF RollbackFails
  <1>21. CASE Reprobe
    BY <1>21 DEF Reprobe, ProbeSucceeds, ProbeFails
  <1>22. CASE RolledBack
    BY <1>22 DEF RolledBack
  <1>23. CASE GiveUp
    BY <1>23 DEF GiveUp
  <1>24. CASE Cut
    BY <1>24 DEF Cut
  <1>25. CASE Release
    BY <1>25 DEF Release
  <1>26. CASE Pin
    BY <1>26 DEF Pin
  <1>27. CASE UNCHANGED vars
    BY <1>27 DEF vars
  <1>28. QED
    BY <1>1, <1>2, <1>3, <1>4, <1>5, <1>6, <1>7, <1>8, <1>9, <1>10, <1>11,
       <1>12, <1>13, <1>14, <1>15, <1>16, <1>17, <1>18, <1>19, <1>20, <1>21,
       <1>22, <1>23, <1>24, <1>25, <1>26, <1>27
       DEF Next, Runs

(* Without failures, what is installed has answered a probe. *)
LEMMA ProvenStep ==
    ASSUME TypeOK, RunInv, ProvenInv, faults = 0 => CacheInv, [Next]_vars
    PROVE  ProvenInv'
  <1> USE UpdaterAssumption, FaultShows
          DEF TypeOK, RunInv, ProvenInv, CacheInv, Whole, Replacing,
              Undecided, Keeping, BeforeReplacement, CacheIsGood, run,
              station, outside
  <1>1. CASE Start
    BY <1>1 DEF Start
  <1>2. CASE \E s \in {"skipped-install", "skipped-no-user"} : Skip(s)
    BY <1>2 DEF Skip
  <1>3. CASE ReadReceipt
    BY <1>3 DEF ReadReceipt
  <1>4. CASE \E s \in {"manifest-fetch-failed", "manifest-invalid"} : ManifestFails(s)
    BY <1>4 DEF ManifestFails
  <1>5. CASE ReadManifest
    BY <1>5 DEF ReadManifest
  <1>6. CASE EnsureCache
    BY <1>6 DEF EnsureCache
  <1>7. CASE EnsureCacheFails
    BY <1>7 DEF EnsureCacheFails
  <1>8. CASE StoreRollback
    <2>1. CASE Store("pkg", "pkg", base, "version")
      BY <2>1 DEF Store
    <2>2. CASE Store("version", "version", base, "sha")
      BY <2>2 DEF Store
    <2>3. CASE Store("sha", "sha", base, "fetch")
      BY <2>3 DEF Store
    <2>4. QED
      BY <1>8, <2>1, <2>2, <2>3 DEF StoreRollback
  <1>9. CASE StoreSlips
    BY <1>9 DEF StoreSlips
  <1>10. CASE FetchPackage
    BY <1>10 DEF FetchPackage
  <1>11. CASE \E s \in {"package-fetch-failed", "checksum-failed", "trust-failed"} : FetchFails(s)
    BY <1>11 DEF FetchFails
  <1>12. CASE Install
    BY <1>12 DEF Install
  <1>13. CASE InstallFails
    BY <1>13 DEF InstallFails
  <1>14. CASE Probe
    <2>1. CASE ProbeSucceeds("probe", target, "kept pkg")
      BY <2>1 DEF ProbeSucceeds
    <2>2. CASE ProbeFails("probe", target, "quarantine")
      BY <2>2 DEF ProbeFails
    <2>3. QED
      BY <1>14, <2>1, <2>2 DEF Probe
  <1>15. CASE StoreUpdate
    <2>1. CASE Store("kept pkg", "pkg", target, "kept version")
      BY <2>1 DEF Store
    <2>2. CASE Store("kept version", "version", target, "kept sha")
      BY <2>2 DEF Store
    <2>3. CASE Store("kept sha", "sha", target, "updated")
      BY <2>3 DEF Store
    <2>4. QED
      BY <1>15, <2>1, <2>2, <2>3 DEF StoreUpdate
  <1>16. CASE Updated
    BY <1>16 DEF Updated
  <1>17. CASE Quarantine
    BY <1>17 DEF Quarantine
  <1>18. CASE ReportInstallFailed
    BY <1>18 DEF ReportInstallFailed
  <1>19. CASE Rollback
    BY <1>19 DEF Rollback
  <1>20. CASE RollbackFails
    <2>1. faults = 0 => CacheIsGood(base)
      BY <1>20 DEF RollbackFails
    <2>2. faults' # 0
      BY <1>20, <2>1 DEF RollbackFails
    <2>3. proven' => installed' \in Working
      BY <1>20 DEF RollbackFails
    <2>4. QED
      BY <2>2, <2>3
  <1>21. CASE Reprobe
    <2>1. CASE ProbeSucceeds("reprobe", base, "rolled back")
      BY <2>1 DEF ProbeSucceeds
    <2>2. CASE ProbeFails("reprobe", base, "rollback failed")
      BY <2>2 DEF ProbeFails
    <2>3. QED
      BY <1>21, <2>1, <2>2 DEF Reprobe
  <1>22. CASE RolledBack
    BY <1>22 DEF RolledBack
  <1>23. CASE GiveUp
    BY <1>23 DEF GiveUp
  <1>24. CASE Cut
    BY <1>24 DEF Cut
  <1>25. CASE Release
    BY <1>25 DEF Release
  <1>26. CASE Pin
    BY <1>26 DEF Pin
  <1>27. CASE UNCHANGED vars
    BY <1>27 DEF vars
  <1>28. QED
    BY <1>1, <1>2, <1>3, <1>4, <1>5, <1>6, <1>7, <1>8, <1>9, <1>10, <1>11,
       <1>12, <1>13, <1>14, <1>15, <1>16, <1>17, <1>18, <1>19, <1>20, <1>21,
       <1>22, <1>23, <1>24, <1>25, <1>26, <1>27
       DEF Next, Runs

-----------------------------------------------------------------------------
UpdateInv ==
    /\ TypeOK /\ RunInv /\ SuspectInv /\ KeptInv /\ ProvenInv
    /\ NoSlip => CacheInv
    /\ Uncut => PublicInv

(* It holds at first, *)
LEMMA UpdateInit == Init => UpdateInv
  <1> SUFFICES ASSUME Init PROVE UpdateInv
    OBVIOUS
  <1> USE UpdaterAssumption DEF Init
  <1>1. published \in Publications
    BY DEF Publications, Outcomes
  <1>2. cache \in Files
    BY DEF Files
  <1>3. faults \in 0..MaxFaults /\ releases \in 0..MaxReleases
    OBVIOUS
  <1>4. TypeOK
    BY <1>1, <1>2, <1>3 DEF TypeOK, Steps
  <1>5. RunInv /\ SuspectInv /\ KeptInv /\ ProvenInv
    BY DEF RunInv, SuspectInv, KeptInv, ProvenInv, Undecided, BeforeReplacement, Keeping,
           Failed, Replacing
  <1>6. CacheInv /\ PublicInv
    BY DEF CacheInv, Whole, PublicInv, Undecided
  <1>7. QED
    BY <1>4, <1>5, <1>6 DEF UpdateInv

(* every step keeps it, *)
LEMMA UpdateStep == UpdateInv /\ [Next]_vars => UpdateInv'
  <1> SUFFICES ASSUME UpdateInv, [Next]_vars PROVE UpdateInv'
    OBVIOUS
  <1>1. TypeOK' /\ RunInv' /\ SuspectInv' /\ KeptInv'
    BY TypeStep, RunStep, SuspectStep, KeptStep DEF UpdateInv
  <1>2. ProvenInv'
    BY ProvenStep DEF UpdateInv, NoSlip
  <1>3. ASSUME NoSlip'
        PROVE  CacheInv'
    <2>1. NoSlip
      BY <1>3, FaultsGrow DEF UpdateInv, NoSlip
    <2>2. QED
      BY <1>3, <2>1, CacheStep DEF UpdateInv, NoSlip
  <1>4. ASSUME Uncut'
        PROVE  PublicInv'
    <2>1. Uncut
      BY <1>4, FaultsGrow DEF UpdateInv, Uncut
    <2>2. QED
      BY <1>4, <2>1, PublicStep DEF UpdateInv
  <1>5. QED
    BY <1>1, <1>2, <1>3, <1>4 DEF UpdateInv

(* and so it always holds. *)
LEMMA UpdateAlways == Spec => []UpdateInv
  BY UpdateInit, UpdateStep, PTL DEF Spec

-----------------------------------------------------------------------------
(* A run never loses track of its versions: whatever fails, is published or  *)
(* is cut, every variable keeps its type (src/packaging/updater.sh.in).      *)
THEOREM UpdaterTypeCorrect == Spec => []TypeOK
  <1>1. UpdateInv => TypeOK
    BY DEF UpdateInv
  <1>2. QED
    BY <1>1, UpdateAlways, PTL

(* The cache passes cache_is_good for no version but the one whose package   *)
(* it holds, however many runs were cut between its three renames, as long   *)
(* as no failing rename goes unseen (src/packaging/updater.sh.in:247-277).   *)
THEOREM CacheNeverLies ==
    ASSUME "store" \notin Failing
    PROVE  Spec => []CacheIsWhatItSays
  <1>1. UpdateInv => CacheIsWhatItSays
    BY UpdaterAssumption
       DEF UpdateInv, NoSlip, CacheInv, Whole, Filling, CacheIsWhatItSays, CacheIsGood
  <1>2. QED
    BY <1>1, UpdateAlways, PTL

(* No build is replaced before a verified package of it is in the cache, as  *)
(* long as no failing rename goes unseen (updater.sh.in:430-435).            *)
THEOREM NothingReplacedWithoutRollback ==
    ASSUME "store" \notin Failing
    PROVE  Spec => []ReplacementHasRollback
  <1>1. UpdateInv => ReplacementHasRollback
    BY UpdaterAssumption
       DEF UpdateInv, NoSlip, TypeOK, RunInv, CacheInv, Whole, ReplacementHasRollback,
           CacheIsGood, Undecided, Keeping
  <1>2. QED
    BY <1>1, UpdateAlways, PTL

(* If nothing fails but the released builds themselves, however they follow  *)
(* one another, every run leaves a build that has answered a probe.          *)
THEOREM ProvenWithoutFailures == Spec => []ProvenBetweenRuns
  <1>1. UpdateInv => ProvenBetweenRuns
    BY DEF UpdateInv, ProvenInv, Replacing, ProvenBetweenRuns
  <1>2. QED
    BY <1>1, UpdateAlways, PTL

(* The public file says "quarantined" of a version if and only if the list   *)
(* does, between any two runs, if no run is cut (updater.sh.in:112, 286-296).*)
THEOREM PublishedVerdictIsTheLists == Spec => []PublishedQuarantine
  <1>1. UpdateInv => PublishedQuarantine
    BY DEF UpdateInv, Uncut, PublicInv, PublishedQuarantine
  <1>2. QED
    BY <1>1, UpdateAlways, PTL

(* The build on the station becomes a quarantined one only by the rollback   *)
(* of an update that has failed and is quarantined too, for any releases,    *)
(* failures and cuts.                                                        *)
THEOREM QuarantineIsKept == Spec => QuarantineHolds
  <1>1. ASSUME UpdateInv, [Next]_vars, installed' # installed, installed' \in bad
        PROVE  pc = "rollback" /\ target \in bad
    <2>1. \/ pc = "install" /\ installed' = target
          \/ pc = "rollback"
      BY <1>1 DEF Next, Runs, Start, Skip, ReadReceipt, ManifestFails, ReadManifest,
                  EnsureCache, EnsureCacheFails, StoreRollback, StoreUpdate, Store,
                  StoreSlips, FetchPackage, FetchFails, Install, InstallFails, Probe,
                  ProbeSucceeds, ProbeFails, Updated, Quarantine, ReportInstallFailed,
                  Rollback, RollbackFails, Reprobe, RolledBack, GiveUp, Cut, Release,
                  Pin, vars, station
    <2>2. pc # "install"
      BY <1>1, <2>1 DEF UpdateInv, SuspectInv, Undecided, Failed
    <2>3. QED
      BY <1>1, <2>1, <2>2 DEF UpdateInv, SuspectInv, Failed
  <1>2. UpdateInv /\ [Next]_vars
            => [installed' # installed /\ installed' \in bad
                   => pc = "rollback" /\ target \in bad]_vars
    BY <1>1
  <1>3. QED
    BY <1>2, UpdateAlways, PTL DEF Spec, QuarantineHolds

(* "updated" and "rolled-back" are published of a probed build only, the one *)
(* that is installed, and the first only with its rollback package in place. *)
THEOREM OutcomesAreProven == Spec => OutcomesAreTrue
  <1>1. ASSUME UpdateInv, Updated
        PROVE  proven /\ installed = target /\ CacheIsGood(target)
    BY <1>1 DEF UpdateInv, Updated, RunInv, KeptInv, Keeping, CacheIsGood, Undecided
  <1>2. ASSUME UpdateInv, RolledBack
        PROVE  proven /\ installed = base /\ target \in bad
    BY <1>2 DEF UpdateInv, RolledBack, RunInv, SuspectInv, Failed
  <1>3. UpdateInv /\ [Next]_vars
            => [/\ Updated => proven /\ installed = target /\ CacheIsGood(target)
                /\ RolledBack => proven /\ installed = base /\ target \in bad]_vars
    BY <1>1, <1>2
  <1>4. QED
    BY <1>3, UpdateAlways, PTL DEF Spec, OutcomesAreTrue

-----------------------------------------------------------------------------
(* What the reader relies on: a publication without a version has no verdict,*)
(* a file that was once there stays, and what was read of it is what is      *)
(* public, unless the file was replaced since the request began.             *)
VerdictHasVersion == published.latest = None => ~published.quarantined

Agrees ==
    /\ report.status = published.status
    /\ report.latest = published.latest
    /\ (report.quarantined = "absent" <=> published.latest = None)
    /\ (report.quarantined = "true" <=> published.quarantined)

ReaderInv ==
    /\ stage \in {"idle", "stat", "pin", "answer"}
    /\ report \in [status : Outcomes, latest : Versions \cup {None},
                   quarantined : {"absent", "true", "false"}, pinned : BOOLEAN]
    /\ VerdictHasVersion
    /\ stage = "stat" => published.status # "none"
    /\ stage = "pin" => replaced \/ Agrees
    /\ ReportIsTrue

(* A publication names an outcome, and a verdict only with a version.        *)
LEMMA Publishes ==
    ASSUME UpdateInv, VerdictHasVersion, [Next]_vars
    PROVE  /\ VerdictHasVersion'
           /\ published' = published \/ published'.status # "none"
  <1> USE UpdaterAssumption DEF UpdateInv, VerdictHasVersion, TypeOK, RunInv, SuspectInv,
              Undecided, BeforeReplacement, PublishAbout, WriteStatus, Publications
  <1>1. CASE Start \/ Cut \/ Release \/ Pin \/ UNCHANGED vars
    BY <1>1 DEF Start, Cut, Release, Pin, vars
  <1>2. CASE ReadManifest
    <2>1. \/ UNCHANGED published
          \/ \E status \in {"current", "quarantined"} : \E q :
                 PublishAbout(status, latest, q)
      BY <1>2 DEF ReadManifest
    <2>2. latest \in Versions
      OBVIOUS
    <2>3. ASSUME NEW status \in {"current", "quarantined"}, NEW q,
                 PublishAbout(status, latest, q)
          PROVE  published'.latest # None /\ published'.status # "none"
      BY <2>2, <2>3
    <2>4. QED
      BY <2>1, <2>3
  <1>3. CASE \/ \E s \in {"skipped-install", "skipped-no-user"} : Skip(s)
             \/ \E s \in {"manifest-fetch-failed", "manifest-invalid"} : ManifestFails(s)
    <2>1. PICK s \in Outcomes \ {"none"} : WriteStatus(s)
      BY <1>3 DEF Skip, ManifestFails, Outcomes
    <2>2. target = None /\ ~suspect
      BY <1>3 DEF Skip, ManifestFails
    <2>3. QED
      BY <2>1, <2>2
  <1>4. ASSUME target \in Versions, \E s \in Outcomes \ {"none"} : WriteStatus(s)
        PROVE  VerdictHasVersion' /\ published'.status # "none"
    <2>1. PICK s \in Outcomes \ {"none"} : WriteStatus(s)
      BY <1>4
    <2>2. published'.status = s /\ published'.latest = target
      BY <2>1
    <2>3. QED
      BY <1>4, <2>2
  <1>5. CASE EnsureCacheFails \/ StoreSlips
    <2>1. target \in Versions
      BY <1>5 DEF EnsureCacheFails, StoreSlips
    <2>2. UNCHANGED published \/ WriteStatus("rollback-cache-failed")
      BY <1>5 DEF EnsureCacheFails, StoreSlips
    <2>3. QED
      BY <1>4, <2>1, <2>2 DEF Outcomes
  <1>6. CASE \E s \in {"package-fetch-failed", "checksum-failed", "trust-failed"} : FetchFails(s)
    BY <1>4, <1>6 DEF FetchFails, Outcomes
  <1>7. CASE Updated \/ ReportInstallFailed \/ RolledBack \/ GiveUp
    BY <1>4, <1>7 DEF Updated, ReportInstallFailed, RolledBack, GiveUp, Outcomes
  <1>8. CASE \/ ReadReceipt \/ EnsureCache \/ StoreRollback \/ FetchPackage
             \/ Install \/ InstallFails \/ Probe \/ StoreUpdate
             \/ Quarantine \/ Rollback \/ RollbackFails \/ Reprobe
    BY <1>8 DEF ReadReceipt, EnsureCache, StoreRollback, Store, FetchPackage, Install,
                InstallFails, Probe, ProbeSucceeds, ProbeFails, StoreUpdate, Quarantine,
                Rollback, RollbackFails, Reprobe
  <1>9. QED
    BY <1>1, <1>2, <1>3, <1>5, <1>6, <1>7, <1>8 DEF Next, Runs

(* The Go parser takes every file the shell script writes, and its report    *)
(* says what the file does.                                                  *)
LEMMA ParsesWhatIsWritten ==
    ASSUME UpdateInv, ReaderInv, published.status # "none"
    PROVE  /\ Parses(Text(published))
           /\ Quarantined(Text(published)) \in {"absent", "true", "false"}
           /\ Quarantined(Text(published)) = "absent" <=> published.latest = None
           /\ Quarantined(Text(published)) = "true" <=> published.quarantined
  <1>1. /\ published.status \in Outcomes \ {"none"}
        /\ published.quarantined \in BOOLEAN
        /\ VerdictHasVersion
    BY DEF UpdateInv, TypeOK, Publications, ReaderInv
  <1>2. ValidUpdateStatus(published.status)
    BY <1>1 DEF ValidUpdateStatus, Outcomes
  <1>3. /\ Text(published).status = published.status
        /\ Text(published).latest = published.latest
        /\ Text(published).quarantine = IF published.latest = None THEN "unknown"
                                        ELSE IF published.quarantined THEN "true" ELSE "false"
    BY DEF Text
  <1>4. QED
    BY <1>1, <1>2, <1>3 DEF Parses, Quarantined, VerdictHasVersion

(* Each step of a read, and any step of the updater meanwhile.               *)
LEMMA ReaderStep ==
    ASSUME UpdateInv, ReaderInv, [ReportNext]_reportVars
    PROVE  ReaderInv'
  <1> USE UpdaterAssumption DEF ReaderInv
  <1>1. CASE Lstat
    <2>1. CASE Omit /\ hindered' /\ UNCHANGED <<vars, replaced>>
      BY <2>1 DEF Omit, Absent, vars, VerdictHasVersion, ReportIsTrue, Outcomes
    <2>2. CASE /\ published.status # "none" /\ stage' = "stat"
               /\ UNCHANGED <<vars, report, replaced>>
      BY <2>2 DEF vars, VerdictHasVersion, ReportIsTrue
    <2>3. QED
      BY <1>1, <2>1, <2>2 DEF Lstat
  <1>2. CASE Open
    <2>1. stage = "stat" /\ published.status # "none" /\ UNCHANGED <<vars, replaced>>
      BY <1>2 DEF Open
    <2>2. CASE Omit /\ hindered'
      BY <2>1, <2>2 DEF Omit, Absent, vars, VerdictHasVersion, ReportIsTrue, Outcomes
    <2>3. CASE /\ stage' = "pin"
               /\ report' = [Absent EXCEPT !.status = Text(published).status,
                                           !.latest = Text(published).latest,
                                           !.quarantined = Quarantined(Text(published))]
      <3>1. /\ report'.status = published.status
            /\ report'.latest = published.latest
            /\ report'.quarantined = Quarantined(Text(published))
            /\ report' = [status |-> published.status, latest |-> published.latest,
                          quarantined |-> Quarantined(Text(published)), pinned |-> FALSE]
        BY <2>3 DEF Absent, Text
      <3>2. published' = published
        BY <2>1 DEF vars
      <3>3. Agrees'
        BY <2>1, <3>1, <3>2, ParsesWhatIsWritten DEF Agrees
      <3>4. /\ published.status \in Outcomes /\ published.latest \in Versions \cup {None}
            /\ Quarantined(Text(published)) \in {"absent", "true", "false"}
        BY <2>1, ParsesWhatIsWritten DEF UpdateInv, TypeOK, Publications
      <3>5. report' \in [status : Outcomes, latest : Versions \cup {None},
                         quarantined : {"absent", "true", "false"}, pinned : BOOLEAN]
        BY <3>1, <3>4
      <3>6. stage' = "pin" /\ VerdictHasVersion' /\ ReportIsTrue'
        BY <2>3, <3>2 DEF VerdictHasVersion, ReportIsTrue
      <3>7. QED
        BY <3>3, <3>5, <3>6
    <2>4. QED
      BY <1>2, <2>1, <2>2, <2>3, ParsesWhatIsWritten DEF Open
  <1>3. CASE ReadLaunchdPin
    <2>1. stage = "pin" /\ stage' = "answer" /\ UNCHANGED <<vars, replaced, repinned>>
      BY <1>3 DEF ReadLaunchdPin, Omit
    <2>2. CASE Omit /\ hindered'
      BY <2>1, <2>2 DEF Omit, Absent, vars, VerdictHasVersion, ReportIsTrue, Outcomes
    <2>3. CASE report' = [report EXCEPT !.pinned = pinned]
      <3>1. /\ report'.status = report.status
            /\ report'.latest = report.latest
            /\ report'.quarantined = report.quarantined
            /\ report'.pinned = pinned
        BY <2>3
      <3>2. UNCHANGED <<published, pinned, replaced>>
        BY <2>1 DEF vars
      <3>3. ReportIsTrue'
        BY <2>1, <3>1, <3>2 DEF Agrees, ReportIsTrue
      <3>4. report' \in [status : Outcomes, latest : Versions \cup {None},
                         quarantined : {"absent", "true", "false"}, pinned : BOOLEAN]
        BY <2>3 DEF UpdateInv, TypeOK
      <3>5. QED
        BY <2>1, <3>2, <3>3, <3>4 DEF VerdictHasVersion
    <2>4. QED
      BY <1>3, <2>2, <2>3 DEF ReadLaunchdPin
  <1>4. CASE Answer
    BY <1>4 DEF Answer, Absent, vars, VerdictHasVersion, ReportIsTrue, Outcomes
  <1>5. CASE Meanwhile
    <2>1. /\ [Next]_vars
          /\ UNCHANGED <<stage, report, hindered>>
          /\ stage # "idle" => /\ replaced \/ published' # published => replaced'
                               /\ repinned \/ pinned' # pinned => repinned'
      BY <1>5 DEF Meanwhile
    <2>2. VerdictHasVersion' /\ (published' = published \/ published'.status # "none")
      BY <2>1, Publishes
    <2>3. ReportIsTrue'
      <3>1. SUFFICES ASSUME stage = "answer", ~(report = Absent /\ hindered)
                     PROVE  ReportIsTrue'
        BY <2>1 DEF ReportIsTrue
      <3>2. replaced' \/ (published' = published /\ ~replaced)
        BY <2>1, <3>1
      <3>3. repinned' \/ (pinned' = pinned /\ ~repinned)
        BY <2>1, <3>1
      <3>4. QED
        BY <2>1, <3>1, <3>2, <3>3 DEF ReportIsTrue
    <2>4. (stage = "pin" => replaced \/ Agrees)'
      <3>1. SUFFICES ASSUME stage = "pin", ~replaced'
                     PROVE  Agrees'
        BY <2>1
      <3>2. published' = published /\ ~replaced
        BY <2>1, <3>1
      <3>3. QED
        BY <2>1, <3>1, <3>2 DEF Agrees
    <2>5. QED
      BY <2>1, <2>2, <2>3, <2>4
  <1>6. CASE UNCHANGED reportVars
    BY <1>6 DEF reportVars, reader, vars, VerdictHasVersion, ReportIsTrue, Agrees
  <1>7. QED
    BY <1>1, <1>2, <1>3, <1>4, <1>5, <1>6 DEF ReportNext, Read

(* A read is a stutter of the updater.                                       *)
LEMMA ReadingIsSafe ==
    ASSUME [ReportNext]_reportVars
    PROVE  [Next]_vars
  BY DEF ReportNext, Read, Lstat, Open, ReadLaunchdPin, Answer, Meanwhile, reportVars, vars

(* Whatever the requests of GET /health read, the updater is the updater: the*)
(* theorems above hold of it next to a reader too.                           *)
THEOREM ReadersDisturbNothing == ReportSpec => Spec
  <1>1. ReportInit => Init
    BY DEF ReportInit
  <1>2. [ReportNext]_reportVars => [Next]_vars
    BY ReadingIsSafe
  <1>3. QED
    BY <1>1, <1>2, PTL DEF ReportSpec, Spec

(* What the update object of GET /health says of the last run was public,    *)
(* all of it together, whatever run goes on and fails meanwhile, and the     *)
(* object is left out only for a reason of the station's                     *)
(* (src/update.go:45-47, 66-68, 170-181).                                    *)
THEOREM ReportsAreTrue == ReportSpec => []ReportIsTrue
  <1>1. ReportInit => UpdateInv /\ ReaderInv
    BY UpdateInit, UpdaterAssumption
       DEF ReportInit, Init, ReaderInv, VerdictHasVersion, Absent, ReportIsTrue, Outcomes
  <1>2. UpdateInv /\ ReaderInv /\ [ReportNext]_reportVars => UpdateInv' /\ ReaderInv'
    BY ReaderStep, ReadingIsSafe, UpdateStep
  <1>3. ReaderInv => ReportIsTrue
    BY DEF ReaderInv
  <1>4. QED
    BY <1>1, <1>2, <1>3, PTL DEF ReportSpec
=============================================================================
