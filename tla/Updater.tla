-------------------------------- MODULE Updater --------------------------------
(***************************************************************************)
(* The root updater (src/packaging/updater.sh.in): one short run at a time,  *)
(* started by launchd, that reads the installed receipt and the published    *)
(* manifest, makes sure the installed version's package is cached as a       *)
(* rollback target, installs the manifest's package, proves it with a health *)
(* probe, and otherwise quarantines it and reinstalls the cached package.    *)
(*                                                                         *)
(* A package is identified with the version it was published as; its digest  *)
(* names those bytes.  The cache is three files written one after another.   *)
(* What can fail is a set of kinds, all counted against one bound:           *)
(*   fetch    a download, or the verification of what was downloaded; or the *)
(*            run is skipped, another installation being under way           *)
(*   install  installer(8), or a working agent too slow for the probe        *)
(*   store    a file of the cache, where the shell does not stop at it       *)
(*   cut      the run ends: power, a signal, an unreadable receipt, or       *)
(*            `set -e` at a state file                                       *)
(***************************************************************************)
EXTENDS Integers

CONSTANTS Versions,     \* published versions
          Working,      \* those whose agent answers /health with its version
          First,        \* the version installed by hand
          None,         \* no package, no version
          Torn,         \* the bytes of a copy that was cut short
          Failing,      \* kinds of failure that may happen
          MaxFaults,    \* bound on the failures
          MaxReleases   \* bound on the changes of the manifest and of the pin

Kinds == {"fetch", "install", "store", "cut"}

ASSUME UpdaterAssumption ==
    /\ Working \subseteq Versions /\ First \in Working
    /\ None \notin Versions /\ Torn \notin Versions /\ None # Torn
    /\ Failing \subseteq Kinds
    /\ MaxFaults \in Nat /\ MaxReleases \in Nat

VARIABLES pc,           \* the next step of the run, "idle" between runs
          installed,    \* the version of the receipt and of the files
          proven,       \* has the installed build answered a probe (or come by hand)?
          latest,       \* the version of the published manifest
          base,         \* INSTALLED_VERSION of the run
          target,       \* LATEST_VERSION of the run
          suspect,      \* LATEST_QUARANTINED of the run
          cache,        \* good.pkg, good.version, good.sha256
          bad,          \* quarantined-versions
          published,    \* the public status file
          pinned,       \* has the operator disabled the updater's job?
          faults, releases

vars == <<pc, installed, proven, latest, base, target, suspect, cache, bad,
          published, pinned, faults, releases>>
run == <<base, target, suspect>>
station == <<installed, proven>>
outside == <<latest, pinned, releases>>

Steps == {"idle", "receipt", "manifest", "rollback cache", "pkg", "version",
          "sha", "fetch", "install", "probe", "kept pkg", "kept version",
          "kept sha", "updated", "quarantine", "install failed", "rollback",
          "reprobe", "rolled back", "rollback failed"}

Files == [pkg : Versions \cup {None, Torn}, version : Versions \cup {None},
          sha : Versions \cup {None}]

Outcomes == {"none", "skipped-install", "skipped-no-user", "manifest-fetch-failed",
             "manifest-invalid", "current", "quarantined", "rollback-cache-failed",
             "package-fetch-failed", "checksum-failed", "trust-failed", "updated",
             "install-failed", "rolled-back", "rollback-failed"}

Publications ==
    [status : Outcomes, latest : Versions \cup {None}, quarantined : BOOLEAN]

TypeOK ==
    /\ pc \in Steps
    /\ installed \in Versions
    /\ proven \in BOOLEAN
    /\ latest \in Versions
    /\ base \in Versions \cup {None}
    /\ target \in Versions \cup {None}
    /\ suspect \in BOOLEAN
    /\ cache \in Files
    /\ bad \subseteq Versions
    /\ published \in Publications
    /\ pinned \in BOOLEAN
    /\ faults \in 0..MaxFaults
    /\ releases \in 0..MaxReleases

Init ==
    /\ pc = "idle"
    /\ installed = First
    /\ proven = TRUE
    /\ latest = First
    /\ base = None
    /\ target = None
    /\ suspect = FALSE
    /\ cache = [pkg |-> None, version |-> None, sha |-> None]
    /\ bad = {}
    /\ published = [status |-> "none", latest |-> None, quarantined |-> FALSE]
    /\ pinned = FALSE
    /\ faults = 0
    /\ releases = 0

Fault(kind) ==
    /\ kind \in Failing
    /\ faults < MaxFaults
    /\ faults' = faults + 1

(* write_status, which renames a new file over the public one *)
PublishAbout(status, version, quarantined) ==
    published' = [status |-> status, latest |-> version, quarantined |-> quarantined]

WriteStatus(status) == PublishAbout(status, target, suspect)

(* cache_is_good: the version asked for, and bytes that match the digest *)
CacheIsGood(version) ==
    /\ cache.version = version
    /\ cache.sha \in Versions
    /\ cache.pkg = cache.sha

-----------------------------------------------------------------------------
(* launchd starts a run, never while one is running or the job is disabled. *)
Start ==
    /\ pc = "idle"
    /\ ~pinned
    /\ pc' = "receipt"
    /\ base' = None
    /\ target' = None
    /\ suspect' = FALSE
    /\ UNCHANGED <<station, outside, cache, bad, published, faults>>

(* another installation is in progress, or nobody is at the console *)
Skip(status) ==
    /\ pc = "receipt"
    /\ Fault("fetch")
    /\ WriteStatus(status)
    /\ pc' = "idle"
    /\ UNCHANGED <<run, station, outside, cache, bad>>

ReadReceipt ==
    /\ pc = "receipt"
    /\ base' = installed
    /\ pc' = "manifest"
    /\ UNCHANGED <<target, suspect, station, outside, cache, bad, published, faults>>

(* the manifest cannot be fetched, or is not valid *)
ManifestFails(status) ==
    /\ pc = "manifest"
    /\ Fault("fetch")
    /\ WriteStatus(status)
    /\ pc' = "idle"
    /\ UNCHANGED <<run, station, outside, cache, bad>>

(* Fault: the quarantine list is not consulted. *)
ReadManifestOnly ==
    /\ pc = "manifest"
    /\ target' = latest
    /\ suspect' = (latest \in bad)
    /\ IF latest = base THEN PublishAbout("current", latest, latest \in bad) /\ pc' = "idle"
                        ELSE pc' = "rollback cache" /\ UNCHANGED published
    /\ UNCHANGED <<base, station, outside, cache, bad, faults>>

ReadManifest ==
    /\ pc = "manifest"
    /\ target' = latest
    /\ suspect' = (latest \in bad)
    /\ \/ /\ latest = base
          /\ PublishAbout("current", latest, latest \in bad)
          /\ pc' = "idle"
       \/ /\ latest # base
          /\ latest \in bad
          /\ PublishAbout("quarantined", latest, TRUE)
          /\ pc' = "idle"
       \/ /\ latest # base
          /\ latest \notin bad
          /\ pc' = "rollback cache"
          /\ UNCHANGED published
    /\ UNCHANGED <<base, station, outside, cache, bad, faults>>

-----------------------------------------------------------------------------
(* Fault: any cached package will do. *)
EnsureAnyCache ==
    /\ pc = "rollback cache"
    /\ pc' = IF cache.pkg # None THEN "fetch" ELSE "pkg"
    /\ UNCHANGED <<run, station, outside, cache, bad, published, faults>>

(* Fault: what is not cached yet is not fetched. *)
EnsureCachedOnly ==
    /\ pc = "rollback cache"
    /\ IF CacheIsGood(base) THEN pc' = "fetch" /\ UNCHANGED published
                            ELSE pc' = "idle" /\ WriteStatus("rollback-cache-failed")
    /\ UNCHANGED <<run, station, outside, cache, bad, faults>>

(* ensure_rollback_cache: nothing to do, or the package of the installed     *)
(* version is fetched and verified,                                          *)
EnsureCache ==
    /\ pc = "rollback cache"
    /\ pc' = IF CacheIsGood(base) THEN "fetch" ELSE "pkg"
    /\ UNCHANGED <<run, station, outside, cache, bad, published, faults>>

(* or it cannot be, and the run ends.                                        *)
EnsureCacheFails ==
    /\ pc = "rollback cache"
    /\ ~CacheIsGood(base)
    /\ Fault("fetch")
    /\ WriteStatus("rollback-cache-failed")
    /\ pc' = "idle"
    /\ UNCHANGED <<run, station, outside, cache, bad>>

(* store_good_package, one rename at a time, first for the version the run   *)
(* found installed, then, after an update, for the one it installed.         *)
Store(step, part, version, next) ==
    /\ pc = step
    /\ cache' = [cache EXCEPT ![part] = version]
    /\ pc' = next
    /\ UNCHANGED <<run, station, outside, bad, published, faults>>

StoreRollback ==
    \/ Store("pkg", "pkg", base, "version")
    \/ Store("version", "version", base, "sha")
    \/ Store("sha", "sha", base, "fetch")

(* Fault: the digest goes first, the package last. *)
StoreDigestFirst ==
    \/ Store("kept pkg", "sha", target, "kept version")
    \/ Store("kept version", "version", target, "kept sha")
    \/ Store("kept sha", "pkg", target, "updated")

StoreUpdate ==
    \/ Store("kept pkg", "pkg", target, "kept version")
    \/ Store("kept version", "version", target, "kept sha")
    \/ Store("kept sha", "sha", target, "updated")

(* ensure_rollback_cache runs under `if !`, where the shell ignores set -e:  *)
(* a copy cut short, and a name or a digest that was not written, which is   *)
(* an empty file, are renamed all the same, a missing temporary file leaves  *)
(* the old one, and only the last rename's failure is the function's.        *)
StoreSlips ==
    /\ Fault("store")
    /\ \/ /\ pc = "pkg"
          /\ \E bytes \in {Torn, cache.pkg} : cache' = [cache EXCEPT !.pkg = bytes]
          /\ pc' = "version"
          /\ UNCHANGED published
       \/ /\ pc = "version"
          /\ \E name \in {None, cache.version} : cache' = [cache EXCEPT !.version = name]
          /\ pc' = "sha"
          /\ UNCHANGED published
       \/ /\ pc = "sha"
          /\ cache' = [cache EXCEPT !.sha = None]
          /\ pc' = "fetch"
          /\ UNCHANGED published
       \/ /\ pc = "sha"
          /\ WriteStatus("rollback-cache-failed")
          /\ pc' = "idle"
          /\ UNCHANGED cache
    /\ UNCHANGED <<run, station, outside, bad>>

-----------------------------------------------------------------------------
FetchPackage ==
    /\ pc = "fetch"
    /\ pc' = "install"
    /\ UNCHANGED <<run, station, outside, cache, bad, published, faults>>

(* the download, its digest, or its signature *)
FetchFails(status) ==
    /\ pc = "fetch"
    /\ Fault("fetch")
    /\ WriteStatus(status)
    /\ pc' = "idle"
    /\ UNCHANGED <<run, station, outside, cache, bad>>

(* Fault: an install the installer is content with is not probed. *)
InstallUnprobed ==
    /\ pc = "install"
    /\ installed' = target
    /\ proven' = FALSE
    /\ pc' = "kept pkg"
    /\ UNCHANGED <<run, outside, cache, bad, published, faults>>

Install ==
    /\ pc = "install"
    /\ installed' = target
    /\ proven' = FALSE
    /\ pc' = "probe"
    /\ UNCHANGED <<run, outside, cache, bad, published, faults>>

(* installer fails, before or after the files and the receipt changed *)
InstallFails ==
    /\ pc = "install"
    /\ Fault("install")
    /\ \/ UNCHANGED station
       \/ installed' = target /\ proven' = FALSE
    /\ pc' = "quarantine"
    /\ UNCHANGED <<run, outside, cache, bad, published>>

(* probe_version: the installed agent names the expected version in time *)
ProbeSucceeds(step, version, next) ==
    /\ pc = step
    /\ installed = version
    /\ version \in Working
    /\ proven' = TRUE
    /\ pc' = next
    /\ UNCHANGED <<run, installed, outside, cache, bad, published, faults>>

ProbeFails(step, version, next) ==
    /\ pc = step
    /\ IF installed = version /\ version \in Working THEN Fault("install")
                                                     ELSE UNCHANGED faults
    /\ pc' = next
    /\ UNCHANGED <<run, station, outside, cache, bad, published>>

Probe ==
    \/ ProbeSucceeds("probe", target, "kept pkg")
    \/ ProbeFails("probe", target, "quarantine")

Updated ==
    /\ pc = "updated"
    /\ WriteStatus("updated")
    /\ pc' = "idle"
    /\ UNCHANGED <<run, station, outside, cache, bad, faults>>

-----------------------------------------------------------------------------
(* Fault: LATEST_QUARANTINED keeps its value. *)
QuarantineQuietly ==
    /\ pc = "quarantine"
    /\ bad' = bad \cup {target}
    /\ pc' = "install failed"
    /\ UNCHANGED <<run, station, outside, cache, published, faults>>

(* Fault: the version is not written to the list. *)
QuarantineForTheRun ==
    /\ pc = "quarantine"
    /\ suspect' = TRUE
    /\ pc' = "install failed"
    /\ UNCHANGED <<base, target, station, outside, cache, bad, published, faults>>

(* quarantine_version: the list is copied, extended and renamed into place *)
Quarantine ==
    /\ pc = "quarantine"
    /\ bad' = bad \cup {target}
    /\ suspect' = TRUE
    /\ pc' = "install failed"
    /\ UNCHANGED <<base, target, station, outside, cache, published, faults>>

ReportInstallFailed ==
    /\ pc = "install failed"
    /\ WriteStatus("install-failed")
    /\ pc' = "rollback"
    /\ UNCHANGED <<run, station, outside, cache, bad, faults>>

(* rollback_failed_update *)
Rollback ==
    /\ pc = "rollback"
    /\ CacheIsGood(base)
    /\ installed' = cache.pkg
    /\ proven' = FALSE
    /\ pc' = "reprobe"
    /\ UNCHANGED <<run, outside, cache, bad, published, faults>>

RollbackFails ==
    /\ pc = "rollback"
    /\ \/ /\ ~CacheIsGood(base)
          /\ UNCHANGED <<station, faults>>
       \/ /\ CacheIsGood(base)
          /\ Fault("install")
          /\ \/ UNCHANGED station
             \/ installed' = cache.pkg /\ proven' = FALSE
    /\ pc' = "rollback failed"
    /\ UNCHANGED <<run, outside, cache, bad, published>>

(* Fault: the failed probe of the old build is not looked at. *)
ReprobeIgnored ==
    \/ ProbeSucceeds("reprobe", base, "rolled back")
    \/ ProbeFails("reprobe", base, "rolled back")

Reprobe ==
    \/ ProbeSucceeds("reprobe", base, "rolled back")
    \/ ProbeFails("reprobe", base, "rollback failed")

RolledBack ==
    /\ pc = "rolled back"
    /\ WriteStatus("rolled-back")
    /\ pc' = "idle"
    /\ UNCHANGED <<run, station, outside, cache, bad, faults>>

GiveUp ==
    /\ pc = "rollback failed"
    /\ WriteStatus("rollback-failed")
    /\ pc' = "idle"
    /\ UNCHANGED <<run, station, outside, cache, bad, faults>>

-----------------------------------------------------------------------------
Cut ==
    /\ pc # "idle"
    /\ Fault("cut")
    /\ pc' = "idle"
    /\ UNCHANGED <<run, station, outside, cache, bad, published>>

(* the published manifest names another version, newer or yanked back *)
Release ==
    /\ releases < MaxReleases
    /\ latest' \in Versions \ {latest}
    /\ releases' = releases + 1
    /\ UNCHANGED <<pc, run, station, cache, bad, published, pinned, faults>>

(* launchctl disable, which a run under way does not notice, and enable *)
Pin ==
    /\ pinned' = ~pinned
    /\ IF pinned THEN UNCHANGED releases
                 ELSE releases < MaxReleases /\ releases' = releases + 1
    /\ UNCHANGED <<pc, run, station, latest, cache, bad, published, faults>>

Runs ==
    \/ \E s \in {"skipped-install", "skipped-no-user"} : Skip(s)
    \/ ReadReceipt
    \/ \E s \in {"manifest-fetch-failed", "manifest-invalid"} : ManifestFails(s)
    \/ ReadManifest
    \/ EnsureCache \/ EnsureCacheFails
    \/ StoreRollback \/ StoreSlips
    \/ FetchPackage
    \/ \E s \in {"package-fetch-failed", "checksum-failed", "trust-failed"} :
           FetchFails(s)
    \/ Install \/ InstallFails \/ Probe
    \/ StoreUpdate \/ Updated
    \/ Quarantine \/ ReportInstallFailed
    \/ Rollback \/ RollbackFails \/ Reprobe \/ RolledBack \/ GiveUp

Next == Start \/ Runs \/ Cut \/ Release \/ Pin

Spec == Init /\ [][Next]_vars

(* launchd starts the updater every hour, and a started run goes on: each of *)
(* its commands has a time limit of its own.                                 *)
FairSpec == Spec /\ WF_vars(Start) /\ WF_vars(Runs)

-----------------------------------------------------------------------------
(* As long as nothing failed but the released builds themselves, whatever    *)
(* the manifest names and in whatever order, every run leaves a build that   *)
(* has answered a probe.                                                     *)
ProvenBetweenRuns == pc = "idle" /\ faults = 0 => proven

(* "Never replace a working build until its independently published package  *)
(* has been downloaded and verified as a rollback target"                    *)
(* (src/packaging/updater.sh.in:430-431).                                    *)
ReplacementHasRollback == pc = "install" => CacheIsGood(base) /\ cache.pkg = base

(* A cache that passes cache_is_good for a version holds that version's      *)
(* package, however the three renames of earlier runs were cut. (A rename     *)
(* that fails unseen, kind store, is another matter.)                        *)
CacheIsWhatItSays ==
    \A v \in Versions : CacheIsGood(v) => cache.pkg = v

(* A version that failed here is not installed as an update again.  Only a   *)
(* rollback, which does not ask the list (updater.sh.in:324-335), puts a     *)
(* quarantined version back, and only after an update that is quarantined    *)
(* itself.  A version whose failure a cut has kept off the list is not       *)
(* spoken of.                                                                *)
QuarantineHolds ==
    [][installed' # installed /\ installed' \in bad
           => pc = "rollback" /\ target \in bad]_vars

(* "updater will not retry it" (src/RUNBOOK.md:791): a broken release is not *)
(* installed again every hour.  Whatever releases there were, and whatever   *)
(* was cut, updates that fail come to an end.  (An operator who removes the  *)
(* list, src/RUNBOOK.md:794, asks for another try and is left out.)          *)
FailedUpdatesEnd == <>[](pc # "install failed")

(* RUNBOOK's status table (src/RUNBOOK.md:785-799): "updated" is only ever   *)
(* published for a probed build that is cached for the next rollback, and    *)
(* "rolled-back" for the probed build the run had found.                     *)
OutcomesAreTrue ==
    [][/\ Updated => proven /\ installed = target /\ CacheIsGood(target)
       /\ RolledBack => proven /\ installed = base /\ target \in bad]_vars

(* Between runs the published quarantine verdict is the list's, although the *)
(* two files are written at different moments (src/packaging/updater.sh.in:  *)
(* 112, 286-296), unless a run was cut between them.                         *)
PublishedQuarantine ==
    /\ pc = "idle" /\ published.latest # None
    /\ faults = 0 \/ "cut" \notin Failing
    => (published.quarantined <=> published.latest \in bad)

(* A station follows the manifest, forwards or back ("any difference         *)
(* installs", src/RUNBOOK.md:270-275): once releases and failures are over   *)
(* it has the manifest's version, unless that one is quarantined or the      *)
(* station is pinned.                                                        *)
FollowsTheManifest == <>[](installed = latest \/ latest \in bad \/ pinned)
=============================================================================
