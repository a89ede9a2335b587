# browser-print-agentd in TLA+

browser-print-agentd is a small Go daemon on a macOS print station. A web page posts a
label or a PDF to it on the loopback interface; the daemon picks a CUPS queue that can
print, submits the job with `lp`, and says 200 or an error. A separate root updater, a
shell script, keeps the station on the published release, and installation scripts set
it all up. This directory models these: TLA+ modules translated from the source, TLC
runs that check them on small instances, and TLAPS proofs of what matters most for
every value of the constants. `PROJECT.json` ties every definition to the lines it
stands for, every run to its properties, and every property to a mutant of the code
that breaks it.

## The system and its parts

| Part | Source | State it keeps | Operations | Model |
| --- | --- | --- | --- | --- |
| Print routes | `server.go` handleWrite, handlePrintPDF | per request: context (writeBudget), answer | validate, resolve, submit, answer | `PrintGate` |
| Submission gate | `cups.go` printRaw, printDocument, spool | `printOrder`, a RWMutex; the printer's settings, which an inverting page changes | RLock/Lock, render, `lp` page, `lp` restoration | `PrintOrder`, `PrintGate`, `PrintPromise` |
| Verdict caches | `health.go` | a map per checker: verdict and its time | look up, probe CUPS, store | `VerdictCache` |
| Discovery and failover | `discovery.go`, healthyPrinters, resolveTarget, the lpstat parsers of `cups.go` | none of its own; the page keeps a pin | enumerate, judge, match a pin, fail over, list | `Station` |
| Raster conversion | `zpl_document.go` | the page and bitmap being parsed | check the PPD, filter, parse, decode, rotate, band, emit | `RasterLabel` |
| Request log | `log.go` | active file, seven archives, open descriptor | write, rotate, normalise at start | `LogRing` |
| Process | `main.go`, launcher, launchd | listeners, error channel, grace timer | start, listen, signal, shut down server by server, end, start again | `Lifecycle`; as one step, `Stop` in `PrintGate` |
| Updater | `packaging/updater.sh.in` | receipt, rollback cache (3 files), quarantine list, status files | one run an hour, unless pinned | `Updater` |
| Update status reader | `update.go` | per request: what was read so far | lstat, open, parse, ask launchd for the pin, answer | `UpdateReport` |
| Installer scripts | `preinstall`, `postinstall`, `uninstall` | files, certificate and key, keychain, launchd jobs, marker | install, reinstall, remove | `Install` |

How they interact. Every HTTP request is a goroutine with its own context, which
ends when the client hangs up or after writeBudget. It asks CUPS what exists,
the caches what can print, and takes the gate around its `lp` processes. The
caches and the logger are shared under mutexes, the gate is shared by both print
routes. `lp` is a child process that may be killed, and CUPS may have taken the
job all the same. Requests come in through one server or two; the shutdown closes
the servers one after the other, under one grace period, and what is still in
flight then ends with the process. The updater shares nothing with the daemon but
the binary it replaces, the /health probe, and the public status file, which the
daemon reads back, together with launchd's pin, for the update object of /health.
The installation scripts bring all of it to a station and take it away again: they
lay down the files, make the certificate the daemon serves HTTPS with and the
keychain trusts, and register both launchd jobs, which logins, restarts and the
operator's pin change too.

What is hard here, and where it is addressed:

- *Concurrency.* An inverting document is three steps, render, page,
  restoration, that no other submission may enter; the gate ignores contexts,
  so nobody may starve at it (`PrintGate`, `Lifecycle`). Probes of the same
  queue race to store a verdict (`VerdictCache`). The reader of the update status
  looks at a file, opens it and asks launchd, while a run replaces the file and an
  operator moves the pin (`UpdateReport`).
- *State read early and used late.* Between the listing a page took its pin from
  and the `lp` of its job, queues are renamed, made again for another printer and
  disabled (`Station`).
- *Unknown outcomes.* A killed `lp` may have been accepted. The model decides
  acceptance (`Accept`) separately from what the handler sees (`LpReturns`,
  `LpIsCut`).
- *Ends of the process* at any step: of the daemon (`Stop`, `Exit`, `Crash`), of
  an updater run (`Cut` of `Updater`), of an installation that is then repeated on
  what it left (`Cut` of `Install`).
- *Partial failure*: one listener of two (`ListenerFails`), a log rotation
  (`RotationFails`), the rollback cache (`StoreSlips`), a listing of lpstat that
  breaks off (`Discover`), a launchctl or security command whose failure a script
  ignores (`Unseen`, `Untrust` of `Install`).
- *Time.* A cached verdict is stamped after the probe, and a probe may be as
  slow as its timeout; the grace of a shutdown ends whatever a body does.
- *Boundaries.* Runs, fills and repetitions of a graphic meet at row boundaries;
  a picture is cut into fields; a rotation meets the padding of the last byte
  (`RasterLabel`). A record fits a log file exactly, or is longer than any may be, which
  no code prevents (`LogRing`).

Correctness, component by component: a document's page and restoration stay adjacent
and a 200 is true (gate); a positive verdict is no older than TTL plus the probes
(caches); a pinned job reaches its printer or says in the log that it did not, and
falls back only when it must (discovery); the printer burns the same dots under the
same settings as for the filter's own text (conversion); the log's records stay whole,
ordered, bounded but for a single over-long one, and are evicted from the oldest on
(log); a shutdown ends, drops nothing early, and a process that lost a server ends
(process); a station always has a proven build and a rollback target, and follows the
manifest (updater); /health reports what is public, or nothing (reader); a successful
installation has left a serving station and a failed one had a cause, whatever it
started from, and a removal leaves no file and no trust, and, where launchctl does
what it is told, nothing registered (scripts).

## Modules

- `PrintOrder` is `sync.RWMutex` by the contract its callers rely on: an
  exclusive caller first owns the writers' mutex, which parks later shared
  callers, then waits for the readers inside; its Unlock lets the parked ones in
  first. `RLock`, `RUnlock`, `Lock`, `Unlock` are the calls in `cups.go`;
  `Announce` and `Enter` are the lock's own steps. It is not run alone:
  `PrintGate` and `Lifecycle` compose it with its callers.
- `PrintGate` EXTENDS it with the requests. `pc` is where a handler is, `mode`
  what it submits (raw label, ordinary document, inverting document), `live` its
  context, `stream[q]` what CUPS accepted on queue q in order, `outcome` what
  the handler saw. Each step between two points where another goroutine, CUPS or
  the clock can come in is an action: `Arrive`, `Resolve`, `AskShared` or
  `AskExclusive`, `Render`, `StartLp`, `Accept`, `LpReturns`, `LpRefuses`,
  `LpIsCut`, `StartRecall`, `AcceptRecall`, `RecallReturns`, `RecallFails`,
  `Release` (the deferred unlock), `Answer`. `ContextEnds` is a hang-up or the
  budget, `Stop` the end of the process, with a later start.
- `PrintPromise` is the abstract specification: per queue a stream of jobs, one
  bracket at a time, and what each caller is told. `PrintGate` implements it
  (`ImplementsPromise`, with `open` and `told` computed from the handlers).
- `Lifecycle` EXTENDS `PrintOrder` too, with the process around the gate: `run`'s
  start (`Launch`), its servers (`Listen`, `ListenerFails`), what ends it
  (`Signal`, `NoticeFailure`), the loop over `Shutdown`, the end (`Exit`), and
  requests that come in through a server that is open, take the time their body
  takes, and go through the gate. `servers` is what the loop has not reached.
- `Station` is discovery and failover. `queue[n]` is the printer a queue name stands
  for, `state[n]` its state, `Status` and `Accepts` what lpstat prints of it, which
  the parsers (`Enabled`, `Offline`, `Accepting`) read among lines of other queues. A
  request enumerates (`Discover`), judges every queue, by the cached verdict
  (`UseVerdict`) or by two commands, each of which sees the queue as it is then
  (`AskOnline`, `AskAccepting`), and a later `Store`; it then either lists what it
  found, from which the page takes a pin (`List`), or chooses (`Choose`) and submits
  (`Submit`). `probe` is how far the two commands have come. `Repoint`, `Rename`,
  `Flip` and `Expire` are the operator and the clock, at any moment in between.
- `VerdictCache` is one queue's entry of healthChecker or of driverChecker. It keeps
  ages instead of instants: of the entry, of the latest moment each facet of the queue
  was true, of the latest cause for a negative verdict; so the state space is finite
  without a bound on time. `Facets` is the sequence of commands a probe runs, two for
  health, one for the driver. `Tick` lets time pass, but not while a command is at its
  timeout.
- `RasterLabel` is the conversion as a machine that takes the filter's text
  command by command and graphic code by graphic code, any of them at any point,
  and refuses what the code refuses. `Rotated`, `Bands` and `Written` are the pure
  part. The reference is not a second decoder: `drawn` keeps the digits the codes
  stand for in ZPL, where a graphic is one line without rows, and `Label` says
  what a printer makes of commands, ours or the filter's.
- `LogRing` is rotatingLog. A file is the sequence of its units, a unit being
  the record it belongs to, so sizes and splits can be told. Every file
  operation of a rotation is an action (`CloseActive`, `RemoveOldest`,
  `ShiftArchive`, `ArchiveActive`, `CreateActive`), may fail (`RotationFails`),
  and the process may end around it (`Crash`, with a Go trace written past the
  logger onto the inode crash output is bound to). A record has any length: an empty file
  takes one that is longer than a file may be (`Write`). `Restart` is newRotatingLog
  with normalizeRing.
- `Updater` is one station: the runs of `updater.sh.in`, one after another, the
  releases, the operator's pin, and the failures. The steps of a run are the
  values of `pc`; each of the three renames of store_good_package is a step of
  its own. The shell's `set -e` is modelled as it works: a failing command ends
  the run (`Cut`), except inside ensure_rollback_cache, which is called as a
  condition and goes on (`StoreSlips`).
- `UpdateReport` EXTENDS `Updater` with the reader: `Lstat`, `Open`,
  `ReadLaunchdPin`, `Answer`, with any steps of the updater and the operator in
  between (`Meanwhile`).
- `Install` is one station with one account under `preinstall`, `postinstall` and the
  uninstaller, run again and again in any order. `pc` is the next step of the script
  at work; a step is a part of it between two points where it can end or where
  somebody else can come in. A certificate and its key are one and the same member of
  `Certs`, `Torn` is a copy that was cut short, `trusted` the System keychain,
  `loaded` and `disabled` what launchd has of the two jobs. `CommandFails` is a
  command that makes its script fail, `Unseen` a launchctl bootout, enable or disable
  that fails behind a `|| true` and leaves the job or the override as it was, `Cut`
  the end of a script at any step, after which the next one starts over. `Login`,
  `Logout`, `Age`, `Pin` and `Resume` come at any moment; `trouble` remembers for the
  script at work that they, or a failure, did.
- `MC*` modules give TLC the constants, and let a finite behaviour rest at its
  end. `PrintGateProofs` (which has those about `PrintOrder` too), `LifecycleProofs`,
  `VerdictCacheProofs`, `StationProofs`, `LogRingProofs`, `RasterLabelProofs`,
  `UpdaterProofs` (which has those about `UpdateReport` too) and `InstallProofs` hold
  the theorems.

Definitions marked "Fault" in a comment are not part of `Next`: each is an
action or operator as a plausible bug would have it, used to see a property fail.

## Runs

All bounds are in the `.cfg` files; times are on two cores.

| Run | Instance | States | What it shows |
| --- | --- | --- | --- |
| `lifecycle` | 3 requests for ever, one server or two, 2 signals or failures, fair | 77,690, 45 s | who holds the gate across restarts, nobody starves there, a shutdown ends and severs nothing before its grace, a half-served process ends |
| `gate` | 2 requests, 2 queues, 1 process end, fair | 145,256, 25 s | type, exclusion, adjacency of page and restoration, what a job may inherit from a page that was not restored, truth of the answers, at most one page per request; every request ends; the gate implements `PrintPromise` |
| `gate_accepted` | 2 requests | | *violation*: an accepted page may be left without an attempt to restore |
| `health` | 2 callers, probes of 2 commands, TTL 3 | | the age of positive verdicts, the cause of negative ones |
| `station` | 1 page, 2 queue names, each of a USB printer with a serial number or a network printer without, 3 changes | 1,177,950, 25 s | a pinned page reaches its printer; the fallback is needed; USB first; each command of a verdict is read as what the queue is then |
| `raster` | 2 pages, graphics of up to 3 bytes in rows of 1 or 2, fields of 2 bytes | 487,135, 40 s | the decoder, the rotation, the fields, whatever the filter sends |
| `log_ring` | 6 records of 1, 2 or 4 units in members of 3, 3 archives, 1 failing operation, 2 process ends, crash traces of 2 units | 2,021,334, 50 s | order, wholeness, size, eviction of the oldest only |
| `log_trace` | 9 records, 1 failing operation, 1 process end | | *violation*: a crash trace costs the newest records |
| `updater` | 3 versions, 1 broken, 4 changes of the manifest or the pin, 3 failures of any kind, fair | 577,115, 20 s | proven builds, true outcomes, published verdict, quarantine, updates that fail come to an end, and following the manifest |
| `updater_cut` | the same with the reader, 3 cuts or failing downloads and installs | 8,629,194, 100 s | the cache never passes for a package it does not hold; rollback target; what /health reports |
| `updater_slip` | 1 failing write into the cache | | *violation*: a build is replaced without a rollback target |
| `install` | 4 pairs, 1 failing command, 1 launchctl and 1 removal of trust that fail unseen, 1 cut | 795,678, 15 s | who is trusted, what a success stands for, what a failure is due to, what a removal leaves |

Why the bounds are enough. The gate's properties relate at most two requests, one
inverting and one that comes between, on one queue or on two, since adjacency is per
queue and exclusion is not; the theorems have them for any number. One end of the
process separates what a dead process left from what a live one does. A lock that
others keep busy is the subject of `lifecycle`, where the third request passes the
other two for ever, which starvation needs, and two ends are a failed server and a
signal in one life, or one in each of two. A cache entry is disturbed by one other
caller, whose store comes between a lookup and a store; driverChecker is the same code
with one command per probe. In `station` two names suffice for a printer to move from
one to the other, for both to stand for it, and for a fallback; the page is the only
actor besides the operator because requests share nothing but verdicts, which `Expire`
and the age of a verdict at its use account for; three changes give a rename before
the listing, one between it and the job, and one under the job. In `raster` the widths
5 and 12 leave padding in one byte and in two, a field takes two rows of one byte or
one of two, so that a graphic has a full field and a last one that is not, and each
limit (`MaxBitmap`, `MaxBody`, `MaxPages`, `MaxDots`) is met and exceeded. Three
archives have one in the middle, so a shift in the wrong order shows, and six records
pass through all of them: one unit fills a file in part, two leave no room for another
two, and four are more than a file may hold. Three versions are the one before, the
one installed and the next; four changes go forward, back and forward again, or pin
and unpin in between. In `install` a certificate that is made is one that is neither
on disk nor trusted, and with one removal of trust that fails at most three are: four
are never exhausted. The scripts, logins, renewals and pins are not bounded at all,
and one failure of each kind is one that a later script must cope with; in one step
both launchctl commands may fail, as one failure.

## Fairness

`PrintGate!Fairness` is weak fairness of every handler's next step: a goroutine
that can run does, and `lp`, the renderer and the probes have timeouts of their
own, so a handler never waits for a child for ever (`LpIsCut`, `RecallFails`).
Nothing is assumed of `Accept`, of the context or of `Stop`. `Advance`, the
lock's hand-over, is strongly fair: a writer that waits for the mutex competes
with later ones, and Go's `sync.Mutex` hands itself to a waiter that has starved
for 1 ms.

`Lifecycle!Fairness` is weak fairness of `Run` (the main goroutine goes on, the grace
timer fires), weak fairness of `LeaveGate` (all that a holder does there has a
timeout, see above) and, for the same reason as `Advance`, strong fairness of `Pass`.
Nothing is assumed of a body: no server has a read timeout, so `ShutdownEnds` must
hold, and does, with an upload that never ends. Nothing is assumed of `Launch` either:
KeepAlive is not unconditional, and launchd may hold a restart for as long as it likes
(`launchagent.plist.in:37-57`, `RUNBOOK.md:831-884`). `HalfServedEnds` claims only
that the process ends.

`Updater!FairSpec` is weak fairness of `Start` (launchd's hourly schedule, while the
job is enabled) and of the run's next step (curl's `--max-time`, 30 probes at most).
Failures are bounded, so "eventually" means after the last of them. `Station`,
`RasterLabel`, `UpdateReport` and `Install` have safety properties only and no fairness.

## Theorems

Proved by TLAPS for every value of the constants, from the assumptions that the
modules name: null values are not members, bounds are natural numbers, the TTL is
not zero, no two queues have one name, the first version
works, a log record has some length. Every invariant
below is inductive; TLC checked each one on an instance like its run's (`Seq(S)` read
as "all elements are in S") before it was proved. The type invariants of
`VerdictCache`, `LogRing`, `Station`, `Updater` and `Install`, and three smaller
properties of `Install`, are theorems only and have no run of their own.

The gate (`PrintGateProofs`), for every set of requests and
queues and any number of process ends:

- `TypeCorrect`: `TypeOK` of `PrintGate`.
- `Exclusion`: `ExclusiveSubmission`. `StepsUseTheGate` shows that every step of a
  request is a step of the lock or leaves it alone, so the lock's own contract,
  `OrderInv` (no shared and exclusive holder at once; a lemma, since it is Go's and
  not this code's), carries over; `GateInv` says where a handler is when it holds,
  waits or neither. Without it a handler could be at `lp` without the lock, and
  exclusion of holders would say nothing about submissions.
- `RestorationIsAdjacent`: `RestoreFollowsPage`. `BracketInv` adds that while a
  document is between its page's acceptance and its restoration, its page is the last
  job of its queue; that is what exclusion preserves (`PageKeepsOrder`,
  `RecallKeepsOrder` do the two appends).
- `OnceOnPaper`, `TrueAnswers`, `InheritanceIsReported`: `LandsAtMostOnce`,
  `AnswersAreTrue`, `InheritedSettingsAreReported`. All three follow from `PageInv`,
  which says by a request's phase and outcome that its page is at no queue, at one
  place of the queue it resolved to, or there with its restoration right behind it,
  and from `OutcomeInv`, when an outcome is known. A step appends at most one job, of
  one request (`SubmitPages`), so the other requests' pages stay where they are; that
  nothing slips in between a page and its restoration is `BracketInv` again.
- `KeepsThePromise`: `ImplementsPromise`, the refinement. `PromiseStep` maps each
  step to one of `PrintPromise` or a stutter: `Accept` to `Job`, `AcceptRecall` to
  `Restore`, a restoration that is not made or fails to `GiveUp`, `Answer` to `Tell`,
  `Stop` to `Lose`. The promise has one bracket; that the handlers never have two is
  `OneBracket`, which follows from the exclusion.

The process (`LifecycleProofs`), for every set of requests and any number of ends:

- `LifeTypeCorrect`: `TypeOK`, which says that only a request of the running process
  waits for the gate or holds it. Again every step is one of the lock's, or none
  (`StepsOfTheLock`), so that `OrderStep`, which is proved of the lock alone, applies.
- `NothingIsSeveredEarly`: `SeveredOnlyByGrace`. `LifeInv` adds `Covered`: until the
  grace is over, a request in flight came in through a server whose `Shutdown` is
  still to be called or is waiting, and only such servers are open. That is what
  the order of the loop preserves; it needs the shape of the list of servers
  (`Lists`) and that nothing is left between two lives (`Gone`).

The caches (`VerdictCacheProofs`), for any callers, number of commands and times:

- `YesIsRecent` and `NoHasACause`: `PositiveIsRecent` and `NegativeHasCause`, with
  `TypeCorrect` for `TypeOK`. `CacheInv` is an account of where the time went: what a
  caller at its k-th command read of facet i is at most k - i commands old
  (`ProbeInv`), an entry carries that on from its store (`EntryInv`), and an answer
  adds no time (`AnswerInv`). Needed because stores of several callers overwrite one
  another: each brings an account of its own. `Span` stands for the product of a
  number of commands and their time limit, which keeps the arithmetic linear.

Discovery and failover (`StationProofs`), for any queues, printers, requests and
changes of the station:

- `PinnedIsReached`, `FallbackIsNeeded`, `UsbGoesFirst`: `ReachesPinned`,
  `FallbackOnlyIfNeeded`, `UsbFirst`, with `TypeCorrect`. `RequestInv` is what a
  request carries from discovery to `lp`: its pin means the unit it was read from,
  what it found usable it had discovered, and what `Choose` established of the target
  stays true, since no other request and no change touches what it has found out.
- `EachCommandIsRead`: `CommandsReadTheQueue`. Lines of other queues before or after a
  queue's own do not decide what the parsers make of it, so each command tells exactly
  what the queue is at its own moment; nothing is claimed of the two moments together.

The log (`LogRingProofs`), for any sizes, archives, records, failures and ends of the
process:

- `OrderIsKept`, `NothingIsSplit`, `BoundIsKept`: `RecordsInOrder`, `RecordsAreWhole`,
  `BoundHolds`, with `TypeCorrect`. `UnitsBelow` adds that nothing in the ring is
  newer than the record being written, so that an append keeps the order;
  `RotationInv` that a rename in a rotation goes where there is no file, and an
  append where the record fits or the file is empty, so that a record longer than the
  bound is alone in its file. Every step then moves files without one overtaking
  another (`Rearranged`), or makes one grow at its end (`Grown`).
- `OnlyTheOldestLeaves`: `EvictsOldestOnly`, from the same invariant: a rename that
  met a file would overwrite it.

The conversion (`RasterLabelProofs`), for any driver, limits, digits and run lengths,
and pages of any size:

- `TypeCorrect` and `DecodesAsDrawn`: `TypeOK`, which bounds the decoder's row, bitmap
  and run by the header, and `DecodedAsDrawn`. `PageAt` says what is known of a page by
  how far its lines have come, which rests on which lines may not be left out
  (`Mandatory`); `GraphicInv` that every finished row is full. `DecodedAsDrawn` is
  inductive with them because the codes read so far end where the rows end
  (`Aligned`), so that a code that fills a row, or repeats one, adds a row's digits.
- `FieldsAreCut`: `FieldsFit`. Rounding up the number of fields is right for every
  height and every number of rows that fit (`Cuts`), a full field is within the limit
  (`FullField`), and `WrittenIs` finds the fields, in their order, between the other
  lines of the page.
- `SamePicturePrinted`: `SamePicture`. `PagesInv` keeps what a page was checked for
  when it was read, `OutputInv` that each output is `Written` of its page, which had no
  dot beyond its width. The rest is about the operators: a bit of the rotated picture
  is the opposite bit of the original, or blank beyond the width (`TurnedPixel`), the
  fields together burn just the rotated picture (`AllDots`), which is the original as
  ^POI turns it (`Inverted`; a stray dot would break it), and the lines that are
  passed on are those that rule the label (`SameLabel`).

The updater (`UpdaterProofs`), for every set of versions, any releases and any
number of failures; `UpdateInv` is the conjunction of what each theorem needs:

- `UpdaterTypeCorrect`: `TypeOK`.
- `QuarantineIsKept`: `QuarantineHolds`. `SuspectInv` ties the run's own flag to the
  list at every step, and from the choice of a target to its failure keeps the
  target out of it. A rollback does not ask the list, and puts a quarantined base back
  when that is what the run had found; the theorem says that nothing else does.
- `OutcomesAreProven`: `OutcomesAreTrue`. `RunInv` keeps what the run knows of the
  station true, and `KeptInv` follows the three renames.
- `CacheNeverLies` and `NothingReplacedWithoutRollback`: `CacheIsWhatItSays` and
  `ReplacementHasRollback`, assuming that "store" is not in `Failing`, no rename fails
  unseen (`updater_slip` shows what happens otherwise). The cache is `Whole`,
  one package under its own name and digest, or `Filling`, whose package is the
  installed one and whose name and digest are older or already its own: a run that is
  cut leaves it so, and the next one starts over with the installed version, which
  nothing else can have changed.
- `ProvenWithoutFailures`: `ProvenBetweenRuns`, which speaks of stations where
  nothing has failed but released builds. `ProvenInv` adds that the build to go back
  to works and is cached.
- `PublishedVerdictIsTheLists`: `PublishedQuarantine`, which speaks of stations on
  which no run was cut. `PublicInv` allows for the moment at which the list has a
  version that the public file does not call quarantined yet.

The reader (also `UpdaterProofs`), with any steps of the updater between its own:

- `ReadersDisturbNothing`: `ReportSpec` implies `Spec` of `Updater`, so that all of the
  above holds with readers at work.
- `ReportsAreTrue`: `ReportIsTrue`. `ReaderInv` says that between opening the file and
  launchd's answer the report agrees with what is public unless that was replaced,
  and that the updater publishes a verdict only with a version (`VerdictHasVersion`),
  the rule by which the Go parser would otherwise drop the object.

The installation scripts (`InstallProofs`), for any set of pairs and number of failures
and cuts; `InstallInv` is the conjunction, and each part has a lemma with one case per
action:

- `TrustAccounted`: `TrustIsAccounted`. `KeychainInv` adds that no certificate is
  trusted while a new one is made: `DropOldTrust` comes before `CopyCert`, and a cut
  between them loses trust, never the account of it.
- `SuccessHolds` and `FailureExplained`: `SuccessIsReal` and `FailureHasCause`.
  `PairInv` and `ServingInv` say what the steps done so far have established, as long
  as nobody came in between, and `QuietInv` what the script found and relies on. A
  failure without a cause would be a check that one of them shows to be met: the port
  is free because the agent was stopped, the probe is answered because the pair on
  disk belongs together, launchd takes the updater because it was seen not to have it.
- `RemovalIsComplete` and `UninstallerStays`: `UninstallLeavesNothing` and
  `UninstallerIsLast`, from `RemovalInv`, the order of the removal. Files go whatever
  launchctl did; jobs and pins only if none of its failures went unseen
  (`UnseenCounts`: each of them is in `trouble`).
- `UpdaterLeftAlone` and `MarkerBracketed`: `InstallLeavesUpdaterAlone`, which needs no
  invariant of the scripts, since launchd itself refuses a job that is pinned, and
  `MarkerIsBracketed`, which is inductive as long as no script is cut or ended by a
  failing command. `TypeCorrect` is `TypeOK`, with the rule
  that no agent is loaded without a session.

Only model-checked: the liveness properties (`GateServesAll`, `EveryRequestEnds`,
`ShutdownEnds`, `HalfServedEnds`, `FailedUpdatesEnd`, `FollowsTheManifest`), which
need fairness and ENABLED, out of the prover's reach. The two limits of the conversion
on sums over pages (`BitmapBytes`, `OutputBytes`) are guards that TLC evaluates; what
a fold computes for every input is induction over data, out of its reach too, and no
theorem needs it.

## Where code and words differ

The first three are findings of runs, and `PROJECT.json` lists them with their
lines. (1) `printDocument` restores only if the page's `lp` was *seen* to succeed; a
context or timeout that ends while `lp` exits skips the restoration, despite the
comment (`gate_accepted`). (2) A crash trace can take the active log over 8 MiB, and
the next start deletes it (`log_trace`). (3) `set -e` is off in
ensure_rollback_cache, so a failed copy is not refused (`updater_slip`).

Four more have no run of their own. (4) A failed step of a rotation leaves the logger
without a file until the process ends (`RotationFails` in `LogRing`; `log.go` drops
every later record, and nothing retries). (5) An updater run cut between installation
and probe is called current by the next run, although nothing has probed the build;
this is why `ProvenBetweenRuns` speaks only of stations where nothing failed. (6)
cert_still_good (`postinstall.in:167`) asks whether both files exist and how long the
certificate lasts, never whether they belong together: an installation cut while it
copies the key (`Unfinished` in `Install`) leaves a pair that every later one keeps
and fails on at its HTTP probe, although `RUNBOOK.md:811` has running the installer
again as the repair. This is why `FailureHasCause` allows for `cert # key`. (7) The
uninstaller asks to be run again for an account it did not find
(`uninstall.sh.in:108`), but deletes itself all the same (`DropFiles` in `Install`);
`UninstallLeavesNothing` therefore speaks of a run that knew the account.

The comment at `health.go:9` says the TTL bounds a verdict's staleness; as the
entry is stamped when it is stored, the bound that holds, and that
`PositiveIsRecent` states, is the TTL plus the commands of the probe.

## Abstractions

- Payloads, formats, headers and log wording are left out; a job is a request
  and a kind. What resolveTarget picks is, in `PrintGate`, any queue or an error;
  how it picks is `Station`.
- `sync.RWMutex`, `lp`, CUPS, launchd, installer(8), `os.Rename`, `http.Server` are
  external, modelled by the contract the code uses; the map marks them.
- Power loss is an end of the process: file operations that returned are on
  disk (the code does not sync, so the order of renames on disk is APFS's).
- A manifest, download or signature check is one outcome, good or bad; a failed
  one is a `fetch` failure. A version is published with one set of bytes.
- In `Updater` an installation takes effect at once or fails before or after it
  did; installations by hand during a run are not modelled.
- `CacheIsWhatItSays` is checked under cuts and failing installs. It is not
  claimed for renames that fail unseen: a run cut between the installation and its
  caching leaves three files of the version before, and one unseen failure of the next
  run then mixes them with its own.
- `QuarantineHolds` speaks of what is on the list. A run cut between a failed
  installation and `Quarantine` has not written it, and the same release is installed
  once more. The operator's removal of the list (`RUNBOOK.md:794`), which asks for
  another try, is not an action of the model.
- In `Station` a uid is the device itself where the URI has a serial number (the code
  hashes it), and the queue's name otherwise, as in the code; `ReachesPinned` is about
  the former, as a pin by name follows the name. A listing that breaks off shrinks
  what `FallbackOnlyIfNeeded` and `UsbFirst` speak of. An lpstat answer has the lines
  of the queue asked for and of at most one other, before or after.
- In `RasterLabel` a byte is two hexadecimal digits, a line a command with its
  argument, and the text of a number its value. The five lines that recall and
  delete the stored graphic are one. A label is as long as its graphic, as the filter
  sends it. The cap on the filter's output and the check for NUL bytes, which refuse a
  document before it is parsed, are left out.
- In `LogRing` a record's length is a number of units, taken from `Lengths`, which the
  assumptions bound from below only.
- In `UpdateReport` what a request says of a file that was replaced, or of a pin that
  was moved, while it was read may be a mixture, and `ReportIsTrue` leaves it out. A
  publication that says what the one before said is taken for the same file, and the
  checks of owner, mode and size are left out, which a file of the updater always
  passes. The time stamp is left out too.

- In `Install` there is one account and one script at a time; what was given as the
  account is found or not. The agent ends at once when its two files are no pair and
  serves at once when they are; launchd starts it again at every login. Several
  launchctl commands of one step that fail unseen count as one failure, and any that
  makes its script fail, a failing touch, chown or chmod included, is `CommandFails`. A
  copy cut short is no certificate and no key. Certificates expire within the 30 days the
  script looks ahead or not at all. The removal of Zebra Browser Print, log
  directories, receipts and the uninstaller's port report are left out.

## Plan

The plan is done: every component that keeps state is modelled, and every safety
invariant and action property that a passing run checks is proved. What a next step
could be: installations by hand beside an updater run, `Install` and `Updater` in one
model (hazard `updater.sh.in:349`), and a run that ends between the installation and
its probe (hazard `updater.sh.in:453`), as far as the next run makes good for it.

## Not modelled

Configuration and identity constants (`config.go`, `identity.go`, `version.go`),
CORS and the diagnostic endpoints but for the listing of printers and the update
object of /health (they read state and change none), property lists, the package
build, the naming check and CI are not modelled: they keep no state and interact
with nothing. What two installers do to one station at once is macOS's, and the
code makes no promise about it.
