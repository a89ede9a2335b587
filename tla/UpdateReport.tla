----------------------------- MODULE UpdateReport -----------------------------
(***************************************************************************)
(* The agent's reader of the updater's state (src/update.go), for the update *)
(* object of GET /health, next to a running updater: the public status file  *)
(* is looked at, opened, parsed, and then launchd is asked for the pin.      *)
(*                                                                         *)
(* The updater replaces the file by a rename, so what an open descriptor     *)
(* reads stays what it was when it was opened; the new file may or may not   *)
(* have the inode number of one that is gone.  The four lines of the file    *)
(* are the record Text makes of a publication; its time stamp, owner, mode   *)
(* and size, which the updater always gets right, are left out, and a file   *)
(* that says the same as the one before is taken for the same file.          *)
(***************************************************************************)
EXTENDS Updater

VARIABLES stage,     \* of the read: "idle", "stat", "pin" or "answer"
          replaced,  \* was the file replaced since the read began?
          repinned,  \* was the pin changed?
          report,    \* what is known of the report so far
          hindered   \* has something kept the reader from an answer?

reader == <<stage, replaced, repinned, report, hindered>>
reportVars == <<vars, reader>>

Absent == [status |-> "none", latest |-> None, quarantined |-> "absent", pinned |-> FALSE]

(* the lines write_status prints *)
Text(p) ==
    [status |-> p.status,
     latest |-> p.latest,
     quarantine |-> IF p.latest = None THEN "unknown"
                    ELSE IF p.quarantined THEN "true" ELSE "false"]

(* Fault: an outcome the updater got later is missing. *)
ValidUpdateStatusOfFirstRelease(status) ==
    status \in {"skipped-install", "manifest-fetch-failed", "manifest-invalid", "current",
                "quarantined", "package-fetch-failed", "checksum-failed", "trust-failed",
                "updated", "install-failed", "rolled-back", "rollback-failed"}

ValidUpdateStatus(status) ==
    status \in {"skipped-install", "skipped-no-user", "manifest-fetch-failed",
                "manifest-invalid", "current", "quarantined", "rollback-cache-failed",
                "package-fetch-failed", "checksum-failed", "trust-failed", "updated",
                "install-failed", "rolled-back", "rollback-failed"}

(* parsePublishedUpdateStatus: the verdict is there if and only if the       *)
(* version is                                                                *)
Parses(text) ==
    /\ ValidUpdateStatus(text.status)
    /\ text.quarantine \in IF text.latest = None THEN {"unknown"} ELSE {"true", "false"}

Quarantined(text) == IF text.quarantine = "unknown" THEN "absent" ELSE text.quarantine

-----------------------------------------------------------------------------
ReportInit ==
    /\ Init
    /\ stage = "idle" /\ report = Absent
    /\ replaced = FALSE /\ repinned = FALSE /\ hindered = FALSE

Omit == stage' = "answer" /\ report' = Absent

(* os.Lstat; there is no file before the first publication *)
Lstat ==
    /\ stage = "idle"
    /\ IF published.status = "none" THEN Omit /\ hindered' = TRUE
       ELSE stage' = "stat" /\ UNCHANGED <<report, hindered>>
    /\ UNCHANGED <<vars, replaced, repinned>>

(* os.Open finds the file it looked at, or one that took its place *)
Open ==
    LET text == Text(published)
    IN /\ stage = "stat"
       /\ \/ /\ IF Parses(text)
                THEN /\ stage' = "pin"
                     /\ report' = [Absent EXCEPT !.status = text.status,
                                                 !.latest = text.latest,
                                                 !.quarantined = Quarantined(text)]
                ELSE Omit
             /\ UNCHANGED hindered
          \/ replaced /\ Omit /\ hindered' = TRUE
       /\ UNCHANGED <<vars, replaced, repinned>>

(* launchctl print-disabled; a failure or a time-out omits the report *)
ReadLaunchdPin ==
    /\ stage = "pin"
    /\ \/ stage' = "answer" /\ report' = [report EXCEPT !.pinned = pinned] /\ UNCHANGED hindered
       \/ Omit /\ hindered' = TRUE
    /\ UNCHANGED <<vars, replaced, repinned>>

Answer ==
    /\ stage = "answer"
    /\ stage' = "idle" /\ report' = Absent
    /\ replaced' = FALSE /\ repinned' = FALSE /\ hindered' = FALSE
    /\ UNCHANGED vars

Read == Lstat \/ Open \/ ReadLaunchdPin \/ Answer

(* the updater goes on meanwhile *)
Meanwhile ==
    /\ Next
    /\ UNCHANGED <<stage, report, hindered>>
    /\ replaced' = (stage # "idle" /\ (replaced \/ published' # published))
    /\ repinned' = (stage # "idle" /\ (repinned \/ pinned' # pinned))

ReportNext == Read \/ Meanwhile

ReportSpec == ReportInit /\ [][ReportNext]_reportVars

-----------------------------------------------------------------------------
(* What an update object says is public, all of it together, unless the file *)
(* was replaced during the request, and so is the pin; and the object is     *)
(* left out only if nothing was published yet, the file was replaced under   *)
(* the reader, or launchd did not answer: the Go parser knows every outcome  *)
(* the shell script writes (src/update.go:45-47, 66-68, 170-181).            *)
ReportIsTrue ==
    stage = "answer" =>
        \/ report = Absent /\ hindered
        \/ /\ \/ replaced
              \/ /\ report.status = published.status
                 /\ report.latest = published.latest
                 /\ report.quarantined = "absent" <=> published.latest = None
                 /\ report.quarantined = "true" <=> published.quarantined
           /\ report.pinned = pinned \/ repinned
=============================================================================
