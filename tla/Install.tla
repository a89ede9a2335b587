-------------------------------- MODULE Install --------------------------------
(***************************************************************************)
(* The installation scripts (src/packaging/scripts/preinstall.in and         *)
(* postinstall.in) and the uninstaller (src/packaging/uninstall.sh.in) on    *)
(* one station with one account: the files, the station's pair of             *)
(* certificate and key, its trust, and the two launchd jobs, while the        *)
(* account logs in and out, the operator pins the updater, the machine        *)
(* restarts, and a script ends between two steps.                            *)
(*                                                                         *)
(* A certificate and the key made with it are one and the same member of     *)
(* Certs.  What can fail is a set of kinds, each with the same bound:         *)
(*   command  a command whose failure ends the script with exit 1             *)
(*   launchd  launchctl bootout, enable or disable, and                       *)
(*   untrust  security remove-trusted-cert, whose failures nobody looks at    *)
(*   cut      the script ends, killed or with the machine                     *)
(***************************************************************************)
EXTENDS Naturals

CONSTANTS Certs,      \* pairs that can be made
          None,       \* no file
          Torn,       \* a file cut short
          Failing,    \* kinds of failure that may happen
          MaxFaults   \* bound on the failures of a kind

Kinds == {"command", "launchd", "untrust", "cut"}

ASSUME InstallAssumption ==
    /\ None \notin Certs /\ Torn \notin Certs /\ None # Torn
    /\ Failing \subseteq Kinds /\ MaxFaults \in Nat

VARIABLES pc,         \* the next step of the script, "idle" between scripts
          account,    \* did the script find the station's account?
          user,       \* is the account logged in at the console?
          files,      \* the two plists, the payload and the uninstaller
          cert, key,  \* the pair on disk
          aging,      \* does the certificate expire within 30 days?
          trusted,    \* certificates the System keychain trusts
          loaded,     \* launchd's jobs
          disabled,   \* launchd's disabled overrides
          marker,     \* INSTALL_MARKER
          trouble,    \* what happened to this script
          faults

pair == <<cert, key, aging>>
jobs == <<loaded, disabled>>
history == <<trouble, faults>>
vars == <<pc, account, user, files, pair, trusted, jobs, marker, history>>

Jobs == {"agent", "updater"}
Files == Jobs \cup {"payload", "uninstaller"}

PreSteps == {"clear", "ports", "payload", "account"}
PairSteps == {"cert", "new cert", "new key"}
AgentSteps == {"agent", "http", "https", "trust"}
UpdaterSteps == {"updater", "register", "registered"}
InstallSteps == PreSteps \cup PairSteps \cup AgentSteps \cup UpdaterSteps
UninstallSteps == {"stop updater", "drop updater", "stop agent", "drop agent", "untrust",
                   "drop pair", "drop payload", "drop uninstaller"}
Ends == {"complete", "failed", "removed"}
Steps == {"idle"} \cup InstallSteps \cup UninstallSteps \cup Ends

Fault(kind) ==
    /\ kind \in Failing
    /\ faults[kind] < MaxFaults
    /\ faults' = [faults EXCEPT ![kind] = @ + 1]

(* launchctl ... || true: what fails at a step goes unseen. *)
Unseen(failed) ==
    IF failed = {} THEN UNCHANGED history
    ELSE Fault("launchd") /\ trouble' = trouble \cup {"failure"}

(* a step that looks and goes on, and changes nothing *)
Look(step, next) ==
    /\ pc = step
    /\ pc' = next
    /\ UNCHANGED <<account, user, files, pair, trusted, jobs, marker, history>>

Init ==
    /\ pc = "idle" /\ account = FALSE /\ user = FALSE
    /\ files = {} /\ cert = None /\ key = None /\ aging = FALSE /\ trusted = {}
    /\ loaded = {} /\ disabled = {} /\ marker = FALSE
    /\ trouble = {} /\ faults = [kind \in Kinds |-> 0]

(* What the agent makes of the pair: without one it serves HTTP alone, and   *)
(* with two files that are none it ends as soon as it is started.            *)
Matching == cert \in Certs /\ key = cert
AgentUp == "agent" \in loaded /\ "payload" \in files /\ (Matching \/ None \in {cert, key})
SecureUp == AgentUp /\ Matching

-----------------------------------------------------------------------------
(* Either script works for the account it is given, or for whoever is logged *)
(* in at the console.                                                        *)
Begin(step) ==
    /\ pc = "idle"
    /\ pc' = step
    /\ account' \in {user, TRUE}
    /\ UNCHANGED <<user, files, pair, trusted, jobs, marker, history>>

StartInstall == Begin("clear")
StartUninstall == "uninstaller" \in files /\ Begin("stop updater")

ClearGround ==
    /\ pc = "clear"
    /\ pc' = "ports"
    /\ \E failed \in SUBSET {"bootout"} :
           /\ Unseen(failed)
           /\ loaded' = IF account /\ failed = {} THEN loaded \ {"agent"} ELSE loaded
    /\ UNCHANGED <<account, user, files, pair, trusted, disabled, marker>>

ProvePorts == Look("ports", IF AgentUp THEN "failed" ELSE "payload")

LayPayload ==
    /\ pc = "payload"
    /\ pc' = "account"
    /\ files' = Files
    /\ UNCHANGED <<account, user, pair, trusted, jobs, marker, history>>

FindAccount ==
    /\ pc = "account"
    /\ account' \in {user, TRUE}
    /\ pc' = IF account' THEN "cert" ELSE "failed"
    /\ UNCHANGED <<user, files, pair, trusted, jobs, marker, history>>

(* cert_still_good: two files, the first a certificate that lasts a while    *)
StillGood == cert \in Certs /\ key # None /\ ~aging

KeepPair == StillGood /\ Look("cert", "agent")

(* Fault: the certificate that is replaced keeps its trust. *)
ReplaceTrusted == ~StillGood /\ Look("cert", "new cert")

DropOldTrust ==
    /\ pc = "cert"
    /\ ~StillGood
    /\ pc' = "new cert"
    /\ \/ trusted' = trusted \ {cert} /\ UNCHANGED history
       \/ Fault("untrust") /\ UNCHANGED <<trusted, trouble>>
    /\ UNCHANGED <<account, user, files, pair, jobs, marker>>

(* generate_cert copies the certificate first and its key after it. *)
CopyCert ==
    /\ pc = "new cert"
    /\ pc' = "new key"
    /\ cert' \in Certs \ (trusted \cup {cert, key})
    /\ aging' = FALSE
    /\ UNCHANGED <<account, user, files, key, trusted, jobs, marker, history>>

CopyKey ==
    /\ pc = "new key"
    /\ pc' = "agent"
    /\ key' = cert
    /\ UNCHANGED <<account, user, files, cert, aging, trusted, jobs, marker, history>>

(* Fault: the override an uninstallation left behind is not cleared. *)
BootstrapAsDisabled ==
    /\ pc = "agent"
    /\ IF user /\ "agent" \notin disabled
       THEN loaded' = loaded \cup {"agent"} /\ pc' = "http"
       ELSE loaded' = loaded \ {"agent"} /\ pc' = "failed"
    /\ UNCHANGED <<account, user, files, pair, trusted, disabled, marker, history>>

(* bootout, enable and bootstrap, which needs a session of the account and a *)
(* job that launchd neither has nor is told to leave alone                   *)
BootstrapAgent ==
    /\ pc = "agent"
    /\ \E failed \in SUBSET {"bootout", "enable"} :
           LET left == IF "bootout" \in failed THEN loaded ELSE loaded \ {"agent"}
               off == IF "enable" \in failed THEN disabled ELSE disabled \ {"agent"}
           IN /\ Unseen(failed)
              /\ disabled' = off
              /\ IF user /\ "agent" \notin left \cup off
                 THEN loaded' = left \cup {"agent"} /\ pc' = "http"
                 ELSE loaded' = left /\ pc' = "failed"
    /\ UNCHANGED <<account, user, files, pair, trusted, marker>>

ProbeHttp == Look("http", IF AgentUp THEN "https" ELSE "failed")

ProbeHttps == Look("https", IF SecureUp THEN "trust" ELSE "failed")

(* Fault: trust is read off the keychain, where any certificate of ours does. *)
FindTrustByName == trusted # {} /\ Look("trust", "updater")

(* The plain request is accepted: the keychain is left alone. *)
FindTrust == SecureUp /\ cert \in trusted /\ Look("trust", "updater")

AddTrust ==
    /\ pc = "trust"
    /\ ~(SecureUp /\ cert \in trusted)
    /\ trusted' = trusted \cup {cert}
    /\ pc' = IF SecureUp THEN "updater" ELSE "failed"
    /\ UNCHANGED <<account, user, files, pair, jobs, marker, history>>

(* registered already, or pinned *)
LeaveUpdater == "updater" \in loaded \cup disabled /\ Look("updater", "complete")

Mark ==
    /\ pc = "updater"
    /\ "updater" \notin loaded \cup disabled
    /\ pc' = "register"
    /\ marker' = TRUE
    /\ UNCHANGED <<account, user, files, pair, trusted, jobs, history>>

(* launchd refuses a job it has or that is disabled. *)
Register ==
    /\ pc = "register"
    /\ IF "updater" \in loaded \cup disabled
       THEN pc' = "failed" /\ marker' = FALSE /\ UNCHANGED loaded
       ELSE loaded' = loaded \cup {"updater"} /\ pc' = "registered" /\ UNCHANGED marker
    /\ UNCHANGED <<account, user, files, pair, trusted, disabled, history>>

Unmark ==
    /\ pc = "registered"
    /\ pc' = "complete"
    /\ marker' = FALSE
    /\ UNCHANGED <<account, user, files, pair, trusted, jobs, history>>

-----------------------------------------------------------------------------
(* Fault: removing the plist is taken for stopping the job. *)
EnableUpdater ==
    /\ pc = "stop updater"
    /\ pc' = "drop updater"
    /\ disabled' = disabled \ {"updater"}
    /\ UNCHANGED <<account, user, files, pair, trusted, loaded, marker, history>>

(* bootout and, for the pin, enable *)
StopUpdater ==
    /\ pc = "stop updater"
    /\ pc' = "drop updater"
    /\ \E failed \in SUBSET {"bootout", "enable"} :
           /\ Unseen(failed)
           /\ loaded' = IF "bootout" \in failed THEN loaded ELSE loaded \ {"updater"}
           /\ disabled' = IF "enable" \in failed THEN disabled ELSE disabled \ {"updater"}
    /\ UNCHANGED <<account, user, files, pair, trusted, marker>>

Drop(step, file, next) ==
    /\ pc = step
    /\ pc' = next
    /\ files' = files \ {file}
    /\ UNCHANGED <<account, user, pair, trusted, jobs, marker, history>>

StopAgent ==
    /\ pc = "stop agent"
    /\ pc' = "drop agent"
    /\ \/ ~account /\ UNCHANGED <<jobs, history>>
       \/ /\ account
          /\ \E failed \in SUBSET {"bootout", "disable"} :
                 /\ Unseen(failed)
                 /\ loaded' = IF "bootout" \in failed THEN loaded ELSE loaded \ {"agent"}
                 /\ disabled' = IF "disable" \in failed THEN disabled
                                ELSE disabled \cup {"agent"}
    /\ UNCHANGED <<account, user, files, pair, trusted, marker>>

(* Without an account nobody knows where its certificate is. *)
Untrust ==
    /\ pc = "untrust"
    /\ pc' = "drop pair"
    /\ \/ account /\ trusted' = trusted \ {cert} /\ UNCHANGED history
       \/ account /\ Fault("untrust") /\ UNCHANGED <<trusted, trouble>>
       \/ ~account /\ UNCHANGED <<trusted, history>>
    /\ UNCHANGED <<account, user, files, pair, jobs, marker>>

(* --keep-cert or not *)
DropPair ==
    /\ pc = "drop pair"
    /\ pc' = "drop payload"
    /\ \/ account /\ cert' = None /\ key' = None /\ aging' = FALSE
       \/ UNCHANGED pair
    /\ UNCHANGED <<account, user, files, trusted, jobs, marker, history>>

DropFiles ==
    \/ Drop("drop updater", "updater", "stop agent")
    \/ Drop("drop agent", "agent", "untrust")
    \/ Drop("drop payload", "payload", "drop uninstaller")
    \/ Drop("drop uninstaller", "uninstaller", "removed")

Finish ==
    /\ pc \in Ends
    /\ pc' = "idle"
    /\ account' = FALSE
    /\ trouble' = {}
    /\ UNCHANGED <<user, files, pair, trusted, jobs, marker, faults>>

-----------------------------------------------------------------------------
(* A copy that does not end leaves its target as it was, or torn. *)
Unfinished ==
    /\ cert' \in IF pc = "new cert" THEN {cert, Torn} ELSE {cert}
    /\ key' \in IF pc = "new key" THEN {key, Torn} ELSE {key}

(* a held port, no space, an owner that cannot be set, a job launchd         *)
(* refuses, a probe without an answer, a keychain that cannot be changed; the *)
(* marker is taken away only for a job that is refused                       *)
CommandFails ==
    /\ pc \in InstallSteps \ {"clear", "payload", "account", "updater"}
    /\ Fault("command")
    /\ trouble' = trouble \cup {"failure"}
    /\ pc' = "failed"
    /\ Unfinished
    /\ loaded' \in IF pc = "agent" THEN {loaded, loaded \ {"agent"}} ELSE {loaded}
    /\ disabled' \in IF pc = "agent" THEN {disabled, disabled \ {"agent"}} ELSE {disabled}
    /\ trusted' \in IF pc = "trust" THEN {trusted, trusted \cup {cert}} ELSE {trusted}
    /\ marker' \in IF pc = "register" THEN {marker, FALSE} ELSE {marker}
    /\ UNCHANGED <<account, user, files, aging>>

Cut ==
    /\ pc # "idle"
    /\ Fault("cut")
    /\ pc' = "idle"
    /\ account' = FALSE
    /\ trouble' = {}
    /\ Unfinished
    /\ UNCHANGED <<user, files, aging, trusted, jobs, marker>>

(* The machine starts again between two scripts: /var/run is empty. *)
Reboot ==
    /\ pc = "idle"
    /\ user' = FALSE
    /\ loaded' = ({"updater"} \cap files) \ disabled
    /\ marker' = FALSE
    /\ UNCHANGED <<pc, account, files, pair, trusted, disabled, history>>

(* What others do while a script runs is written down for it. *)
Meanwhile ==
    /\ trouble' = IF pc = "idle" THEN trouble ELSE trouble \cup {"outside"}
    /\ UNCHANGED <<pc, account, files, cert, key, trusted, marker, faults>>

Login ==
    /\ ~user
    /\ user' = TRUE
    /\ loaded' = loaded \cup (({"agent"} \cap files) \ disabled)
    /\ Meanwhile /\ UNCHANGED <<aging, disabled>>

Logout ==
    /\ user
    /\ user' = FALSE
    /\ loaded' = loaded \ {"agent"}
    /\ Meanwhile /\ UNCHANGED <<aging, disabled>>

Age ==
    /\ cert \in Certs /\ ~aging
    /\ aging' = TRUE
    /\ Meanwhile /\ UNCHANGED <<user, jobs>>

(* The operator pins the updater, or resumes it. *)
Pin ==
    /\ "updater" \notin disabled
    /\ disabled' = disabled \cup {"updater"}
    /\ Meanwhile /\ UNCHANGED <<user, aging, loaded>>

Resume ==
    /\ "updater" \in disabled
    /\ disabled' = disabled \ {"updater"}
    /\ loaded' = loaded \cup ({"updater"} \cap files)
    /\ Meanwhile /\ UNCHANGED <<user, aging>>

Install ==
    \/ StartInstall \/ ClearGround \/ ProvePorts \/ LayPayload \/ FindAccount
    \/ KeepPair \/ DropOldTrust \/ CopyCert \/ CopyKey
    \/ BootstrapAgent \/ ProbeHttp \/ ProbeHttps \/ FindTrust \/ AddTrust
    \/ LeaveUpdater \/ Mark \/ Register \/ Unmark

Uninstall == StartUninstall \/ StopUpdater \/ StopAgent \/ Untrust \/ DropPair \/ DropFiles

World == Cut \/ Reboot \/ Login \/ Logout \/ Age \/ Pin \/ Resume

Next == Install \/ Uninstall \/ Finish \/ CommandFails \/ World

Spec == Init /\ [][Next]_vars

-----------------------------------------------------------------------------
TypeOK ==
    /\ pc \in Steps /\ account \in BOOLEAN /\ user \in BOOLEAN
    /\ files \subseteq Files
    /\ cert \in Certs \cup {None, Torn} /\ key \in Certs \cup {None, Torn}
    /\ aging \in BOOLEAN /\ trusted \subseteq Certs
    /\ loaded \subseteq Jobs /\ disabled \subseteq Jobs /\ ("agent" \in loaded => user)
    /\ marker \in BOOLEAN
    /\ trouble \subseteq {"failure", "outside"} /\ faults \in [Kinds -> 0..MaxFaults]

Never(kind) == faults[kind] = 0

(* The keychain trusts no certificate but the one on disk, however often     *)
(* certificates are replaced and wherever the scripts end, as long as the    *)
(* command that takes trust away works: "or the keychain accumulates trusted *)
(* certs nobody can account for" (postinstall.in:221-222).                   *)
TrustIsAccounted == Never("untrust") => trusted \subseteq {cert}

(* An installation that reports success has left an agent that serves HTTP   *)
(* and HTTPS under a certificate the keychain trusts, and an updater that is *)
(* registered or pinned; unless somebody logged out or the like under it.    *)
SuccessIsReal ==
    pc = "complete" /\ "outside" \notin trouble =>
        /\ SecureUp
        /\ cert \in trusted
        /\ "updater" \in loaded \cup disabled

(* An installation in which every command works and that nobody disturbs     *)
(* fails for want of a session only, or because the two files of the pair do *)
(* not belong together: never because of what an earlier installation or     *)
(* uninstallation left of its own, cut or not (postinstall.in:248-256).      *)
FailureHasCause ==
    pc = "failed" /\ trouble = {} => ~user \/ cert # key

(* No step of an installation stops the updater that may have started it,    *)
(* takes away an operator's pin, or starts an updater that is pinned, even   *)
(* if it was pinned after the script had looked (postinstall.in:318-321).    *)
InstallLeavesUpdaterAlone ==
    [][(pc \in InstallSteps /\ pc' \notin {pc, "idle"}) =>
           /\ "updater" \in loaded => "updater" \in loaded'
           /\ "updater" \in disabled => /\ "updater" \in disabled'
                                        /\ "updater" \in loaded' => "updater" \in loaded
      ]_vars

(* An uninstallation that has come to its end and knew the account has       *)
(* removed every file, and the trust if that can be taken away, whatever it  *)
(* could not do on its way there.  If no launchctl failed on it either, and  *)
(* nobody disturbed it, no job is left that could bring the agent back, and  *)
(* no pin of the updater (uninstall.sh.in:15-16).                            *)
UninstallLeavesNothing ==
    pc = "removed" /\ account =>
        /\ files = {}
        /\ Never("untrust") => trusted = {}
        /\ trouble = {} => loaded = {} /\ "updater" \notin disabled

(* Whatever is cut, the uninstaller stays until no other file does.          *)
UninstallerIsLast == files # {} => "uninstaller" \in files

(* Unless a script is cut or ended by a command that fails, the marker that  *)
(* makes the updater skip its runs stands only around the registration of    *)
(* the updater, and not after launchd has refused that either.               *)
MarkerIsBracketed ==
    Never("cut") /\ Never("command") => (marker => pc \in {"register", "registered"})
=============================================================================
