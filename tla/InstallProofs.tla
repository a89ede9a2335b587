----------------------------- MODULE InstallProofs -----------------------------
(***************************************************************************)
(* Proofs about Install, for any set of pairs and any number of failures.   *)
(*                                                                         *)
(* What a step may rely on is what the steps before it have left, as long   *)
(* as nobody else has been at the station: PairInv says it of the pair,      *)
(* KeychainInv of the trust, ServingInv of the agent and the files an        *)
(* installation has laid down, RemovalInv of what an uninstallation has      *)
(* taken away so far.  The properties follow from them.                     *)
(***************************************************************************)
EXTENDS Install, TLAPS

Calm == "outside" \notin trouble

Started == {"http", "https", "trust"} \cup UpdaterSteps \cup {"complete"}
Secured == {"trust"} \cup UpdaterSteps \cup {"complete"}
Trusting == UpdaterSteps \cup {"complete"}
Laid == {"account", "agent"} \cup PairSteps \cup Started

(* the pair, from the moment there is one *)
PairInv ==
    /\ pc = "new key" => cert \in Certs
    /\ pc \in {"agent"} \cup Started => cert \in Certs /\ key # None
    /\ pc \in Secured => Matching

Untrusted == {"drop pair", "drop payload", "drop uninstaller", "removed"}

KeychainInv ==
    Never("untrust") =>
        /\ trusted \subseteq {cert}
        /\ pc = "new cert" \/ (pc \in Untrusted /\ account) => trusted = {}

ServingInv ==
    /\ pc \in Laid => files = Files
    /\ pc \in Trusting => cert \in trusted
    /\ Calm =>
        /\ pc \in Started => "agent" \in loaded
        /\ pc \in {"registered", "complete"} => "updater" \in loaded \cup disabled

(* A script nobody has disturbed, and none of whose commands has failed. *)
QuietInv ==
    /\ pc = "idle" => trouble = {}
    /\ trouble = {} =>
        /\ pc # "idle" /\ user => account
        /\ pc = "ports" => "agent" \notin loaded
        /\ pc = "register" => "updater" \notin loaded \cup disabled

Stopped == {"stop agent", "drop agent", "untrust"} \cup Untrusted
RemovalInv ==
    /\ files # {} => "uninstaller" \in files
    /\ pc \in Stopped => "updater" \notin files
    /\ pc \in {"untrust"} \cup Untrusted => "agent" \notin files
    /\ pc \in {"drop uninstaller", "removed"} => "payload" \notin files
    /\ pc = "removed" => "uninstaller" \notin files
    /\ trouble = {} =>
        /\ pc \in {"drop updater"} \cup Stopped => "updater" \notin loaded \cup disabled
        /\ pc \in {"drop agent", "untrust"} \cup Untrusted /\ account =>
               "agent" \notin loaded

-----------------------------------------------------------------------------
(* A failure is of a kind that may happen, and is counted for it. *)
LEMMA FaultCounts ==
    ASSUME TypeOK, NEW kind \in Kinds, Fault(kind)
    PROVE  faults' \in [Kinds -> 0..MaxFaults] /\ ~Never(kind)'
  BY InstallAssumption DEF TypeOK, Fault, Never

(* What goes unseen is counted too, and is this script's trouble. *)
LEMMA UnseenCounts ==
    ASSUME TypeOK, NEW failed, Unseen(failed)
    PROVE  /\ faults' \in [Kinds -> 0..MaxFaults]
           /\ \A kind \in Kinds \ {"launchd"} : Never(kind)' <=> Never(kind)
           /\ trouble' = IF failed = {} THEN trouble ELSE trouble \cup {"failure"}
  <1>1. CASE failed = {}
    BY <1>1 DEF Unseen, TypeOK, history, Never
  <1>2. CASE failed # {}
    <2>1. Fault("launchd") /\ trouble' = trouble \cup {"failure"}
      BY <1>2 DEF Unseen
    <2>2. "launchd" \in Kinds
      BY DEF Kinds
    <2>3. \A kind \in Kinds \ {"launchd"} : faults'[kind] = faults[kind]
      BY <2>1 DEF Fault, TypeOK
    <2>4. QED
      BY <1>2, <2>1, <2>2, <2>3, FaultCounts DEF Never
  <1>3. QED
    BY <1>1, <1>2

LEMMA UnchangedFaults ==
    ASSUME NEW kind, UNCHANGED faults
    PROVE  Never(kind)' <=> Never(kind)
  BY DEF Never

(* Nothing happens. *)
LEMMA Stuttering ==
    ASSUME UNCHANGED vars
    PROVE  /\ TypeOK => TypeOK'
           /\ PairInv => PairInv'
  BY DEF vars, pair, jobs, history, TypeOK, PairInv, Matching

(* A step keeps the types: what is trusted is a certificate, as PairInv has  *)
(* it.                                                                       *)
LEMMA TypeStep ==
    ASSUME TypeOK, PairInv, [Next]_vars
    PROVE  TypeOK'
  <1> USE DEF TypeOK, PairInv, pair, jobs, history, Matching, Files, Jobs,
     Started, Secured, Steps, InstallSteps, UninstallSteps, PreSteps, PairSteps,
     AgentSteps, UpdaterSteps, Ends
  <1>1. CASE StartInstall \/ StartUninstall
    BY <1>1 DEF StartInstall, StartUninstall, Begin
  <1>2. CASE ClearGround
    <2>1. PICK failed \in SUBSET {"bootout"} : Unseen(failed) /\ loaded' \subseteq loaded
      BY <1>2 DEF ClearGround
    <2>2. faults' \in [Kinds -> 0..MaxFaults] /\ trouble' \subseteq {"failure", "outside"}
      BY <2>1, UnseenCounts
    <2>3. QED
      BY <1>2, <2>1, <2>2 DEF ClearGround
  <1>3. CASE ProvePorts
    BY <1>3 DEF ProvePorts, Look
  <1>4. CASE LayPayload
    BY <1>4 DEF LayPayload
  <1>5. CASE FindAccount
    BY <1>5 DEF FindAccount
  <1>6. CASE KeepPair
    BY <1>6 DEF KeepPair, Look, StillGood
  <1>7. CASE DropOldTrust
    <2>1. faults' \in [Kinds -> 0..MaxFaults]
      BY <1>7, FaultCounts DEF DropOldTrust, Kinds
    <2>2. trusted' \subseteq Certs
      BY <1>7 DEF DropOldTrust
    <2>3. QED
      BY <1>7, <2>1, <2>2 DEF DropOldTrust
  <1>8. CASE CopyCert
    BY <1>8 DEF CopyCert
  <1>9. CASE CopyKey
    BY <1>9 DEF CopyKey
  <1>10. CASE BootstrapAgent
    <2>1. PICK failed \in SUBSET {"bootout", "enable"} :
              /\ Unseen(failed)
              /\ disabled' \subseteq disabled
              /\ loaded' \subseteq loaded \cup {"agent"}
              /\ "agent" \in loaded' => "agent" \in loaded \/ user
              /\ pc' \in {"http", "failed"}
      BY <1>10 DEF BootstrapAgent
    <2>2. faults' \in [Kinds -> 0..MaxFaults] /\ trouble' \subseteq {"failure", "outside"}
      BY <2>1, UnseenCounts
    <2>3. QED
      BY <1>10, <2>1, <2>2 DEF BootstrapAgent
  <1>11. CASE ProbeHttp \/ ProbeHttps
    BY <1>11 DEF ProbeHttp, ProbeHttps, Look
  <1>12. CASE FindTrust
    BY <1>12 DEF FindTrust, Look
  <1>13. CASE AddTrust
    BY <1>13 DEF AddTrust
  <1>14. CASE LeaveUpdater
    BY <1>14 DEF LeaveUpdater, Look
  <1>15. CASE Mark
    BY <1>15 DEF Mark
  <1>16. CASE Register
    <2>1. loaded' \subseteq loaded \cup {"updater"}
      BY <1>16 DEF Register
    <2>2. pc' \in Steps
      BY <1>16 DEF Register
    <2>3. marker' \in BOOLEAN
      BY <1>16 DEF Register
    <2>4. QED
      BY <1>16, <2>1, <2>2, <2>3 DEF Register
  <1>17. CASE Unmark
    BY <1>17 DEF Unmark
  <1>18. CASE StopUpdater
    <2>1. PICK failed \in SUBSET {"bootout", "enable"} :
              Unseen(failed) /\ loaded' \subseteq loaded /\ disabled' \subseteq disabled
      BY <1>18 DEF StopUpdater
    <2>2. faults' \in [Kinds -> 0..MaxFaults] /\ trouble' \subseteq {"failure", "outside"}
      BY <2>1, UnseenCounts
    <2>3. QED
      BY <1>18, <2>1, <2>2 DEF StopUpdater
  <1>19. CASE StopAgent
    <2>1. CASE ~account
      BY <1>19, <2>1 DEF StopAgent
    <2>2. CASE account
      <3>1. PICK failed \in SUBSET {"bootout", "disable"} :
                /\ Unseen(failed) /\ loaded' \subseteq loaded
                /\ disabled' \subseteq disabled \cup {"agent"}
        BY <1>19, <2>2 DEF StopAgent
      <3>2. faults' \in [Kinds -> 0..MaxFaults] /\ trouble' \subseteq {"failure", "outside"}
        BY <3>1, UnseenCounts
      <3>3. QED
        BY <1>19, <3>1, <3>2 DEF StopAgent
    <2>3. QED
      BY <2>1, <2>2
  <1>20. CASE Untrust
    <2>1. faults' \in [Kinds -> 0..MaxFaults]
      BY <1>20, FaultCounts DEF Untrust, Kinds
    <2>2. trusted' \subseteq Certs
      BY <1>20 DEF Untrust
    <2>3. QED
      BY <1>20, <2>1, <2>2 DEF Untrust
  <1>21. CASE DropPair
    BY <1>21 DEF DropPair
  <1>22. CASE DropFiles
    BY <1>22 DEF DropFiles, Drop
  <1>23. CASE Finish
    BY <1>23 DEF Finish
  <1>24. CASE CommandFails
    <2>1. faults' \in [Kinds -> 0..MaxFaults]
      BY <1>24, FaultCounts DEF CommandFails, Kinds
    <2>2. trusted' \subseteq Certs
      BY <1>24 DEF CommandFails
    <2>3. cert' \in Certs \cup {None, Torn} /\ key' \in Certs \cup {None, Torn}
      BY <1>24 DEF CommandFails, Unfinished
    <2>4. loaded' \subseteq loaded /\ disabled' \subseteq disabled /\ marker' \in BOOLEAN
      BY <1>24 DEF CommandFails
    <2>5. QED
      BY <1>24, <2>1, <2>2, <2>3, <2>4 DEF CommandFails
  <1>25. CASE Cut
    <2>1. faults' \in [Kinds -> 0..MaxFaults]
      BY <1>25, FaultCounts DEF Cut, Kinds
    <2>2. cert' \in Certs \cup {None, Torn} /\ key' \in Certs \cup {None, Torn}
      BY <1>25 DEF Cut, Unfinished
    <2>3. QED
      BY <1>25, <2>1, <2>2 DEF Cut
  <1>26. CASE Reboot
    BY <1>26 DEF Reboot
  <1>27. CASE Login \/ Logout
    <2>1. loaded' \subseteq Jobs /\ ("agent" \in loaded' => user')
      BY <1>27 DEF Login, Logout
    <2>2. trouble' \subseteq {"failure", "outside"} /\ user' \in BOOLEAN
      BY <1>27 DEF Login, Logout, Meanwhile
    <2>3. pc' = pc /\ UNCHANGED <<account, files, pair, trusted, disabled, marker, faults>>
      BY <1>27 DEF Login, Logout, Meanwhile
    <2> HIDE DEF Steps, PairInv
    <2>4. QED
      BY <2>1, <2>2, <2>3
  <1>28. CASE Age
    BY <1>28 DEF Age, Meanwhile
  <1>29. CASE Pin \/ Resume
    BY <1>29 DEF Pin, Resume, Meanwhile
  <1>30. CASE UNCHANGED vars
    BY <1>30, Stuttering
  <1>31. QED
    BY <1>1, <1>2, <1>3, <1>4, <1>5, <1>6, <1>7, <1>8, <1>9, <1>10, <1>11, <1>12,
       <1>13, <1>14, <1>15, <1>16, <1>17, <1>18, <1>19, <1>20, <1>21, <1>22,
       <1>23, <1>24, <1>25, <1>26, <1>27, <1>28, <1>29, <1>30 DEF Next, Install,
       Uninstall, World

(* A step keeps PairInv: KeepPair and CopyKey establish it, and nothing that *)
(* follows in the script touches the pair.                                   *)
LEMMA PairStep ==
    ASSUME TypeOK, PairInv, [Next]_vars
    PROVE  PairInv'
  <1> USE DEF PairInv, Matching, pair, AgentUp, SecureUp, Started, Secured,
     AgentSteps, UpdaterSteps, Ends
  <1>1. CASE StartInstall \/ StartUninstall
    BY <1>1 DEF StartInstall, StartUninstall, Begin
  <1>2. CASE ClearGround
    BY <1>2 DEF ClearGround, Unseen, Fault
  <1>3. CASE ProvePorts
    BY <1>3 DEF ProvePorts, Look
  <1>4. CASE LayPayload
    BY <1>4 DEF LayPayload
  <1>5. CASE FindAccount
    BY <1>5 DEF FindAccount
  <1>6. CASE KeepPair
    BY <1>6 DEF KeepPair, Look, StillGood
  <1>7. CASE DropOldTrust
    BY <1>7 DEF DropOldTrust, Fault
  <1>8. CASE CopyCert
    BY <1>8 DEF CopyCert
  <1>9. CASE CopyKey
    BY <1>9, InstallAssumption DEF CopyKey
  <1>10. CASE BootstrapAgent
    BY <1>10 DEF BootstrapAgent, Unseen, Fault
  <1>11. CASE ProbeHttp \/ ProbeHttps
    BY <1>11 DEF ProbeHttp, ProbeHttps, Look
  <1>12. CASE FindTrust
    BY <1>12 DEF FindTrust, Look
  <1>13. CASE AddTrust
    BY <1>13 DEF AddTrust
  <1>14. CASE LeaveUpdater
    BY <1>14 DEF LeaveUpdater, Look
  <1>15. CASE Mark
    BY <1>15 DEF Mark
  <1>16. CASE Register
    BY <1>16 DEF Register
  <1>17. CASE Unmark
    BY <1>17 DEF Unmark
  <1>18. CASE StopUpdater
    BY <1>18 DEF StopUpdater, Unseen, Fault
  <1>19. CASE StopAgent
    BY <1>19 DEF StopAgent, Unseen, Fault
  <1>20. CASE Untrust
    BY <1>20 DEF Untrust, Fault
  <1>21. CASE DropPair
    BY <1>21 DEF DropPair
  <1>22. CASE DropFiles
    BY <1>22 DEF DropFiles, Drop
  <1>23. CASE Finish
    BY <1>23 DEF Finish
  <1>24. CASE CommandFails
    BY <1>24 DEF CommandFails, Unfinished, Fault
  <1>25. CASE Cut
    BY <1>25 DEF Cut, Unfinished, Fault
  <1>26. CASE Reboot
    BY <1>26 DEF Reboot
  <1>27. CASE Login \/ Logout
    BY <1>27 DEF Login, Logout, Meanwhile
  <1>28. CASE Age
    BY <1>28 DEF Age, Meanwhile
  <1>29. CASE Pin \/ Resume
    BY <1>29 DEF Pin, Resume, Meanwhile
  <1>30. CASE UNCHANGED vars
    BY <1>30 DEF vars
  <1>31. QED
    BY <1>1, <1>2, <1>3, <1>4, <1>5, <1>6, <1>7, <1>8, <1>9, <1>10, <1>11, <1>12,
       <1>13, <1>14, <1>15, <1>16, <1>17, <1>18, <1>19, <1>20, <1>21, <1>22,
       <1>23, <1>24, <1>25, <1>26, <1>27, <1>28, <1>29, <1>30 DEF Next, Install,
       Uninstall, World

(* A step keeps KeychainInv: a certificate is replaced after its trust is    *)
(* gone.                                                                     *)
LEMMA KeychainStep ==
    ASSUME TypeOK, KeychainInv, PairInv, [Next]_vars
    PROVE  KeychainInv'
  <1> USE DEF TypeOK, KeychainInv, PairInv, pair, jobs, history, Never, Kinds,
     Untrusted, Started, Secured, Matching, Steps, InstallSteps, UninstallSteps,
     PreSteps, PairSteps, AgentSteps, UpdaterSteps, Ends
  <1>1. CASE StartInstall \/ StartUninstall
    BY <1>1 DEF StartInstall, StartUninstall, Begin
  <1>2. CASE ClearGround
    BY <1>2 DEF ClearGround, Unseen, Fault
  <1>3. CASE ProvePorts
    BY <1>3 DEF ProvePorts, Look
  <1>4. CASE LayPayload
    BY <1>4 DEF LayPayload
  <1>5. CASE FindAccount
    BY <1>5 DEF FindAccount
  <1>6. CASE KeepPair
    BY <1>6 DEF KeepPair, Look, StillGood
  <1>7. CASE DropOldTrust
    <2>1. "untrust" \in Kinds /\ Never("untrust") \in BOOLEAN
      BY DEF Kinds, Never
    <2>2. CASE Fault("untrust")
      BY <2>1, <2>2, FaultCounts
    <2>3. CASE ~Fault("untrust")
      BY <1>7, <2>3 DEF DropOldTrust
    <2>4. QED
      BY <2>2, <2>3
  <1>8. CASE CopyCert
    BY <1>8 DEF CopyCert
  <1>9. CASE CopyKey
    BY <1>9 DEF CopyKey
  <1>10. CASE BootstrapAgent
    BY <1>10 DEF BootstrapAgent, Unseen, Fault
  <1>11. CASE ProbeHttp \/ ProbeHttps
    BY <1>11 DEF ProbeHttp, ProbeHttps, Look
  <1>12. CASE FindTrust
    BY <1>12 DEF FindTrust, Look
  <1>13. CASE AddTrust
    BY <1>13 DEF AddTrust
  <1>14. CASE LeaveUpdater
    BY <1>14 DEF LeaveUpdater, Look
  <1>15. CASE Mark
    BY <1>15 DEF Mark
  <1>16. CASE Register
    BY <1>16 DEF Register
  <1>17. CASE Unmark
    BY <1>17 DEF Unmark
  <1>18. CASE StopUpdater
    BY <1>18 DEF StopUpdater, Unseen, Fault
  <1>19. CASE StopAgent
    BY <1>19 DEF StopAgent, Unseen, Fault
  <1>20. CASE Untrust
    <2>1. "untrust" \in Kinds /\ Never("untrust") \in BOOLEAN
      BY DEF Kinds, Never
    <2>2. CASE Fault("untrust")
      BY <2>1, <2>2, FaultCounts
    <2>3. CASE ~Fault("untrust")
      BY <1>20, <2>3 DEF Untrust
    <2>4. QED
      BY <2>2, <2>3
  <1>21. CASE DropPair
    BY <1>21 DEF DropPair
  <1>22. CASE DropFiles
    BY <1>22 DEF DropFiles, Drop
  <1>23. CASE Finish
    BY <1>23 DEF Finish
  <1>24. CASE CommandFails
    BY <1>24 DEF CommandFails, Unfinished, Fault
  <1>25. CASE Cut
    BY <1>25 DEF Cut, Unfinished, Fault
  <1>26. CASE Reboot
    BY <1>26 DEF Reboot
  <1>27. CASE Login \/ Logout
    BY <1>27 DEF Login, Logout, Meanwhile
  <1>28. CASE Age
    BY <1>28 DEF Age, Meanwhile
  <1>29. CASE Pin \/ Resume
    BY <1>29 DEF Pin, Resume, Meanwhile
  <1>30. CASE UNCHANGED vars
    BY <1>30 DEF vars
  <1>31. QED
    BY <1>1, <1>2, <1>3, <1>4, <1>5, <1>6, <1>7, <1>8, <1>9, <1>10, <1>11, <1>12,
       <1>13, <1>14, <1>15, <1>16, <1>17, <1>18, <1>19, <1>20, <1>21, <1>22,
       <1>23, <1>24, <1>25, <1>26, <1>27, <1>28, <1>29, <1>30 DEF Next, Install,
       Uninstall, World

(* A step keeps ServingInv; whoever takes the agent away has written it      *)
(* down.                                                                     *)
LEMMA ServingStep ==
    ASSUME TypeOK, ServingInv, PairInv, [Next]_vars
    PROVE  ServingInv'
  <1> USE DEF TypeOK, ServingInv, PairInv, pair, jobs, history, Calm, Files, Jobs,
     Laid, Trusting, Started, Secured, Matching, AgentUp, SecureUp, Steps,
     InstallSteps, UninstallSteps, PreSteps, PairSteps, AgentSteps, UpdaterSteps,
     Ends
  <1>1. CASE StartInstall \/ StartUninstall
    BY <1>1 DEF StartInstall, StartUninstall, Begin
  <1>2. CASE ClearGround
    BY <1>2 DEF ClearGround, Unseen, Fault
  <1>3. CASE ProvePorts
    BY <1>3 DEF ProvePorts, Look
  <1>4. CASE LayPayload
    BY <1>4 DEF LayPayload
  <1>5. CASE FindAccount
    BY <1>5 DEF FindAccount
  <1>6. CASE KeepPair
    BY <1>6 DEF KeepPair, Look, StillGood
  <1>7. CASE DropOldTrust
    BY <1>7 DEF DropOldTrust, Fault
  <1>8. CASE CopyCert
    BY <1>8 DEF CopyCert
  <1>9. CASE CopyKey
    BY <1>9 DEF CopyKey
  <1>10. CASE BootstrapAgent
    <2>1. pc = "agent" /\ UNCHANGED <<files, cert, key, trusted>>
      BY <1>10 DEF BootstrapAgent
    <2>2. pc' = "failed" \/ (pc' = "http" /\ "agent" \in loaded')
      BY <1>10 DEF BootstrapAgent
    <2>3. QED
      BY <2>1, <2>2
  <1>11. CASE ProbeHttp \/ ProbeHttps
    BY <1>11 DEF ProbeHttp, ProbeHttps, Look
  <1>12. CASE FindTrust
    BY <1>12 DEF FindTrust, Look
  <1>13. CASE AddTrust
    BY <1>13 DEF AddTrust
  <1>14. CASE LeaveUpdater
    BY <1>14 DEF LeaveUpdater, Look
  <1>15. CASE Mark
    BY <1>15 DEF Mark
  <1>16. CASE Register
    BY <1>16 DEF Register
  <1>17. CASE Unmark
    BY <1>17 DEF Unmark
  <1>18. CASE StopUpdater
    BY <1>18 DEF StopUpdater, Unseen, Fault
  <1>19. CASE StopAgent
    BY <1>19 DEF StopAgent, Unseen, Fault
  <1>20. CASE Untrust
    BY <1>20 DEF Untrust, Fault
  <1>21. CASE DropPair
    BY <1>21 DEF DropPair
  <1>22. CASE DropFiles
    BY <1>22 DEF DropFiles, Drop
  <1>23. CASE Finish
    BY <1>23 DEF Finish
  <1>24. CASE CommandFails
    BY <1>24 DEF CommandFails, Unfinished, Fault
  <1>25. CASE Cut
    BY <1>25 DEF Cut, Unfinished, Fault
  <1>26. CASE Reboot
    BY <1>26 DEF Reboot
  <1>27. CASE Login \/ Logout
    BY <1>27 DEF Login, Logout, Meanwhile
  <1>28. CASE Age
    BY <1>28 DEF Age, Meanwhile
  <1>29. CASE Pin \/ Resume
    BY <1>29 DEF Pin, Resume, Meanwhile
  <1>30. CASE UNCHANGED vars
    BY <1>30 DEF vars
  <1>31. QED
    BY <1>1, <1>2, <1>3, <1>4, <1>5, <1>6, <1>7, <1>8, <1>9, <1>10, <1>11, <1>12,
       <1>13, <1>14, <1>15, <1>16, <1>17, <1>18, <1>19, <1>20, <1>21, <1>22,
       <1>23, <1>24, <1>25, <1>26, <1>27, <1>28, <1>29, <1>30 DEF Next, Install,
       Uninstall, World

(* A step keeps QuietInv.                                                    *)
LEMMA QuietStep ==
    ASSUME TypeOK, QuietInv, [Next]_vars
    PROVE  QuietInv'
  <1> USE DEF TypeOK, QuietInv, pair, jobs, history, Steps, InstallSteps,
     UninstallSteps, PreSteps, PairSteps, AgentSteps, UpdaterSteps, Ends
  <1>1. CASE StartInstall \/ StartUninstall
    <2>1. user => account'
      BY <1>1 DEF StartInstall, StartUninstall, Begin
    <2>2. pc' \notin {"idle", "ports", "register"} /\ user' = user
      BY <1>1 DEF StartInstall, StartUninstall, Begin
    <2>3. QED
      BY <2>1, <2>2
  <1>2. CASE ClearGround
    BY <1>2 DEF ClearGround, Unseen, Fault
  <1>3. CASE ProvePorts
    BY <1>3 DEF ProvePorts, Look
  <1>4. CASE LayPayload
    BY <1>4 DEF LayPayload
  <1>5. CASE FindAccount
    <2>1. user => account'
      BY <1>5 DEF FindAccount
    <2>2. pc' \notin {"idle", "ports", "register"} /\ user' = user
      BY <1>5 DEF FindAccount
    <2>3. QED
      BY <2>1, <2>2
  <1>6. CASE KeepPair
    BY <1>6 DEF KeepPair, Look, StillGood
  <1>7. CASE DropOldTrust
    BY <1>7 DEF DropOldTrust, Fault
  <1>8. CASE CopyCert
    BY <1>8 DEF CopyCert
  <1>9. CASE CopyKey
    BY <1>9 DEF CopyKey
  <1>10. CASE BootstrapAgent
    BY <1>10 DEF BootstrapAgent, Unseen, Fault
  <1>11. CASE ProbeHttp \/ ProbeHttps
    <2>1. CASE ProbeHttp
      BY <2>1 DEF ProbeHttp, Look
    <2>2. CASE ProbeHttps
      BY <2>2 DEF ProbeHttps, Look
    <2>3. QED
      BY <1>11, <2>1, <2>2
  <1>12. CASE FindTrust
    BY <1>12 DEF FindTrust, Look
  <1>13. CASE AddTrust
    BY <1>13 DEF AddTrust
  <1>14. CASE LeaveUpdater
    BY <1>14 DEF LeaveUpdater, Look
  <1>15. CASE Mark
    BY <1>15 DEF Mark
  <1>16. CASE Register
    BY <1>16 DEF Register
  <1>17. CASE Unmark
    BY <1>17 DEF Unmark
  <1>18. CASE StopUpdater
    BY <1>18 DEF StopUpdater, Unseen, Fault
  <1>19. CASE StopAgent
    BY <1>19 DEF StopAgent, Unseen, Fault
  <1>20. CASE Untrust
    BY <1>20 DEF Untrust, Fault
  <1>21. CASE DropPair
    BY <1>21 DEF DropPair
  <1>22. CASE DropFiles
    <2>1. CASE Drop("drop updater", "updater", "stop agent")
      BY <2>1 DEF Drop
    <2>2. CASE Drop("drop agent", "agent", "untrust")
      BY <2>2 DEF Drop
    <2>3. CASE Drop("drop payload", "payload", "drop uninstaller")
      BY <2>3 DEF Drop
    <2>4. CASE Drop("drop uninstaller", "uninstaller", "removed")
      BY <2>4 DEF Drop
    <2>5. QED
      BY <1>22, <2>1, <2>2, <2>3, <2>4 DEF DropFiles
  <1>23. CASE Finish
    BY <1>23 DEF Finish
  <1>24. CASE CommandFails
    BY <1>24 DEF CommandFails, Unfinished, Fault
  <1>25. CASE Cut
    BY <1>25 DEF Cut, Unfinished, Fault
  <1>26. CASE Reboot
    BY <1>26 DEF Reboot
  <1>27. CASE Login \/ Logout
    BY <1>27 DEF Login, Logout, Meanwhile
  <1>28. CASE Age
    BY <1>28 DEF Age, Meanwhile
  <1>29. CASE Pin \/ Resume
    BY <1>29 DEF Pin, Resume, Meanwhile
  <1>30. CASE UNCHANGED vars
    BY <1>30 DEF vars
  <1>31. QED
    BY <1>1, <1>2, <1>3, <1>4, <1>5, <1>6, <1>7, <1>8, <1>9, <1>10, <1>11, <1>12,
       <1>13, <1>14, <1>15, <1>16, <1>17, <1>18, <1>19, <1>20, <1>21, <1>22,
       <1>23, <1>24, <1>25, <1>26, <1>27, <1>28, <1>29, <1>30 DEF Next, Install,
       Uninstall, World

(* A step keeps RemovalInv: what a removal leaves out is removed before it.  *)
LEMMA RemovalStep ==
    ASSUME TypeOK, RemovalInv, [Next]_vars
    PROVE  RemovalInv'
  <1> USE DEF RemovalInv, Calm, Stopped, Untrusted, pair, jobs, history, Files,
     AgentSteps, Ends
  <1>1. CASE StartInstall \/ StartUninstall
    BY <1>1 DEF StartInstall, StartUninstall, Begin
  <1>2. CASE ClearGround
    BY <1>2 DEF ClearGround, Unseen, Fault
  <1>3. CASE ProvePorts
    BY <1>3 DEF ProvePorts, Look
  <1>4. CASE LayPayload
    BY <1>4 DEF LayPayload
  <1>5. CASE FindAccount
    BY <1>5 DEF FindAccount
  <1>6. CASE KeepPair
    BY <1>6 DEF KeepPair, Look, StillGood
  <1>7. CASE DropOldTrust
    BY <1>7 DEF DropOldTrust, Fault
  <1>8. CASE CopyCert
    BY <1>8 DEF CopyCert
  <1>9. CASE CopyKey
    BY <1>9 DEF CopyKey
  <1>10. CASE BootstrapAgent
    BY <1>10 DEF BootstrapAgent, Unseen, Fault
  <1>11. CASE ProbeHttp \/ ProbeHttps
    BY <1>11 DEF ProbeHttp, ProbeHttps, Look
  <1>12. CASE FindTrust
    BY <1>12 DEF FindTrust, Look
  <1>13. CASE AddTrust
    BY <1>13 DEF AddTrust
  <1>14. CASE LeaveUpdater
    BY <1>14 DEF LeaveUpdater, Look
  <1>15. CASE Mark
    BY <1>15 DEF Mark
  <1>16. CASE Register
    BY <1>16 DEF Register
  <1>17. CASE Unmark
    BY <1>17 DEF Unmark
  <1>18. CASE StopUpdater
    BY <1>18 DEF StopUpdater, Unseen, Fault
  <1>19. CASE StopAgent
    <2>1. pc = "stop agent" /\ pc' = "drop agent" /\ UNCHANGED <<files, account>>
      BY <1>19 DEF StopAgent
    <2>2. trouble' = {} =>
              /\ trouble = {}
              /\ disabled' \subseteq disabled \cup {"agent"} /\ loaded' \subseteq loaded
              /\ account => "agent" \notin loaded'
      BY <1>19 DEF StopAgent, Unseen
    <2>3. trouble = {} => "updater" \notin loaded \cup disabled
      BY <2>1
    <2>4. QED
      BY <2>1, <2>2, <2>3
  <1>20. CASE Untrust
    BY <1>20 DEF Untrust, Fault
  <1>21. CASE DropPair
    BY <1>21 DEF DropPair
  <1>22. CASE DropFiles
    <2>1. CASE Drop("drop updater", "updater", "stop agent")
      BY <2>1 DEF Drop
    <2>2. CASE Drop("drop agent", "agent", "untrust")
      BY <2>2 DEF Drop
    <2>3. CASE Drop("drop payload", "payload", "drop uninstaller")
      BY <2>3 DEF Drop
    <2>4. CASE Drop("drop uninstaller", "uninstaller", "removed")
      BY <2>4 DEF Drop, TypeOK, Jobs
    <2>5. QED
      BY <1>22, <2>1, <2>2, <2>3, <2>4 DEF DropFiles
  <1>23. CASE Finish
    BY <1>23 DEF Finish
  <1>24. CASE CommandFails
    BY <1>24 DEF CommandFails, Unfinished, Fault
  <1>25. CASE Cut
    BY <1>25 DEF Cut, Unfinished, Fault
  <1>26. CASE Reboot
    BY <1>26 DEF Reboot
  <1>27. CASE Login \/ Logout
    BY <1>27 DEF Login, Logout, Meanwhile
  <1>28. CASE Age
    BY <1>28 DEF Age, Meanwhile
  <1>29. CASE Pin \/ Resume
    BY <1>29 DEF Pin, Resume, Meanwhile
  <1>30. CASE UNCHANGED vars
    BY <1>30 DEF vars
  <1>31. QED
    BY <1>1, <1>2, <1>3, <1>4, <1>5, <1>6, <1>7, <1>8, <1>9, <1>10, <1>11, <1>12,
       <1>13, <1>14, <1>15, <1>16, <1>17, <1>18, <1>19, <1>20, <1>21, <1>22,
       <1>23, <1>24, <1>25, <1>26, <1>27, <1>28, <1>29, <1>30 DEF Next, Install,
       Uninstall, World

(* A step keeps MarkerIsBracketed.                                           *)
LEMMA MarkerStep ==
    ASSUME TypeOK, MarkerIsBracketed, [Next]_vars
    PROVE  MarkerIsBracketed'
  <1> USE DEF TypeOK, MarkerIsBracketed, Never, Kinds, pair, jobs, history, Steps,
     InstallSteps, UninstallSteps, PreSteps, PairSteps, AgentSteps, UpdaterSteps,
     Ends
  <1>1. CASE StartInstall \/ StartUninstall
    BY <1>1 DEF StartInstall, StartUninstall, Begin
  <1>2. CASE ClearGround
    <2>1. pc = "clear" /\ UNCHANGED marker
      BY <1>2 DEF ClearGround
    <2>2. Never("cut")' /\ Never("command")' => Never("cut") /\ Never("command")
      <3> HIDE DEF Never, MarkerIsBracketed
      <3>1. \/ UNCHANGED faults
            \/ \E failed : Unseen(failed)
        BY <1>2 DEF ClearGround
      <3>2. QED
        BY <3>1, UnseenCounts, UnchangedFaults DEF Kinds
    <2>3. QED
      BY <2>1, <2>2
  <1>3. CASE ProvePorts
    BY <1>3 DEF ProvePorts, Look
  <1>4. CASE LayPayload
    BY <1>4 DEF LayPayload
  <1>5. CASE FindAccount
    BY <1>5 DEF FindAccount
  <1>6. CASE KeepPair
    BY <1>6 DEF KeepPair, Look, StillGood
  <1>7. CASE DropOldTrust
    <2>1. Never("cut")' /\ Never("command")' => Never("cut") /\ Never("command")
      BY <1>7 DEF DropOldTrust, Fault
    <2>2. pc = "cert" /\ UNCHANGED marker
      BY <1>7 DEF DropOldTrust
    <2>3. QED
      BY <2>1, <2>2
  <1>8. CASE CopyCert
    BY <1>8 DEF CopyCert
  <1>9. CASE CopyKey
    BY <1>9 DEF CopyKey
  <1>10. CASE BootstrapAgent
    <2>1. pc = "agent" /\ UNCHANGED marker
      BY <1>10 DEF BootstrapAgent
    <2>2. Never("cut")' /\ Never("command")' => Never("cut") /\ Never("command")
      <3> HIDE DEF Never, MarkerIsBracketed
      <3>1. \/ UNCHANGED faults
            \/ \E failed : Unseen(failed)
        BY <1>10 DEF BootstrapAgent
      <3>2. QED
        BY <3>1, UnseenCounts, UnchangedFaults DEF Kinds
    <2>3. QED
      BY <2>1, <2>2
  <1>11. CASE ProbeHttp \/ ProbeHttps
    BY <1>11 DEF ProbeHttp, ProbeHttps, Look
  <1>12. CASE FindTrust
    BY <1>12 DEF FindTrust, Look
  <1>13. CASE AddTrust
    BY <1>13 DEF AddTrust
  <1>14. CASE LeaveUpdater
    BY <1>14 DEF LeaveUpdater, Look
  <1>15. CASE Mark
    BY <1>15 DEF Mark
  <1>16. CASE Register
    BY <1>16 DEF Register
  <1>17. CASE Unmark
    BY <1>17 DEF Unmark
  <1>18. CASE StopUpdater
    <2>1. pc = "stop updater" /\ UNCHANGED marker
      BY <1>18 DEF StopUpdater
    <2>2. Never("cut")' /\ Never("command")' => Never("cut") /\ Never("command")
      <3> HIDE DEF Never, MarkerIsBracketed
      <3>1. \/ UNCHANGED faults
            \/ \E failed : Unseen(failed)
        BY <1>18 DEF StopUpdater
      <3>2. QED
        BY <3>1, UnseenCounts, UnchangedFaults DEF Kinds
    <2>3. QED
      BY <2>1, <2>2
  <1>19. CASE StopAgent
    <2>1. pc = "stop agent" /\ UNCHANGED marker
      BY <1>19 DEF StopAgent
    <2>2. Never("cut")' /\ Never("command")' => Never("cut") /\ Never("command")
      <3> HIDE DEF Never, MarkerIsBracketed
      <3>1. \/ UNCHANGED faults
            \/ \E failed : Unseen(failed)
        BY <1>19 DEF StopAgent
      <3>2. QED
        BY <3>1, UnseenCounts, UnchangedFaults DEF Kinds
    <2>3. QED
      BY <2>1, <2>2
  <1>20. CASE Untrust
    <2>1. Never("cut")' /\ Never("command")' => Never("cut") /\ Never("command")
      BY <1>20 DEF Untrust, Fault
    <2>2. pc = "untrust" /\ UNCHANGED marker
      BY <1>20 DEF Untrust
    <2>3. QED
      BY <2>1, <2>2
  <1>21. CASE DropPair
    BY <1>21 DEF DropPair
  <1>22. CASE DropFiles
    BY <1>22 DEF DropFiles, Drop
  <1>23. CASE Finish
    BY <1>23 DEF Finish
  <1>24. CASE CommandFails
    <2>1. ~Never("command")'
      BY <1>24, FaultCounts DEF CommandFails, Kinds
    <2>2. QED
      BY <2>1
  <1>25. CASE Cut
    <2>1. ~Never("cut")'
      BY <1>25, FaultCounts DEF Cut, Kinds
    <2>2. QED
      BY <2>1
  <1>26. CASE Reboot
    BY <1>26 DEF Reboot
  <1>27. CASE Login \/ Logout
    BY <1>27 DEF Login, Logout, Meanwhile
  <1>28. CASE Age
    BY <1>28 DEF Age, Meanwhile
  <1>29. CASE Pin \/ Resume
    BY <1>29 DEF Pin, Resume, Meanwhile
  <1>30. CASE UNCHANGED vars
    BY <1>30 DEF vars
  <1>31. QED
    BY <1>1, <1>2, <1>3, <1>4, <1>5, <1>6, <1>7, <1>8, <1>9, <1>10, <1>11, <1>12,
       <1>13, <1>14, <1>15, <1>16, <1>17, <1>18, <1>19, <1>20, <1>21, <1>22,
       <1>23, <1>24, <1>25, <1>26, <1>27, <1>28, <1>29, <1>30 DEF Next, Install,
       Uninstall, World

(* A step keeps FailureHasCause: each check of the script that is not met    *)
(* although every command works is one of the two causes.                    *)
LEMMA CauseStep ==
    ASSUME TypeOK, PairInv, ServingInv, QuietInv, FailureHasCause, [Next]_vars
    PROVE  FailureHasCause'
  <1> USE DEF TypeOK, FailureHasCause, pair, jobs, history, Steps, InstallSteps,
     UninstallSteps, PreSteps, PairSteps, AgentSteps, UpdaterSteps, Ends
  <1>1. CASE StartInstall \/ StartUninstall
    BY <1>1 DEF StartInstall, StartUninstall, Begin
  <1>2. CASE ClearGround
    BY <1>2 DEF ClearGround, Unseen, Fault
  <1>3. CASE ProvePorts
    <2>1. trouble = {} => ~AgentUp
      BY <1>3 DEF ProvePorts, Look, QuietInv, AgentUp
    <2>2. QED
      BY <1>3, <2>1 DEF ProvePorts, Look
  <1>4. CASE LayPayload
    BY <1>4 DEF LayPayload
  <1>5. CASE FindAccount
    <2>1. ~account' => ~user
      BY <1>5 DEF FindAccount
    <2>2. QED
      BY <1>5, <2>1 DEF FindAccount
  <1>6. CASE KeepPair
    BY <1>6 DEF KeepPair, Look, StillGood
  <1>7. CASE DropOldTrust
    BY <1>7 DEF DropOldTrust, Fault
  <1>8. CASE CopyCert
    BY <1>8 DEF CopyCert
  <1>9. CASE CopyKey
    BY <1>9 DEF CopyKey
  <1>10. CASE BootstrapAgent
    BY <1>10 DEF BootstrapAgent, Unseen, Fault
  <1>11. CASE ProbeHttp \/ ProbeHttps
    <2>1. pc \in Started /\ cert \in Certs /\ key # None /\ UNCHANGED <<trouble, user, pair>>
      BY <1>11 DEF ProbeHttp, ProbeHttps, Look, PairInv, Started
    <2>2. trouble = {} => "agent" \in loaded /\ "payload" \in files
      BY <2>1 DEF ServingInv, Calm, Laid, Files
    <2>3. trouble = {} /\ cert = key => SecureUp /\ AgentUp
      BY <2>1, <2>2 DEF SecureUp, AgentUp, Matching
    <2>4. pc' = "failed" => ~SecureUp \/ ~AgentUp
      BY <1>11 DEF ProbeHttp, ProbeHttps, Look
    <2>5. QED
      BY <2>1, <2>3, <2>4
  <1>12. CASE FindTrust
    BY <1>12 DEF FindTrust, Look
  <1>13. CASE AddTrust
    <2>1. Matching
      BY <1>13 DEF AddTrust, PairInv, Secured
    <2>2. trouble = {} => "agent" \in loaded /\ "payload" \in files
      BY <1>13 DEF AddTrust, ServingInv, Calm, Laid, Started, Files
    <2>3. trouble = {} => SecureUp
      BY <2>1, <2>2 DEF SecureUp, AgentUp
    <2>4. QED
      BY <1>13, <2>3 DEF AddTrust
  <1>14. CASE LeaveUpdater
    BY <1>14 DEF LeaveUpdater, Look
  <1>15. CASE Mark
    BY <1>15 DEF Mark
  <1>16. CASE Register
    <2>1. trouble = {} => "updater" \notin loaded \cup disabled
      BY <1>16 DEF Register, QuietInv
    <2>2. QED
      BY <1>16, <2>1 DEF Register
  <1>17. CASE Unmark
    BY <1>17 DEF Unmark
  <1>18. CASE StopUpdater
    BY <1>18 DEF StopUpdater, Unseen, Fault
  <1>19. CASE StopAgent
    BY <1>19 DEF StopAgent, Unseen, Fault
  <1>20. CASE Untrust
    BY <1>20 DEF Untrust, Fault
  <1>21. CASE DropPair
    BY <1>21 DEF DropPair
  <1>22. CASE DropFiles
    <2>1. CASE Drop("drop updater", "updater", "stop agent")
      BY <2>1 DEF Drop
    <2>2. CASE Drop("drop agent", "agent", "untrust")
      BY <2>2 DEF Drop
    <2>3. CASE Drop("drop payload", "payload", "drop uninstaller")
      BY <2>3 DEF Drop
    <2>4. CASE Drop("drop uninstaller", "uninstaller", "removed")
      BY <2>4 DEF Drop
    <2>5. QED
      BY <1>22, <2>1, <2>2, <2>3, <2>4 DEF DropFiles
  <1>23. CASE Finish
    BY <1>23 DEF Finish
  <1>24. CASE CommandFails
    BY <1>24 DEF CommandFails, Unfinished, Fault
  <1>25. CASE Cut
    BY <1>25 DEF Cut, Unfinished, Fault
  <1>26. CASE Reboot
    BY <1>26 DEF Reboot
  <1>27. CASE Login \/ Logout
    BY <1>27 DEF Login, Logout, Meanwhile
  <1>28. CASE Age
    BY <1>28 DEF Age, Meanwhile
  <1>29. CASE Pin \/ Resume
    BY <1>29 DEF Pin, Resume, Meanwhile
  <1>30. CASE UNCHANGED vars
    BY <1>30 DEF vars
  <1>31. QED
    BY <1>1, <1>2, <1>3, <1>4, <1>5, <1>6, <1>7, <1>8, <1>9, <1>10, <1>11, <1>12,
       <1>13, <1>14, <1>15, <1>16, <1>17, <1>18, <1>19, <1>20, <1>21, <1>22,
       <1>23, <1>24, <1>25, <1>26, <1>27, <1>28, <1>29, <1>30 DEF Next, Install,
       Uninstall, World

(* A step of an installation leaves the updater alone: the only one that     *)
(* changes a job of launchd's is Register, where launchd itself refuses.     *)
LEMMA UpdaterStep ==
    ASSUME [Next]_vars, pc \in InstallSteps, pc' \notin {pc, "idle"}
    PROVE  /\ "updater" \in loaded => "updater" \in loaded'
           /\ "updater" \in disabled =>
                 /\ "updater" \in disabled'
                 /\ "updater" \in loaded' => "updater" \in loaded
  <1> USE DEF pair, jobs, history, Steps, InstallSteps, UninstallSteps, PreSteps,
     PairSteps, AgentSteps, UpdaterSteps, Ends
  <1>1. CASE StartInstall \/ StartUninstall
    BY <1>1 DEF StartInstall, StartUninstall, Begin
  <1>2. CASE ClearGround
    BY <1>2 DEF ClearGround, Unseen, Fault
  <1>3. CASE ProvePorts
    BY <1>3 DEF ProvePorts, Look
  <1>4. CASE LayPayload
    BY <1>4 DEF LayPayload
  <1>5. CASE FindAccount
    BY <1>5 DEF FindAccount
  <1>6. CASE KeepPair
    BY <1>6 DEF KeepPair, Look, StillGood
  <1>7. CASE DropOldTrust
    BY <1>7 DEF DropOldTrust, Fault
  <1>8. CASE CopyCert
    BY <1>8 DEF CopyCert
  <1>9. CASE CopyKey
    BY <1>9 DEF CopyKey
  <1>10. CASE BootstrapAgent
    BY <1>10 DEF BootstrapAgent, Unseen, Fault
  <1>11. CASE ProbeHttp \/ ProbeHttps
    BY <1>11 DEF ProbeHttp, ProbeHttps, Look
  <1>12. CASE FindTrust
    BY <1>12 DEF FindTrust, Look
  <1>13. CASE AddTrust
    BY <1>13 DEF AddTrust
  <1>14. CASE LeaveUpdater
    BY <1>14 DEF LeaveUpdater, Look
  <1>15. CASE Mark
    BY <1>15 DEF Mark
  <1>16. CASE Register
    BY <1>16 DEF Register
  <1>17. CASE Unmark
    BY <1>17 DEF Unmark
  <1>18. CASE StopUpdater
    BY <1>18 DEF StopUpdater, Unseen, Fault
  <1>19. CASE StopAgent
    BY <1>19 DEF StopAgent, Unseen, Fault
  <1>20. CASE Untrust
    BY <1>20 DEF Untrust, Fault
  <1>21. CASE DropPair
    BY <1>21 DEF DropPair
  <1>22. CASE DropFiles
    <2>1. CASE Drop("drop updater", "updater", "stop agent")
      BY <2>1 DEF Drop
    <2>2. CASE Drop("drop agent", "agent", "untrust")
      BY <2>2 DEF Drop
    <2>3. CASE Drop("drop payload", "payload", "drop uninstaller")
      BY <2>3 DEF Drop
    <2>4. CASE Drop("drop uninstaller", "uninstaller", "removed")
      BY <2>4 DEF Drop
    <2>5. QED
      BY <1>22, <2>1, <2>2, <2>3, <2>4 DEF DropFiles
  <1>23. CASE Finish
    BY <1>23 DEF Finish
  <1>24. CASE CommandFails
    BY <1>24 DEF CommandFails, Unfinished, Fault
  <1>25. CASE Cut
    BY <1>25 DEF Cut, Unfinished, Fault
  <1>26. CASE Reboot
    BY <1>26 DEF Reboot
  <1>27. CASE Login \/ Logout
    BY <1>27 DEF Login, Logout, Meanwhile
  <1>28. CASE Age
    BY <1>28 DEF Age, Meanwhile
  <1>29. CASE Pin \/ Resume
    BY <1>29 DEF Pin, Resume, Meanwhile
  <1>30. CASE UNCHANGED vars
    BY <1>30 DEF vars
  <1>31. QED
    BY <1>1, <1>2, <1>3, <1>4, <1>5, <1>6, <1>7, <1>8, <1>9, <1>10, <1>11, <1>12,
       <1>13, <1>14, <1>15, <1>16, <1>17, <1>18, <1>19, <1>20, <1>21, <1>22,
       <1>23, <1>24, <1>25, <1>26, <1>27, <1>28, <1>29, <1>30 DEF Next, Install,
       Uninstall, World

-----------------------------------------------------------------------------
(* What the steps keep together.                                            *)
InstallInv ==
    /\ TypeOK /\ PairInv /\ KeychainInv /\ ServingInv /\ QuietInv /\ RemovalInv
    /\ MarkerIsBracketed /\ FailureHasCause

LEMMA InstallInvHolds == Spec => []InstallInv
  <1>1. Init => InstallInv
    <2>1. SUFFICES ASSUME Init
                   PROVE  InstallInv
      OBVIOUS
    <2>2. TypeOK
      <3>1. faults \in [Kinds -> 0..MaxFaults]
        BY <2>1, InstallAssumption DEF Init
      <3>2. QED
        BY <2>1, <3>1 DEF Init, TypeOK, Steps
    <2>3. PairInv /\ ServingInv /\ RemovalInv
      BY <2>1 DEF Init, PairInv, ServingInv, RemovalInv, Laid, PairSteps,
         UpdaterSteps,
         Started, Secured, Trusting, Stopped, Untrusted
    <2>4. KeychainInv
      BY <2>1 DEF Init, KeychainInv, Untrusted
    <2>5. QuietInv
      BY <2>1 DEF Init, QuietInv
    <2>6. MarkerIsBracketed /\ FailureHasCause
      <3>1. ~marker /\ pc = "idle"
        BY <2>1 DEF Init
      <3>2. QED
        BY <3>1 DEF MarkerIsBracketed, FailureHasCause
    <2>7. QED
      BY <2>2, <2>3, <2>4, <2>5, <2>6 DEF InstallInv
  <1>2. InstallInv /\ [Next]_vars => InstallInv'
    BY TypeStep, PairStep, KeychainStep, ServingStep, QuietStep, RemovalStep,
       MarkerStep,
       CauseStep DEF InstallInv
  <1>3. QED
    BY <1>1, <1>2, PTL DEF Spec

(* The types hold of every station, whatever fails and is cut.               *)
THEOREM TypeCorrect == Spec => []TypeOK
  <1>1. InstallInv => TypeOK
    BY DEF InstallInv
  <1>2. QED
    BY <1>1, InstallInvHolds, PTL

(* No certificate is trusted but the one on disk, whatever is installed,     *)
(* renewed, removed and cut, if trust can be taken away.                     *)
THEOREM TrustAccounted == Spec => []TrustIsAccounted
  <1>1. InstallInv => TrustIsAccounted
    BY DEF InstallInv, KeychainInv, TrustIsAccounted
  <1>2. QED
    BY <1>1, InstallInvHolds, PTL

(* An installation that reports success has left a serving agent, its trust  *)
(* and an updater that is registered or pinned.                              *)
THEOREM SuccessHolds == Spec => []SuccessIsReal
  <1>1. InstallInv => SuccessIsReal
    BY DEF InstallInv, PairInv, ServingInv, SuccessIsReal, Calm, SecureUp,
       AgentUp, Secured,
       Started, Trusting, Laid, Files
  <1>2. QED
    BY <1>1, InstallInvHolds, PTL

(* An installation in which every command works fails only for want of a     *)
(* session or because of a pair whose files do not belong together.          *)
THEOREM FailureExplained == Spec => []FailureHasCause
  <1>1. InstallInv => FailureHasCause
    BY DEF InstallInv
  <1>2. QED
    BY <1>1, InstallInvHolds, PTL

(* An installation neither stops the updater nor touches its pin.            *)
THEOREM UpdaterLeftAlone == Spec => InstallLeavesUpdaterAlone
  <1>1. ASSUME [Next]_vars
        PROVE  [(pc \in InstallSteps /\ pc' \notin {pc, "idle"}) =>
                   /\ "updater" \in loaded => "updater" \in loaded'
                   /\ "updater" \in disabled =>
                         /\ "updater" \in disabled'
                         /\ "updater" \in loaded' => "updater" \in loaded]_vars
    BY <1>1, UpdaterStep
  <1>2. QED
    BY <1>1, PTL DEF Spec, InstallLeavesUpdaterAlone

(* An uninstallation that knew the account leaves no file and no trust that  *)
(* can be taken away, and, if no launchctl failed on it and nobody disturbed *)
(* it, no job and no pin of the updater.                                     *)
THEOREM RemovalIsComplete == Spec => []UninstallLeavesNothing
  <1>1. InstallInv => UninstallLeavesNothing
    <2>1. SUFFICES ASSUME InstallInv, pc = "removed", account
                   PROVE  /\ files = {}
                          /\ Never("untrust") => trusted = {}
                          /\ trouble = {} => loaded = {} /\ "updater" \notin disabled
      BY DEF UninstallLeavesNothing
    <2>2. trouble = {} => loaded = {} /\ "updater" \notin disabled
      BY <2>1 DEF InstallInv, RemovalInv, TypeOK, Jobs, Stopped, Untrusted
    <2>3. files = {}
      BY <2>1 DEF InstallInv, RemovalInv, TypeOK, Files, Jobs, Stopped, Untrusted
    <2>4. Never("untrust") => trusted = {}
      BY <2>1 DEF InstallInv, KeychainInv, Untrusted
    <2>5. QED
      BY <2>2, <2>3, <2>4
  <1>2. QED
    BY <1>1, InstallInvHolds, PTL

(* The uninstaller outlives every other file, wherever a script is cut.      *)
THEOREM UninstallerStays == Spec => []UninstallerIsLast
  <1>1. InstallInv => UninstallerIsLast
    BY DEF InstallInv, RemovalInv, UninstallerIsLast
  <1>2. QED
    BY <1>1, InstallInvHolds, PTL

(* Without a cut or a failing command the marker stands around the           *)
(* registration of the updater only.                                         *)
THEOREM MarkerBracketed == Spec => []MarkerIsBracketed
  <1>1. InstallInv => MarkerIsBracketed
    BY DEF InstallInv
  <1>2. QED
    BY <1>1, InstallInvHolds, PTL
=============================================================================
