------------------------ MODULE SlurmInstallerProofs ------------------------
(***************************************************************************)
(* Proofs about the Slurm installer model, for every set of systems,      *)
(* roots and artifacts that satisfies SlurmConstantsAssumption.            *)
(***************************************************************************)
EXTENDS SlurmInstaller, TLAPS

LEMMA SInitTypeOK == Init => TypeOK
BY DEF Init, TypeOK

(* The inductive invariant.  While install or is_installed runs, every   *)
(* artifact it has visited is present in the system's root; while          *)
(* uninstall runs, none of them is.  install only runs for a system with   *)
(* an install_path (its own check), whereas is_installed and uninstall    *)
(* also run without one, and then have no root to speak of.               *)
(* _write_config is only reached by install with the loop done, and the   *)
(* cleanup phase only by uninstall with the loop done.  is_installed only *)
(* runs with the configuration file there, since no step inside a call of *)
(* it touches the file.                                                    *)

Progress ==
    /\ running => todo \subseteq batch
    /\ running /\ op = "install" => Root \in Roots /\ batch \ todo \subseteq present[Root]
    /\ running /\ op = "is_installed" /\ Root \in Roots => batch \ todo \subseteq present[Root]
    /\ running /\ op = "is_installed" => config # Absent
    /\ running /\ op = "uninstall" /\ Root \in Roots => (batch \ todo) \cap present[Root] = {}
    /\ running /\ phase = "write" => op = "install" /\ todo = {}
    /\ running /\ phase = "cleanup" => op = "uninstall" /\ todo = {}

SInv == TypeOK /\ Progress

LEMMA SNextTypeOK == SInv /\ [Next]_vars => TypeOK'
<1> SUFFICES ASSUME TypeOK, Progress, [Next]_vars PROVE TypeOK'
  BY DEF SInv
<1>1. ASSUME NEW s \in Systems, NEW S \in SUBSET Arts \ {{}}, StartInstall(s, S)
      PROVE  TypeOK'
  <2>1. CASE InstallPath[s] = NoPath /\ Refuse(s, "install", S) /\ UNCHANGED diskVars
    BY <2>1 DEF Refuse, TypeOK, diskVars
  <2>2. CASE InstallPath[s] \in Roots
             /\ \E prereqOk \in PrerequisiteOutcomes, made \in BOOLEAN, writable \in BOOLEAN :
                  \/ ~prereqOk /\ Refuse(s, "install", S) /\ UNCHANGED diskVars
                  \/ /\ prereqOk
                     /\ rootExists' = [rootExists EXCEPT ![InstallPath[s]] = @ \/ made]
                     /\ IF rootExists'[InstallPath[s]] /\ writable
                        THEN Begin(s, "install", S) ELSE Refuse(s, "install", S)
                     /\ UNCHANGED <<config, present>>
    <3>1. PICK prereqOk \in PrerequisiteOutcomes, made \in BOOLEAN, writable \in BOOLEAN :
                  \/ ~prereqOk /\ Refuse(s, "install", S) /\ UNCHANGED diskVars
                  \/ /\ prereqOk
                     /\ rootExists' = [rootExists EXCEPT ![InstallPath[s]] = @ \/ made]
                     /\ IF rootExists'[InstallPath[s]] /\ writable
                        THEN Begin(s, "install", S) ELSE Refuse(s, "install", S)
                     /\ UNCHANGED <<config, present>>
      BY <2>2
    <3>. QED BY <2>2, <3>1 DEF Begin, Refuse, TypeOK, diskVars
  <2>. QED BY <1>1, <2>1, <2>2 DEF StartInstall
<1>2. ASSUME NEW s \in Systems, NEW S \in SUBSET Arts \ {{}},
             StartIsInstalled(s, S) \/ StartUninstall(s, S)
      PROVE  TypeOK'
  BY <1>2 DEF StartIsInstalled, StartUninstall, Begin, Refuse, TypeOK, diskVars
<1>3. ASSUME NEW i \in Arts, InstallStep(i) PROVE TypeOK'
  <2>1. Root \in Roots
    BY <1>3 DEF InstallStep, TypeOK, Root
  <2>. QED BY <1>3, <2>1 DEF InstallStep, TypeOK
<1>8. ASSUME NEW i \in Arts, IsInstalledStep(i) \/ NoPathStep(i) PROVE TypeOK'
  BY <1>8 DEF IsInstalledStep, NoPathStep, TypeOK, diskVars
<1>9. ASSUME NEW i \in Arts, UninstallStep(i) PROVE TypeOK'
  <2>1. Root \in Roots
    BY <1>9 DEF UninstallStep, TypeOK, Root
  <2>. QED BY <1>9, <2>1 DEF UninstallStep, TypeOK
<1>4. CASE WriteOpen \/ WriteDump
  <2>1. CASE WriteOpen
    BY <2>1 DEF WriteOpen, TypeOK
  <2>2. CASE WriteDump
    <3>1. Root \in Roots
      BY <2>2 DEF WriteDump, Progress
    <3>. QED BY <2>2, <3>1 DEF WriteDump, TypeOK, Root
  <2>. QED BY <1>4, <2>1, <2>2
<1>5. CASE UninstallRoot \/ RemoveConfig
  BY <1>5 DEF UninstallRoot, RemoveConfig, TypeOK, diskVars
<1>6. CASE Restart
  BY <1>6 DEF Restart, TypeOK, diskVars
<1>10. CASE ExternalRemove
  <2>1. CASE \E R \in Roots : rootExists[R]
               /\ rootExists' = [rootExists EXCEPT ![R] = FALSE]
               /\ present' = [present EXCEPT ![R] = {}]
               /\ UNCHANGED config
    BY <1>10, <2>1 DEF ExternalRemove, TypeOK
  <2>2. CASE config # Absent /\ config' = Absent /\ UNCHANGED <<rootExists, present>>
    BY <1>10, <2>2 DEF ExternalRemove, TypeOK
  <2>. QED BY <1>10, <2>1, <2>2 DEF ExternalRemove
<1>7. CASE UNCHANGED vars
  BY <1>7 DEF vars, TypeOK
<1>. QED BY <1>1, <1>2, <1>3, <1>4, <1>5, <1>6, <1>7, <1>8, <1>9, <1>10 DEF Next

\* A call that begins starts with nothing visited and in the loop phase.
LEMMA StartProgress ==
    ASSUME NEW s \in Systems, NEW S \in SUBSET Arts \ {{}},
           StartInstall(s, S) \/ StartIsInstalled(s, S) \/ StartUninstall(s, S)
    PROVE  Progress'
<1>1. running' => todo' = batch' /\ phase' = "loop"
  <2>1. CASE StartInstall(s, S)
    BY <2>1 DEF StartInstall, Begin, Refuse
  <2>2. CASE StartIsInstalled(s, S) \/ StartUninstall(s, S)
    BY <2>2 DEF StartIsInstalled, StartUninstall, Begin, Refuse
  <2>. QED BY <2>1, <2>2
<1>2. running' /\ op' = "is_installed" => config' # Absent
  <2>1. CASE StartIsInstalled(s, S)
    BY <2>1 DEF StartIsInstalled, Begin, Refuse, diskVars
  <2>2. CASE StartInstall(s, S) \/ StartUninstall(s, S)
    BY <2>2 DEF StartInstall, StartUninstall, Begin, Refuse
  <2>. QED BY <2>1, <2>2
<1>3. running' /\ op' = "install" => Root' \in Roots
  <2>1. CASE StartInstall(s, S)
    BY <2>1 DEF StartInstall, Begin, Refuse, Root
  <2>2. CASE StartIsInstalled(s, S) \/ StartUninstall(s, S)
    BY <2>2 DEF StartIsInstalled, StartUninstall, Begin, Refuse
  <2>. QED BY <2>1, <2>2
<1>. QED BY <1>1, <1>2, <1>3 DEF Progress

LEMMA SInvInductive == SInv /\ [Next]_vars => SInv'
<1> SUFFICES ASSUME SInv, [Next]_vars PROVE SInv'
  OBVIOUS
<1>1. TypeOK'
  BY SNextTypeOK DEF SInv
<1>2. Progress'
  <2>1. ASSUME NEW s \in Systems, NEW S \in SUBSET Arts \ {{}},
               StartInstall(s, S) \/ StartIsInstalled(s, S) \/ StartUninstall(s, S)
        PROVE  Progress'
    BY <2>1, StartProgress
  <2>2. ASSUME NEW i \in Arts, InstallStep(i) PROVE Progress'
    <3>1. CASE todo' = todo \ {i} /\ present' = [present EXCEPT ![Root] = @ \cup {i}]
               /\ UNCHANGED <<running, result>>
      <4>1. Root \in Roots /\ Root' = Root
        BY <2>2 DEF InstallStep, SInv, TypeOK, Root
      <4>2. batch' \ todo' \subseteq present'[Root']
        BY <2>2, <3>1, <4>1 DEF InstallStep, SInv, TypeOK, Progress
      <4>. QED BY <2>2, <3>1, <4>1, <4>2 DEF InstallStep, SInv, Progress
    <3>2. CASE running' = FALSE
      BY <3>2 DEF Progress
    <3>. QED BY <2>2, <3>1, <3>2 DEF InstallStep
  <2>3. ASSUME NEW i \in Arts, IsInstalledStep(i) PROVE Progress'
    <3>1. CASE i \in present[Root]
      <4>1. /\ todo' = todo \ {i} /\ UNCHANGED <<config, present, sys, op, phase, batch>>
            /\ running /\ op = "is_installed" /\ running' \in BOOLEAN
        BY <2>3, <3>1 DEF IsInstalledStep, diskVars, SInv, TypeOK
      <4>. QED BY <3>1, <4>1 DEF SInv, Progress, Root
    <3>2. CASE i \notin present[Root]
      BY <2>3, <3>2 DEF IsInstalledStep, Progress
    <3>. QED BY <3>1, <3>2
  <2>4. ASSUME NEW i \in Arts, UninstallStep(i) PROVE Progress'
    <3>1. CASE todo' = todo \ {i} /\ present' = [present EXCEPT ![Root] = @ \ {i}]
               /\ UNCHANGED <<running, result>>
      <4>1. Root \in Roots /\ Root' = Root
        BY <2>4 DEF UninstallStep, SInv, TypeOK, Root
      <4>2. (batch' \ todo') \cap present'[Root'] = {}
        BY <2>4, <3>1, <4>1 DEF UninstallStep, SInv, TypeOK, Progress
      <4>. QED BY <2>4, <3>1, <4>1, <4>2 DEF UninstallStep, SInv, Progress
    <3>2. CASE running' = FALSE
      BY <3>2 DEF Progress
    <3>. QED BY <2>4, <3>1, <3>2 DEF UninstallStep
  <2>5. CASE WriteOpen
    BY <2>5 DEF WriteOpen, SInv, Progress, Root
  <2>6. CASE UninstallRoot
    <3>1. CASE config \in Roots /\ rootExists[config]
               /\ rootExists' = [rootExists EXCEPT ![config] = FALSE]
               /\ present' = [present EXCEPT ![config] = {}]
               /\ phase' = "cleanup"
               /\ UNCHANGED <<config, running, result>>
      <4>1. Root' = Root
        BY <2>6 DEF UninstallRoot, Root
      <4>2. \A R \in Roots : present'[R] \subseteq present[R]
        BY <3>1 DEF SInv, TypeOK
      <4>. QED BY <2>6, <3>1, <4>1, <4>2 DEF UninstallRoot, SInv, Progress
    <3>2. CASE running' = FALSE
      BY <3>2 DEF Progress
    <3>. QED BY <2>6, <3>1, <3>2 DEF UninstallRoot
  <2>7. CASE WriteDump \/ RemoveConfig \/ Restart
    BY <2>7 DEF WriteDump, RemoveConfig, Restart, Progress
  <2>8. CASE ExternalRemove
    BY <2>8 DEF ExternalRemove, Progress
  <2>9. CASE UNCHANGED vars
    BY <2>9 DEF vars, SInv, Progress, Root
  <2>10. ASSUME NEW i \in Arts, NoPathStep(i) PROVE Progress'
    <3>1. /\ Root \notin Roots /\ op \in {"is_installed", "uninstall"}
          /\ UNCHANGED <<config, present, sys, op, phase, batch>>
          /\ todo' \subseteq todo /\ phase = "loop" /\ running
      BY <2>10 DEF NoPathStep, diskVars
    <3>. QED BY <3>1 DEF SInv, Progress, Root
  <2>. QED BY <2>1, <2>2, <2>3, <2>4, <2>5, <2>6, <2>7, <2>8, <2>9, <2>10 DEF Next
<1>. QED BY <1>1, <1>2 DEF SInv

LEMMA SInitSInv == Init => SInv
BY SInitTypeOK DEF Init, SInv, Progress

\* Every reachable state of the Slurm installer model is well typed: in
\* particular the configuration file only ever holds an install root (never
\* the None of a system without install_path), Empty, or nothing.
THEOREM SlurmTypeCorrect == Spec => []TypeOK
BY SInitSInv, SInvInductive, PTL DEF Spec, SInv

-----------------------------------------------------------------------------
(* The two action properties of run slurm_core, for all constants.        *)

\* Only _write_config's dump writes a root into the file, and it runs after
\* the loop has put every artifact of the call into the system's root.
LEMMA ConfigWriteStep ==
    ASSUME SInv, [Next]_vars, config' \in Roots, config' # config
    PROVE  /\ op' = "install"
           /\ config' = InstallPath[sys']
           /\ batch' \subseteq present'[config']
<1>1. Absent \notin Roots /\ Empty \notin Roots
  BY SlurmConstantsAssumption
<1>2. WriteDump
  <2>1. ASSUME NEW s \in Systems, NEW S \in SUBSET Arts \ {{}},
               StartInstall(s, S) \/ StartIsInstalled(s, S) \/ StartUninstall(s, S)
        PROVE  FALSE
    BY <2>1 DEF StartInstall, StartIsInstalled, StartUninstall, diskVars
  <2>2. ASSUME NEW i \in Arts,
               InstallStep(i) \/ IsInstalledStep(i) \/ UninstallStep(i) \/ NoPathStep(i)
        PROVE  FALSE
    BY <2>2 DEF InstallStep, IsInstalledStep, UninstallStep, NoPathStep, diskVars
  <2>3. ~(WriteOpen \/ UninstallRoot \/ RemoveConfig \/ Restart \/ ExternalRemove)
    BY <1>1 DEF WriteOpen, UninstallRoot, RemoveConfig, Restart, ExternalRemove, diskVars
  <2>4. ~UNCHANGED vars
    BY DEF vars
  <2>. QED BY <2>1, <2>2, <2>3, <2>4 DEF Next
<1>3. phase = "write" /\ running /\ config' = Root
  BY <1>1, <1>2 DEF WriteDump
<1>4. op = "install" /\ todo = {}
  BY <1>3 DEF SInv, Progress
<1>. QED BY <1>2, <1>3, <1>4 DEF WriteDump, SInv, Progress, Root

\* A root is recorded in ~/.cloudai.toml only by install, only the root of
\* the system being installed, and only when every artifact of its tests is
\* in place (ConfigWrittenAfterFullInstall, checked by run slurm_core).
THEOREM ConfigRecordsFullInstall == Spec => ConfigWrittenAfterFullInstall
<1>1. SInv /\ [Next]_vars =>
        [config' \in Roots /\ config' # config =>
            /\ op' = "install"
            /\ config' = InstallPath[sys']
            /\ batch' \subseteq present'[config']]_vars
  BY ConfigWriteStep
<1>. QED BY <1>1, SInitSInv, SInvInductive, PTL DEF Spec, ConfigWrittenAfterFullInstall

\* The step that returns success from uninstall has removed the file and
\* leaves none of the call's artifacts in the system's root.
LEMMA UninstallOkStep ==
    ASSUME SInv, [Next]_vars, running, ~running', result' = "ok", op = "uninstall"
    PROVE  /\ config' = Absent
           /\ Root \in Roots => \A i \in batch : i \notin present'[Root]
<1>1. Root \in Roots => (batch \ todo) \cap present[Root] = {}
  BY DEF SInv, Progress
<1>2. CASE UninstallRoot
  <2>1. config = Empty /\ config' = Absent /\ present' = present /\ todo = {}
    BY <1>2 DEF UninstallRoot, diskVars
  <2>. QED BY <1>1, <2>1
<1>3. CASE RemoveConfig
  <2>1. config' = Absent /\ present' = present /\ phase = "cleanup"
    BY <1>3 DEF RemoveConfig
  <2>2. todo = {}
    BY <2>1 DEF SInv, Progress
  <2>. QED BY <1>1, <2>1, <2>2
<1>4. ~UninstallRoot /\ ~RemoveConfig => FALSE
  <2>1. ASSUME NEW s \in Systems, NEW S \in SUBSET Arts \ {{}},
               StartInstall(s, S) \/ StartIsInstalled(s, S) \/ StartUninstall(s, S)
        PROVE  FALSE
    BY <2>1 DEF StartInstall, StartIsInstalled, StartUninstall
  <2>2. ASSUME NEW i \in Arts,
               InstallStep(i) \/ IsInstalledStep(i) \/ UninstallStep(i) \/ NoPathStep(i)
        PROVE  FALSE
    BY <2>2 DEF InstallStep, IsInstalledStep, UninstallStep, NoPathStep
  <2>3. ~(WriteOpen \/ WriteDump \/ Restart \/ ExternalRemove \/ UNCHANGED vars)
    BY DEF WriteOpen, WriteDump, Restart, ExternalRemove, vars
  <2>. QED BY <2>1, <2>2, <2>3 DEF Next
<1>. QED BY <1>2, <1>3, <1>4

\* A successful uninstall leaves no configuration file and none of its
\* artifacts in the system's root (UninstallClearsConfig, checked by run
\* slurm_core).
THEOREM UninstallLeavesNoConfig == Spec => UninstallClearsConfig
<1>1. SInv /\ [Next]_vars =>
        [running /\ ~running' /\ result' = "ok" /\ op = "uninstall" =>
            /\ config' = Absent
            /\ Root \in Roots => \A i \in batch : i \notin present'[Root]]_vars
  BY UninstallOkStep
<1>. QED BY <1>1, SInitSInv, SInvInductive, PTL DEF Spec, UninstallClearsConfig

\* The step that returns success from is_installed is the loop's last
\* hook: for a system with an install_path the last is_installed_one,
\* which found the artifact; so the file was there and every artifact of
\* the call is in the system's root.
LEMMA IsInstalledOkStep ==
    ASSUME SInv, [Next]_vars, running, ~running', result' = "ok", op = "is_installed"
    PROVE  /\ config # Absent
           /\ Root \in Roots => batch \subseteq present[Root]
<1>1. config # Absent /\ (Root \in Roots => batch \ todo \subseteq present[Root])
  BY DEF SInv, Progress
<1>2. ASSUME NEW i \in Arts, IsInstalledStep(i)
      PROVE  batch \subseteq present[Root]
  <2>1. i \in present[Root] /\ todo \ {i} = {} /\ Root \in Roots
    BY <1>2 DEF IsInstalledStep
  <2>. QED BY <1>1, <2>1
<1>3. ASSUME NEW i \in Arts PROVE ~(InstallStep(i) \/ UninstallStep(i))
  BY DEF InstallStep, UninstallStep
<1>4. ASSUME NEW s \in Systems, NEW S \in SUBSET Arts \ {{}},
             StartInstall(s, S) \/ StartIsInstalled(s, S) \/ StartUninstall(s, S)
      PROVE  FALSE
  BY <1>4 DEF StartInstall, StartIsInstalled, StartUninstall
<1>5. ~(WriteOpen \/ WriteDump \/ UninstallRoot \/ RemoveConfig \/ Restart
        \/ ExternalRemove \/ UNCHANGED vars)
  BY DEF WriteOpen, WriteDump, UninstallRoot, RemoveConfig, Restart, ExternalRemove, vars
<1>6. \E i \in Arts : IsInstalledStep(i) \/ NoPathStep(i)
  BY <1>3, <1>4, <1>5 DEF Next
<1>7. ASSUME NEW i \in Arts, NoPathStep(i) PROVE Root \notin Roots
  BY <1>7 DEF NoPathStep
<1>. QED BY <1>1, <1>2, <1>6, <1>7

\* is_installed reports success only with the configuration file present
\* and, for a system with an install_path, every artifact of its tests in
\* the system's root (IsInstalledGated, checked by run slurm_core).
THEOREM IsInstalledReportsTruth == Spec => IsInstalledGated
<1>1. SInv /\ [Next]_vars =>
        [running /\ ~running' /\ result' = "ok" /\ op = "is_installed" =>
            /\ config # Absent
            /\ Root \in Roots => batch \subseteq present[Root]]_vars
  BY IsInstalledOkStep
<1>. QED BY <1>1, SInitSInv, SInvInductive, PTL DEF Spec, IsInstalledGated

\* No step of uninstall that returns a failure touches the configuration
\* file: uninstall_one's failure returns before _read_config, and rmtree's
\* OSError returns before _remove_config.
LEMMA UninstallFailStep ==
    ASSUME [Next]_vars, running, op = "uninstall", ~running', result' = "fail"
    PROVE  config' = config
<1>1. ASSUME NEW s \in Systems, NEW S \in SUBSET Arts \ {{}},
             StartInstall(s, S) \/ StartIsInstalled(s, S) \/ StartUninstall(s, S)
      PROVE  FALSE
  BY <1>1 DEF StartInstall, StartIsInstalled, StartUninstall
<1>2. ASSUME NEW i \in Arts,
             InstallStep(i) \/ IsInstalledStep(i) \/ UninstallStep(i) \/ NoPathStep(i)
      PROVE  config' = config
  BY <1>2 DEF InstallStep, IsInstalledStep, UninstallStep, NoPathStep, diskVars
<1>3. ~(WriteOpen \/ WriteDump \/ RemoveConfig \/ ExternalRemove)
  BY DEF WriteOpen, WriteDump, RemoveConfig, ExternalRemove
<1>4. CASE UninstallRoot
  BY <1>4 DEF UninstallRoot, diskVars
<1>5. CASE Restart \/ UNCHANGED vars
  BY <1>5 DEF Restart, diskVars, vars
<1>. QED BY <1>1, <1>2, <1>3, <1>4, <1>5 DEF Next

\* A failed uninstall, whether an artifact hook or rmtree failed, leaves the
\* record of the install root in ~/.cloudai.toml, so a retry still finds
\* the root (UninstallFailureKeepsRecord, checked by run slurm_core).
THEOREM UninstallFailureRetriable == Spec => UninstallFailureKeepsRecord
<1>1. [Next]_vars =>
        [running /\ op = "uninstall" /\ ~running' /\ result' = "fail" => config' = config]_vars
  BY UninstallFailStep
<1>. QED BY <1>1, PTL DEF Spec, UninstallFailureKeepsRecord

=============================================================================
