--------------------------- MODULE SlurmInstaller ---------------------------
(***************************************************************************)
(* The Slurm installer of cloudai (src/cloudai/installer/slurm_installer.py)*)
(* with its per-user configuration file ~/.cloudai.toml.  Several systems *)
(* (each with its own install_path) are installed by the same user, so    *)
(* they share that one file.                                              *)
(*                                                                         *)
(* The per-artifact hooks are those of the LSF model (section 4.3 of the  *)
(* spec: same contract); here an artifact is only present in a root or    *)
(* not, and install_one may fail.  The configuration file is Absent,      *)
(* Empty (opened for writing and truncated, not yet dumped) or holds an   *)
(* install root.                                                           *)
(***************************************************************************)

CONSTANTS
    Systems,        \* system descriptors the user runs cloudai with
    Roots,          \* install roots
    InstallPath,    \* SlurmSystem.install_path, a root or NoPath
    Arts,           \* the de-duplicated artifacts of the tests
    NoPath,         \* install_path is None
    Absent,         \* the configuration file does not exist
    Empty           \* the configuration file exists with no content

ASSUME SlurmConstantsAssumption ==
    /\ InstallPath \in [Systems -> Roots \cup {NoPath}]
    /\ NoPath \notin Roots /\ Absent \notin Roots /\ Empty \notin Roots
    /\ Absent # Empty

VARIABLES
    config,         \* content of ~/.cloudai.toml: a root, Empty or Absent
    rootExists,     \* install root -> the directory exists
    present,        \* install root -> artifacts present in it
    sys,            \* the system of the call in progress or last returned
    op,             \* "install", "uninstall" or "is_installed"
    running,        \* the call has not returned yet
    phase,          \* "loop": BaseInstaller loop; "write": _write_config
                    \* opened the file; "cleanup": rmtree done, file not removed
    todo,           \* artifacts the loop has still to visit
    batch,          \* the artifacts of the call
    result          \* "none", "ok", "fail" or "raised"

vars == <<config, rootExists, present, sys, op, running, phase, todo, batch, result>>

diskVars == <<config, rootExists, present>>

TypeOK ==
    /\ config \in Roots \cup {Absent, Empty}
    /\ rootExists \in [Roots -> BOOLEAN]
    /\ present \in [Roots -> SUBSET Arts]
    /\ sys \in Systems
    /\ op \in {"install", "uninstall", "is_installed"}
    /\ running \in BOOLEAN
    /\ phase \in {"loop", "write", "cleanup"}
    /\ todo \in SUBSET Arts
    /\ batch \in SUBSET Arts
    /\ result \in {"none", "ok", "fail", "raised"}

Init ==
    /\ config = Absent
    /\ rootExists = [R \in Roots |-> FALSE]
    /\ present = [R \in Roots |-> {}]
    /\ sys \in Systems
    /\ op = "install"
    /\ running = FALSE
    /\ phase = "loop"
    /\ todo = {}
    /\ batch = {}
    /\ result = "none"

Root == InstallPath[sys]

Begin(s, o, S) ==
    /\ sys' = s /\ op' = o /\ batch' = S /\ todo' = S
    /\ running' = TRUE /\ phase' = "loop" /\ result' = "none"

Refuse(s, o, S) ==
    /\ sys' = s /\ op' = o /\ batch' = S /\ todo' = S
    /\ running' = FALSE /\ phase' = "loop" /\ result' = "fail"

-----------------------------------------------------------------------------
(* install: install_path set, prerequisites, makedirs, writable, then the  *)
(* BaseInstaller loop, then _write_config.                                  *)

\* _check_prerequisites: git and the Slurm binaries on PATH, and the srun
\* options in `srun --help`; the environment decides.
PrerequisiteOutcomes == BOOLEAN

StartInstall(s, S) ==
    /\ ~running
    /\ \/ InstallPath[s] = NoPath /\ Refuse(s, "install", S)
            /\ UNCHANGED diskVars
       \/ /\ InstallPath[s] \in Roots
          /\ \E prereqOk \in PrerequisiteOutcomes, made \in BOOLEAN, writable \in BOOLEAN :
               \/ ~prereqOk /\ Refuse(s, "install", S) /\ UNCHANGED diskVars
               \/ /\ prereqOk
                  /\ rootExists' = [rootExists EXCEPT ![InstallPath[s]] = @ \/ made]
                  /\ IF rootExists'[InstallPath[s]] /\ writable
                     THEN Begin(s, "install", S) ELSE Refuse(s, "install", S)
                  /\ UNCHANGED <<config, present>>

\* One artifact: skip it when is_installed_one finds it, else install_one,
\* which succeeds or fails.
InstallStep(i) ==
    /\ running /\ op = "install" /\ phase = "loop" /\ i \in todo /\ Root \in Roots
    /\ \/ todo' = todo \ {i}
          /\ present' = [present EXCEPT ![Root] = @ \cup {i}]
          /\ UNCHANGED <<running, result>>
       \/ i \notin present[Root] /\ running' = FALSE /\ result' = "fail"
          /\ UNCHANGED <<present, todo>>
    /\ UNCHANGED <<config, rootExists, sys, op, phase, batch>>

\* _write_config, first half: open(config_path, "w") creates or truncates
\* the file; when open fails, the file is as it was and the except branch
\* removes it, unless os.remove fails too (suppressed).
\* Mutant: _write_config called before the loop has finished.
WriteOpenEarly ==
    /\ running /\ op = "install" /\ phase = "loop"
    /\ \/ config' = Empty /\ phase' = "write" /\ UNCHANGED <<running, result>>
       \/ config' = Absent /\ running' = FALSE /\ result' = "fail" /\ UNCHANGED phase
    /\ UNCHANGED <<rootExists, present, sys, op, todo, batch>>

WriteOpen ==
    /\ running /\ op = "install" /\ phase = "loop" /\ todo = {}
    /\ \/ config' = Empty /\ phase' = "write" /\ UNCHANGED <<running, result>>
       \/ config' \in {Absent, config} /\ running' = FALSE /\ result' = "fail"
          /\ UNCHANGED phase
    /\ UNCHANGED <<rootExists, present, sys, op, todo, batch>>

\* _write_config, second half: toml.dump either completes, or raises and the
\* truncated file is removed, or stays when os.remove fails as well.
WriteDump ==
    /\ running /\ op = "install" /\ phase = "write"
    /\ \/ config' = Root /\ result' = "ok"
       \/ config' \in {Absent, Empty} /\ result' = "fail"
    /\ running' = FALSE /\ phase' = "loop"
    /\ UNCHANGED <<rootExists, present, sys, op, todo, batch>>

-----------------------------------------------------------------------------
(* is_installed: the configuration file must exist and be readable, then   *)
(* the BaseInstaller check (fail fast).                                     *)

\* Mutant: is_installed without the configuration-file check.
StartIsInstalledNoConfig(s, S) ==
    /\ ~running
    /\ Begin(s, "is_installed", S)
    /\ UNCHANGED diskVars

\* No install_path check: the system's install_path may be None.
StartIsInstalled(s, S) ==
    /\ ~running
    /\ IF config = Absent THEN Refuse(s, "is_installed", S) ELSE Begin(s, "is_installed", S)
    /\ UNCHANGED diskVars

\* Mutant: the loop returns success on reaching the last artifact,
\* without checking it.
IsInstalledStepLastUnchecked(i) ==
    /\ running /\ op = "is_installed" /\ i \in todo /\ Root \in Roots
    /\ IF i \in present[Root] \/ todo = {i}
       THEN /\ todo' = todo \ {i}
            /\ IF todo' = {} THEN running' = FALSE /\ result' = "ok"
                             ELSE UNCHANGED <<running, result>>
       ELSE running' = FALSE /\ result' = "fail" /\ UNCHANGED todo
    /\ UNCHANGED <<diskVars, sys, op, phase, batch>>

\* is_installed_one of one artifact; after the last one the loop returns
\* success.
IsInstalledStep(i) ==
    /\ running /\ op = "is_installed" /\ i \in todo /\ Root \in Roots
    /\ IF i \in present[Root]
       THEN /\ todo' = todo \ {i}
            /\ IF todo' = {} THEN running' = FALSE /\ result' = "ok"
                             ELSE UNCHANGED <<running, result>>
       ELSE running' = FALSE /\ result' = "fail" /\ UNCHANGED todo
    /\ UNCHANGED <<diskVars, sys, op, phase, batch>>

-----------------------------------------------------------------------------
(* uninstall: the BaseInstaller loop, then _read_config, rmtree of the     *)
(* install_path it records, and _remove_config.                            *)

\* "This method does not require the installation path to be set".
StartUninstall(s, S) ==
    /\ ~running
    /\ Begin(s, "uninstall", S)
    /\ UNCHANGED diskVars

\* uninstall_one removes the artifact from the system's own root (a missing
\* artifact is a success) or fails, and the loop returns that failure.
UninstallStep(i) ==
    /\ running /\ op = "uninstall" /\ phase = "loop" /\ i \in todo /\ Root \in Roots
    /\ \/ todo' = todo \ {i}
          /\ present' = [present EXCEPT ![Root] = @ \ {i}]
          /\ UNCHANGED <<running, result>>
       \/ i \in present[Root] /\ running' = FALSE /\ result' = "fail"
          /\ UNCHANGED <<present, todo>>
    /\ UNCHANGED <<config, rootExists, sys, op, phase, batch>>

\* The hooks of a system whose install_path is None (is_installed and
\* uninstall do not refuse it): a DockerImage is a no-op success, any other
\* artifact's path install_path / name cannot be formed and the hook raises
\* TypeError out of the loop.  Nothing on disk is touched.
NoPathStep(i) ==
    /\ running /\ op \in {"is_installed", "uninstall"} /\ phase = "loop"
    /\ i \in todo /\ Root \notin Roots
    /\ \/ /\ todo' = todo \ {i}
          /\ IF op = "is_installed" /\ todo' = {}
             THEN running' = FALSE /\ result' = "ok"
             ELSE UNCHANGED <<running, result>>
       \/ running' = FALSE /\ result' = "raised" /\ UNCHANGED todo
    /\ UNCHANGED <<diskVars, sys, op, phase, batch>>

\* Mutant: _remove_config moved before the rmtree, so a failing rmtree
\* loses the record of the root it was removing.
UninstallRootConfigFirst ==
    /\ running /\ op = "uninstall" /\ phase = "loop" /\ todo = {}
    /\ \/ config = Absent /\ running' = FALSE /\ result' = "raised"
          /\ UNCHANGED <<diskVars, phase>>
       \/ config = Empty /\ config' = Absent /\ running' = FALSE /\ result' = "ok"
          /\ UNCHANGED <<rootExists, present, phase>>
       \/ config \in Roots /\ config' = Absent /\ running' = FALSE /\ result' = "fail"
          /\ \E gone \in SUBSET present[config] :
                present' = [present EXCEPT ![config] = @ \ gone]
          /\ UNCHANGED <<rootExists, phase>>
       \/ config \in Roots /\ rootExists[config] /\ config' = Absent
          /\ rootExists' = [rootExists EXCEPT ![config] = FALSE]
          /\ present' = [present EXCEPT ![config] = {}]
          /\ phase' = "cleanup"
          /\ UNCHANGED <<running, result>>
    /\ UNCHANGED <<sys, op, todo, batch>>

\* _read_config raises FileNotFoundError when the file is gone; an empty
\* file has no install_path, so nothing is removed; rmtree of a missing
\* directory (or one it may not delete) raises OSError, returned as a
\* failure, after it has deleted what it could of the tree.
UninstallRoot ==
    /\ running /\ op = "uninstall" /\ phase = "loop" /\ todo = {}
    /\ \/ config = Absent /\ running' = FALSE /\ result' = "raised"
          /\ UNCHANGED <<diskVars, phase>>
       \/ config = Empty /\ config' = Absent /\ running' = FALSE /\ result' = "ok"
          /\ UNCHANGED <<rootExists, present, phase>>
       \/ config \in Roots /\ running' = FALSE /\ result' = "fail"
          /\ \E gone \in SUBSET present[config] :
                present' = [present EXCEPT ![config] = @ \ gone]
          /\ UNCHANGED <<config, rootExists, phase>>
       \/ config \in Roots /\ rootExists[config]
          /\ rootExists' = [rootExists EXCEPT ![config] = FALSE]
          /\ present' = [present EXCEPT ![config] = {}]
          /\ phase' = "cleanup"
          /\ UNCHANGED <<config, running, result>>
    /\ UNCHANGED <<sys, op, todo, batch>>

\* _remove_config, then "All test templates uninstalled successfully."
\* Mutant: uninstall returns success without _remove_config.
RemoveConfigSkipped ==
    /\ running /\ op = "uninstall" /\ phase = "cleanup"
    /\ running' = FALSE /\ result' = "ok" /\ phase' = "loop"
    /\ UNCHANGED <<config, rootExists, present, sys, op, todo, batch>>

RemoveConfig ==
    /\ running /\ op = "uninstall" /\ phase = "cleanup"
    /\ config' = Absent /\ running' = FALSE /\ result' = "ok" /\ phase' = "loop"
    /\ UNCHANGED <<rootExists, present, sys, op, todo, batch>>

-----------------------------------------------------------------------------
(* The environment: the process ends or is killed at any point; between   *)
(* calls a user deletes an install root or the configuration file.        *)

Restart ==
    /\ running
    /\ running' = FALSE /\ result' = "none" /\ phase' = "loop"
    /\ UNCHANGED <<diskVars, sys, op, todo, batch>>

ExternalRemove ==
    /\ ~running
    /\ \/ \E R \in Roots : rootExists[R]
            /\ rootExists' = [rootExists EXCEPT ![R] = FALSE]
            /\ present' = [present EXCEPT ![R] = {}]
            /\ UNCHANGED config
       \/ config # Absent /\ config' = Absent /\ UNCHANGED <<rootExists, present>>
    /\ UNCHANGED <<sys, op, running, phase, todo, batch, result>>

Next ==
    \/ \E s \in Systems, S \in SUBSET Arts \ {{}} :
          StartInstall(s, S) \/ StartIsInstalled(s, S) \/ StartUninstall(s, S)
    \/ \E i \in Arts :
          InstallStep(i) \/ IsInstalledStep(i) \/ UninstallStep(i) \/ NoPathStep(i)
    \/ WriteOpen \/ WriteDump
    \/ UninstallRoot \/ RemoveConfig
    \/ Restart \/ ExternalRemove

Spec == Init /\ [][Next]_vars

\* The caller's view (installer.py): the Installer facade over a registry
\* that maps the slurm scheduler to SlurmInstaller.
Facade == INSTANCE Installer
    WITH Scheduler <- [s \in Systems |-> "slurm"], Registered <- {"slurm"}

-----------------------------------------------------------------------------
(* Properties.                                                             *)

\* The configuration file marks a completed install (spec section 4.2):
\* install writes an install root into it only after the BaseInstaller loop
\* has every artifact of the call in place, and the root it writes is the
\* install_path of the system being installed.
ConfigWrittenAfterFullInstall ==
    [][config' \in Roots /\ config' # config =>
         /\ op' = "install"
         /\ config' = InstallPath[sys']
         /\ batch' \subseteq present'[config']]_vars

\* Config gating of is_installed (slurm_installer.py is_installed): a call
\* that reports success found the configuration file and, for a system
\* with an install_path, every artifact of its tests in the system's root,
\* although the file may be an empty or a foreign one.
IsInstalledGated ==
    [][running /\ ~running' /\ result' = "ok" /\ op = "is_installed" =>
         /\ config # Absent
         /\ Root \in Roots => batch \subseteq present[Root]]_vars

\* A successful uninstall leaves no configuration file behind and, for a
\* system with an install_path, none of the artifacts it was given in the
\* system's root, whichever of the loop, rmtree and _remove_config removed
\* them.
UninstallClearsConfig ==
    [][running /\ ~running' /\ result' = "ok" /\ op = "uninstall" =>
         /\ config' = Absent
         /\ Root \in Roots => \A i \in batch : i \notin present'[Root]]_vars

\* An uninstall that fails (an uninstall_one failure, or rmtree raising
\* OSError after deleting part of the tree) keeps the configuration record
\* as it was, so that the root it names can still be found and removed by
\* a retry; only success removes the record.
UninstallFailureKeepsRecord ==
    [][running /\ op = "uninstall" /\ ~running' /\ result' = "fail" =>
         config' = config]_vars

\* SlurmInstaller keeps the installer contract seen through the facade:
\* install only adds artifacts of its tests to the system's root,
\* is_installed changes nothing on disk, only uninstall and users delete,
\* and a call that succeeds has its artifacts present (install,
\* is_installed) or gone (uninstall).  The configuration file, the
\* existence of roots and the loop's progress are hidden.
ImplementsInstaller == Facade!Spec

\* Failures are returned, not raised (spec section 7); uninstall with no
\* configuration file lets the FileNotFoundError of _read_config escape.
SlurmNoExceptionEscapes == result # "raised"

\* uninstall of one system deletes no install root but its own; the
\* per-user file may record the root of another system.
UninstallOnlyOwnRoot ==
    [][running /\ op = "uninstall" =>
         \A R \in Roots : rootExists[R] /\ ~rootExists'[R] => R = Root]_vars

\* _write_config claims to write the file atomically: the file is never
\* seen truncated, also when the process dies between open and dump.
ConfigAtomic == ~running => config # Empty

=============================================================================
