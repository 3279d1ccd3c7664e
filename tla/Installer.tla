------------------------------ MODULE Installer ------------------------------
(***************************************************************************)
(* The Installer facade of cloudai (src/cloudai/installer/installer.py)   *)
(* and the contract of the scheduler installer it delegates to, seen from *)
(* the caller: which artifacts are present in which install root, and the *)
(* call in progress.  Installer.__init__ resolves the installer class of  *)
(* the system's scheduler in the registry; is_installed, install and      *)
(* uninstall hand the tests to it unchanged.  Behind the facade the call  *)
(* is the BaseInstaller loop of a scheduler installer (spec section 4.1). *)
(*                                                                         *)
(* A scheduler installer implements this module when its own variables    *)
(* map onto these: SlurmInstaller does so in SlurmInstallerProofs.        *)
(***************************************************************************)

CONSTANTS
    Systems,        \* system descriptors
    Roots,          \* install roots
    InstallPath,    \* system -> its install root (or a value outside Roots)
    Arts,           \* artifacts of the tests
    Scheduler,      \* system -> System.scheduler
    Registered      \* the keys of Registry().installers_map

VARIABLES
    present,        \* install root -> artifacts present in it
    sys,            \* the system of the call
    op,             \* "install", "uninstall" or "is_installed"
    running,        \* the call has not returned yet
    batch,          \* the artifacts of the call
    result          \* "none", "ok", "fail" or "raised"

vars == <<present, sys, op, running, batch, result>>

Ops == {"install", "uninstall", "is_installed"}

Init ==
    /\ present = [R \in Roots |-> {}]
    /\ sys \in Systems
    /\ op = "install"
    /\ running = FALSE
    /\ batch = {}
    /\ result = "none"

Root == InstallPath[sys]

\* Some install roots lose some of their artifacts, no root gains any.
Shrink ==
    \E R \in Roots : \E gone \in SUBSET present[R] :
        present' = [present EXCEPT ![R] = @ \ gone]

\* What a successful call guarantees about the system's root; a system
\* whose install_path is None has no root to hold to anything.
Fulfilled ==
    Root \in Roots =>
        /\ op \in {"install", "is_installed"} => batch \subseteq present[Root]
        /\ op = "uninstall" => batch \cap present[Root] = {}

-----------------------------------------------------------------------------
\* Installer(system) raises NotImplementedError for a scheduler with no
\* registered installer; otherwise the call is delegated, whatever the
\* system's install_path, and the installer may refuse it at once
\* (prerequisites, install_path, configuration file).
Call(s, o, S) ==
    /\ ~running
    /\ sys' = s /\ op' = o /\ batch' = S
    /\ IF Scheduler[s] \notin Registered
       THEN running' = FALSE /\ result' = "raised"
       ELSE \/ running' = TRUE /\ result' = "none"
            \/ running' = FALSE /\ result' = "fail"
    /\ UNCHANGED present

\* install puts artifacts of its tests into the system's root, one at a time.
Add(i) ==
    /\ running /\ op = "install" /\ i \in batch /\ Root \in Roots
    /\ present' = [present EXCEPT ![Root] = @ \cup {i}]
    /\ UNCHANGED <<sys, op, running, batch, result>>

\* uninstall removes artifacts; it is the only call that deletes anything.
Remove ==
    /\ running /\ op = "uninstall" /\ Shrink
    /\ UNCHANGED <<sys, op, running, batch, result>>

\* The call returns; success only with its promise kept.  is_installed and
\* install change nothing on the way out, uninstall may still delete.
Return(res) ==
    /\ running /\ running' = FALSE /\ result' = res
    /\ IF op = "uninstall" THEN Shrink \/ UNCHANGED present ELSE UNCHANGED present
    /\ res = "ok" => Fulfilled'
    /\ UNCHANGED <<sys, op, batch>>

\* The process dies in the middle of a call.
Crash ==
    /\ running /\ running' = FALSE /\ result' = "none"
    /\ UNCHANGED <<present, sys, op, batch>>

\* Between calls a user deletes files by hand.
Env ==
    /\ ~running /\ Shrink
    /\ UNCHANGED <<sys, op, running, batch, result>>

Next ==
    \/ \E s \in Systems, o \in Ops, S \in SUBSET Arts \ {{}} : Call(s, o, S)
    \/ \E i \in Arts : Add(i)
    \/ Remove
    \/ \E res \in {"ok", "fail", "raised"} : Return(res)
    \/ Crash
    \/ Env

Spec == Init /\ [][Next]_vars

=============================================================================
