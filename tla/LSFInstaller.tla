---------------------------- MODULE LSFInstaller ----------------------------
(***************************************************************************)
(* The LSF installer of cloudai (src/cloudai/installer/lsf_installer.py)  *)
(* driven by the BaseInstaller loop (install, uninstall, is_installed,     *)
(* mark_as_installed over the de-duplicated artifacts of a set of tests).  *)
(*                                                                         *)
(* Data abstraction: everything lives under one install root.  A git      *)
(* repository directory holds the commit it has checked out, a virtual    *)
(* environment holds the set of projects whose dependencies were pip-     *)
(* installed into it, a copied file holds the File artifact it was copied *)
(* from.  The in-memory artifact objects carry the "installed location"   *)
(* fields; since every location is install_path / <computed name>, a      *)
(* field is modelled as "set" or "None".  Subprocess results (git clone,  *)
(* git checkout, python -m venv, pip install) are nondeterministic.       *)
(***************************************************************************)
EXTENDS FiniteSets

CONSTANTS
    Repos,          \* GitRepo objects (standalone items and PythonExecutable.git_repo)
    Pys,            \* PythonExecutable objects
    Files,          \* File objects
    Dockers,        \* DockerImage objects
    Items,          \* the de-duplicated installables of the tests
    RepoDirs, VenvDirs, FileNames, Commits,
    RepoName,       \* GitRepo.repo_name, derived from the URL
    Commit,         \* GitRepo.commit, the pinned commit
    GitRepoOf,      \* PythonExecutable.git_repo
    VenvName,       \* PythonExecutable.venv_name
    SrcName,        \* File.src.name
    HasPyproject,   \* pyproject.toml exists in the project directory
    HasRequirements,\* requirements.txt exists in the project directory
    CloneHead,      \* the commit a fresh clone has before checkout
    Absent          \* nothing at that path

ASSUME KindsAssumption ==
    /\ Repos \cap Pys = {} /\ Repos \cap Files = {} /\ Repos \cap Dockers = {}
    /\ Pys \cap Files = {} /\ Pys \cap Dockers = {} /\ Files \cap Dockers = {}
    /\ Items \subseteq Repos \cup Pys \cup Files \cup Dockers

ASSUME ConstantsAssumption ==
    /\ RepoName \in [Repos -> RepoDirs]
    /\ Commit \in [Repos -> Commits]
    /\ GitRepoOf \in [Pys -> Repos]
    /\ VenvName \in [Pys -> VenvDirs]
    /\ SrcName \in [Files -> FileNames]
    /\ HasPyproject \in [Pys -> BOOLEAN]
    /\ HasRequirements \in [Pys -> BOOLEAN]
    /\ Absent \notin Commits \cup {CloneHead} \cup Files

VARIABLES
    rootExists,     \* the install_path directory exists
    repoDisk,       \* repo directory -> checked-out commit, or Absent
    venvExists,     \* venv directory exists
    venvDeps,       \* venv directory -> projects whose dependencies it holds
    fileDisk,       \* file name -> the File artifact copied there, or Absent
    repoPath,       \* GitRepo.installed_path is set
    venvPath,       \* PythonExecutable.venv_path is set
    filePath,       \* File._installed_path is set
    op,             \* the installer call in progress or last returned
    running,        \* that call has not returned yet
    todo,           \* artifacts the call has still to visit
    batch,          \* the artifacts of that call
    result          \* what the call returned: "ok", "fail", "raised" (exception)

diskVars == <<rootExists, repoDisk, venvExists, venvDeps, fileDisk>>
fieldVars == <<repoPath, venvPath, filePath>>
callVars == <<op, running, todo, batch, result>>
vars == <<diskVars, fieldVars, callVars>>

Ops == {"install", "uninstall", "is_installed", "mark_as_installed"}

TypeOK ==
    /\ rootExists \in BOOLEAN
    /\ repoDisk \in [RepoDirs -> Commits \cup {CloneHead, Absent}]
    /\ venvExists \in [VenvDirs -> BOOLEAN]
    /\ venvDeps \in [VenvDirs -> SUBSET Pys]
    /\ fileDisk \in [FileNames -> Files \cup {Absent}]
    /\ repoPath \in [Repos -> BOOLEAN]
    /\ venvPath \in [Pys -> BOOLEAN]
    /\ filePath \in [Files -> BOOLEAN]
    /\ op \in Ops
    /\ running \in BOOLEAN
    /\ todo \in SUBSET Items
    /\ batch \in SUBSET Items
    /\ result \in {"none", "ok", "fail", "raised"}

Init ==
    /\ rootExists \in BOOLEAN
    /\ repoDisk = [d \in RepoDirs |-> Absent]
    /\ venvExists = [v \in VenvDirs |-> FALSE]
    /\ venvDeps = [v \in VenvDirs |-> {}]
    /\ fileDisk = [n \in FileNames |-> Absent]
    /\ repoPath = [r \in Repos |-> FALSE]
    /\ venvPath = [p \in Pys |-> FALSE]
    /\ filePath = [f \in Files |-> FALSE]
    /\ op = "install"
    /\ running = FALSE
    /\ todo = {}
    /\ batch = {}
    /\ result = "none"

-----------------------------------------------------------------------------
(* What is_installed_one finds on disk, and the fields it sets on the way. *)

RepoPresent(r) == repoDisk[RepoName[r]] # Absent

Present(i) ==
    CASE i \in Dockers -> TRUE
      [] i \in Repos   -> RepoPresent(i)
      [] i \in Pys     -> RepoPresent(GitRepoOf[i]) /\ venvExists[VenvName[i]]
      [] i \in Files   -> fileDisk[SrcName[i]] # Absent

\* The GitRepo objects whose installed_path is_installed_one(i) may set.
ReposOf(i) ==
    IF i \in Repos THEN {i} ELSE IF i \in Pys THEN {GitRepoOf[i]} ELSE {}

\* Mutant: _is_python_executable_installed without `item.venv_path = venv_path`.
LookupFieldsNoVenvPath(i) ==
    /\ repoPath' = [r \in Repos |-> repoPath[r] \/ (r \in ReposOf(i) /\ RepoPresent(r))]
    /\ venvPath' = venvPath
    /\ filePath' = [f \in Files |-> filePath[f] \/ (f = i /\ Present(i))]

LookupFields(i) ==
    /\ repoPath' = [r \in Repos |-> repoPath[r] \/ (r \in ReposOf(i) /\ RepoPresent(r))]
    /\ venvPath' = [p \in Pys |-> venvPath[p] \/ (p = i /\ Present(i))]
    /\ filePath' = [f \in Files |-> filePath[f] \/ (f = i /\ Present(i))]

-----------------------------------------------------------------------------
(* Returning from a visit of artifact i: continue, or stop the call.      *)

Done(i) == todo' = todo \ {i} /\ UNCHANGED <<op, running, batch, result>>

Fail == running' = FALSE /\ result' = "fail" /\ UNCHANGED <<op, todo, batch>>

Raise == running' = FALSE /\ result' = "raised" /\ UNCHANGED <<op, todo, batch>>

-----------------------------------------------------------------------------
(* install_one and its helpers.                                            *)

\* _install_one_git_repo: what the repository directory holds afterwards
\* and whether the call succeeded.
CloneOutcomes(r) ==
    IF RepoPresent(r)
    THEN {[at |-> repoDisk[RepoName[r]], ok |-> TRUE]}
    ELSE {[at |-> Absent, ok |-> FALSE],       \* git clone fails
          [at |-> CloneHead, ok |-> FALSE],    \* git checkout fails
          [at |-> Commit[r], ok |-> TRUE]}

\* _create_venv: whether the venv exists (= the call succeeded) afterwards.
VenvOutcomes(v) == IF venvExists[v] THEN {TRUE} ELSE BOOLEAN

\* The manifest choice of _install_python_executable: pip may fail, and
\* with neither manifest the install fails without running pip.
NoManifest(p) == ~HasPyproject[p] /\ ~HasRequirements[p]

DepsOutcomes(p) == IF NoManifest(p) THEN {FALSE} ELSE BOOLEAN

InstallGitRepo(r) ==
    \E g \in CloneOutcomes(r) :
        /\ repoDisk' = [repoDisk EXCEPT ![RepoName[r]] = g.at]
        /\ rootExists' = (rootExists \/ g.at # Absent)
        /\ repoPath' = [repoPath EXCEPT ![r] = @ \/ g.ok]
        /\ IF g.ok THEN Done(r) ELSE Fail
        /\ UNCHANGED <<venvExists, venvDeps, fileDisk, venvPath, filePath>>

InstallPythonExecutable(p) ==
    LET r == GitRepoOf[p]
        v == VenvName[p]
    IN  \E g \in CloneOutcomes(r), venvOk \in VenvOutcomes(v), depsOk \in DepsOutcomes(p) :
          LET ok == g.ok /\ venvOk /\ depsOk IN
          /\ repoDisk' = [repoDisk EXCEPT ![RepoName[r]] = g.at]
          /\ rootExists' = (rootExists \/ g.at # Absent)
          /\ repoPath' = [repoPath EXCEPT ![r] = @ \/ g.ok]
          /\ venvExists' = IF g.ok THEN [venvExists EXCEPT ![v] = venvOk] ELSE venvExists
          /\ venvDeps' = IF ok THEN [venvDeps EXCEPT ![v] = @ \cup {p}] ELSE venvDeps
          /\ venvPath' = IF ok THEN [venvPath EXCEPT ![p] = TRUE] ELSE venvPath
          /\ IF ok THEN Done(p) ELSE Fail
          /\ UNCHANGED <<fileDisk, filePath>>

\* installed_path is assigned before shutil.copyfile, which raises when the
\* install root does not exist (nothing in the LSF installer creates it).
InstallFile(f) ==
    /\ filePath' = [filePath EXCEPT ![f] = TRUE]
    /\ IF rootExists
       THEN fileDisk' = [fileDisk EXCEPT ![SrcName[f]] = f] /\ Done(f)
       ELSE UNCHANGED fileDisk /\ Raise
    /\ UNCHANGED <<rootExists, repoDisk, venvExists, venvDeps, repoPath, venvPath>>

InstallOne(i) ==
    \/ i \in Repos /\ InstallGitRepo(i)
    \/ i \in Pys /\ InstallPythonExecutable(i)
    \/ i \in Files /\ InstallFile(i)

-----------------------------------------------------------------------------
(* uninstall_one and its helpers.                                          *)

\* _uninstall_git_repo: a missing directory is a success that leaves
\* installed_path as it was.
\* Mutant: _uninstall_git_repo without the fallback to the computed path,
\* so a fresh process whose installed_path is None removes nothing.
RemoveGitRepoFieldOnly(r) ==
    IF repoPath[r] /\ RepoPresent(r)
    THEN /\ repoDisk' = [repoDisk EXCEPT ![RepoName[r]] = Absent]
         /\ repoPath' = [repoPath EXCEPT ![r] = FALSE]
    ELSE UNCHANGED <<repoDisk, repoPath>>

RemoveGitRepo(r) ==
    IF RepoPresent(r)
    THEN /\ repoDisk' = [repoDisk EXCEPT ![RepoName[r]] = Absent]
         /\ repoPath' = [repoPath EXCEPT ![r] = FALSE]
    ELSE UNCHANGED <<repoDisk, repoPath>>

RemoveVenv(p) ==
    LET v == VenvName[p] IN
    IF venvExists[v]
    THEN /\ venvExists' = [venvExists EXCEPT ![v] = FALSE]
         /\ venvDeps' = [venvDeps EXCEPT ![v] = {}]
         /\ venvPath' = [venvPath EXCEPT ![p] = FALSE]
    ELSE UNCHANGED <<venvExists, venvDeps, venvPath>>

\* A File is unlinked only when installed_path differs from src, i.e. when
\* _installed_path is set; unlink raises when the file is gone.
UninstallFile(f) ==
    LET n == SrcName[f] IN
    /\ IF filePath[f] /\ fileDisk[n] = Absent THEN Raise ELSE Done(f)
    /\ IF filePath[f] /\ fileDisk[n] # Absent
       THEN /\ fileDisk' = [fileDisk EXCEPT ![n] = Absent]
            /\ filePath' = [filePath EXCEPT ![f] = FALSE]
       ELSE UNCHANGED <<fileDisk, filePath>>
    /\ UNCHANGED <<rootExists, repoDisk, venvExists, venvDeps, repoPath, venvPath>>

UninstallOne(i) ==
    \/ /\ i \in Pys
       /\ RemoveGitRepo(GitRepoOf[i]) /\ RemoveVenv(i) /\ Done(i)
       /\ UNCHANGED <<rootExists, fileDisk, filePath>>
    \/ /\ i \in Repos
       /\ RemoveGitRepo(i) /\ Done(i)
       /\ UNCHANGED <<rootExists, venvExists, venvDeps, fileDisk, venvPath, filePath>>
    \/ i \in Files /\ UninstallFile(i)
    \/ i \in Dockers /\ Fail /\ UNCHANGED <<diskVars, fieldVars>>

-----------------------------------------------------------------------------
(* mark_as_installed_one: sets the fields, touches nothing on disk.       *)

MarkAsInstalledOne(i) ==
    /\ i \notin Dockers
    /\ repoPath' = [r \in Repos |-> repoPath[r] \/ r \in ReposOf(i)]
    /\ venvPath' = [p \in Pys |-> venvPath[p] \/ p = i]
    /\ filePath' = [f \in Files |-> filePath[f] \/ f = i]
    /\ Done(i)
    /\ UNCHANGED diskVars

-----------------------------------------------------------------------------
(* The BaseInstaller loop.                                                 *)

\* _check_prerequisites (git, then bsub, bjobs, bhosts, lsid, lsload)
\* either passes or fails; install runs it first and aborts on failure.
Start(o, S) ==
    /\ ~running
    /\ op' = o /\ batch' = S /\ todo' = S
    /\ \/ running' = TRUE /\ result' = "none"
       \/ o = "install" /\ running' = FALSE /\ result' = "fail"
    /\ UNCHANGED <<diskVars, fieldVars>>

\* install: skip what is_installed_one finds, else install_one; stop at
\* the first failure.
InstallStep(i) ==
    /\ running /\ op = "install" /\ i \in todo
    /\ \/ Present(i) /\ LookupFields(i) /\ Done(i) /\ UNCHANGED diskVars
       \/ ~Present(i) /\ InstallOne(i)

UninstallStep(i) ==
    /\ running /\ op = "uninstall" /\ i \in todo
    /\ UninstallOne(i)

\* is_installed: fail fast on the first artifact not found.
IsInstalledStep(i) ==
    /\ running /\ op = "is_installed" /\ i \in todo
    /\ LookupFields(i)
    /\ IF Present(i) THEN Done(i) ELSE Fail
    /\ UNCHANGED diskVars

MarkStep(i) ==
    /\ running /\ op = "mark_as_installed" /\ i \in todo
    /\ \/ MarkAsInstalledOne(i)
       \/ i \in Dockers /\ Fail /\ UNCHANGED <<diskVars, fieldVars>>

ReturnOk ==
    /\ running /\ todo = {}
    /\ running' = FALSE /\ result' = "ok"
    /\ UNCHANGED <<diskVars, fieldVars, op, todo, batch>>

-----------------------------------------------------------------------------
(* The environment: the process ends (or is killed) and the in-memory      *)
(* fields are lost; a user deletes an artifact between calls.              *)

Restart ==
    /\ running' = FALSE
    /\ result' = IF running THEN "none" ELSE result
    /\ repoPath' = [r \in Repos |-> FALSE]
    /\ venvPath' = [p \in Pys |-> FALSE]
    /\ filePath' = [f \in Files |-> FALSE]
    /\ UNCHANGED <<diskVars, op, todo, batch>>

ExternalRemove ==
    /\ ~running
    /\ \/ \E d \in RepoDirs : repoDisk[d] # Absent
            /\ repoDisk' = [repoDisk EXCEPT ![d] = Absent]
            /\ UNCHANGED <<venvExists, venvDeps, fileDisk>>
       \/ \E v \in VenvDirs : venvExists[v]
            /\ venvExists' = [venvExists EXCEPT ![v] = FALSE]
            /\ venvDeps' = [venvDeps EXCEPT ![v] = {}]
            /\ UNCHANGED <<repoDisk, fileDisk>>
       \/ \E n \in FileNames : fileDisk[n] # Absent
            /\ fileDisk' = [fileDisk EXCEPT ![n] = Absent]
            /\ UNCHANGED <<repoDisk, venvExists, venvDeps>>
    /\ UNCHANGED <<rootExists, fieldVars, callVars>>

Next ==
    \/ \E o \in Ops, S \in SUBSET Items \ {{}} : Start(o, S)
    \/ \E i \in Items :
          InstallStep(i) \/ UninstallStep(i) \/ IsInstalledStep(i) \/ MarkStep(i)
    \/ ReturnOk
    \/ Restart
    \/ ExternalRemove

Spec == Init /\ [][Next]_vars

-----------------------------------------------------------------------------
(* Properties.                                                             *)

\* What command generation reads after a successful call: the location
\* fields of artifact i are set and the paths they name exist.
Usable(i) ==
    CASE i \in Dockers -> TRUE
      [] i \in Repos   -> repoPath[i] /\ RepoPresent(i)
      [] i \in Pys     -> /\ repoPath[GitRepoOf[i]] /\ RepoPresent(GitRepoOf[i])
                          /\ venvPath[i] /\ venvExists[VenvName[i]]
      [] i \in Files   -> filePath[i] /\ fileDisk[SrcName[i]] # Absent

\* When install() or is_installed() returns success, every artifact of the
\* tests has its installed_path / venv_path set and present on disk, so a
\* repeated install() skips all of them (the idempotence of section 8).
\* Breaks if a skip or a later artifact's install loses an earlier result.
ReportedInstalledIsReal ==
    [][ReturnOk /\ op \in {"install", "is_installed"} => \A i \in batch : Usable(i)']_vars

\* When uninstall() returns success, no git repository or virtual
\* environment of the tests is left on disk, even in a fresh process whose
\* artifact objects have no installed_path (uninstall falls back to the
\* computed path).
UninstallRemovesTrees ==
    [][ReturnOk /\ op = "uninstall" =>
         \A i \in batch : /\ \A r \in ReposOf(i) : ~RepoPresent(r)'
                          /\ i \in Pys => ~venvExists'[VenvName[i]]]_vars

\* Section 4.2: a GitRepo is cloned and then checked out at its pinned
\* commit; a successful install() leaves every repository of the tests at
\* the commit it pins.
PinnedCommitInstalled ==
    [][ReturnOk /\ op = "install" =>
         \A i \in batch : \A r \in ReposOf(i) : repoDisk'[RepoName[r]] = Commit[r]]_vars

\* A PythonExecutable reported installed by install() or is_installed()
\* has its dependencies installed in its virtual environment.
DepsInstalled ==
    [][ReturnOk /\ op \in {"install", "is_installed"} =>
         \A p \in batch \cap Pys : p \in venvDeps'[VenvName[p]]]_vars

\* After a successful uninstall() no File artifact of the tests is left
\* in the install root.
UninstallRemovesFiles ==
    [][ReturnOk /\ op = "uninstall" =>
         \A f \in batch \cap Files : fileDisk'[SrcName[f]] = Absent]_vars

\* Section 7: recoverable conditions are returned as failures, never
\* raised past the installer.
NoExceptionEscapes == result # "raised"

\* Sections 4.3 and 8: uninstalling (a DockerImage is a no-op on LSF, an
\* absent artifact is tolerated) does not fail.
UninstallNeverFails == ~(op = "uninstall" /\ result = "fail")

=============================================================================
