------------------------- MODULE LSFInstallerProofs -------------------------
(***************************************************************************)
(* Proofs about the LSF installer model, for every value of the constants *)
(* that satisfies KindsAssumption and ConstantsAssumption.                 *)
(***************************************************************************)
EXTENDS LSFInstaller, TLAPS



\* The outcomes of _install_one_git_repo are well typed.
LEMMA CloneOutcomesType ==
    ASSUME TypeOK, NEW r \in Repos
    PROVE  CloneOutcomes(r) \subseteq [at : Commits \cup {CloneHead, Absent}, ok : BOOLEAN]
<1> DEFINE T == [at : Commits \cup {CloneHead, Absent}, ok : BOOLEAN]
<1>1. repoDisk[RepoName[r]] \in Commits \cup {CloneHead, Absent}
  BY ConstantsAssumption DEF TypeOK
<1>2. Commit[r] \in Commits
  BY ConstantsAssumption
<1>3. CASE RepoPresent(r)
  <2>1. [at |-> repoDisk[RepoName[r]], ok |-> TRUE] \in T
    BY <1>1
  <2>. QED BY <1>3, <2>1 DEF CloneOutcomes
<1>4. CASE ~RepoPresent(r)
  <2>1. [at |-> Absent, ok |-> FALSE] \in T /\ [at |-> CloneHead, ok |-> FALSE] \in T
        /\ [at |-> Commit[r], ok |-> TRUE] \in T
    BY <1>2
  <2>. QED BY <1>4, <2>1 DEF CloneOutcomes
<1>. QED BY <1>3, <1>4

LEMMA InitTypeOK == Init => TypeOK
<1> SUFFICES ASSUME Init PROVE TypeOK
  OBVIOUS
<1>1. repoDisk \in [RepoDirs -> Commits \cup {CloneHead, Absent}]
  BY DEF Init
<1>2. /\ venvExists \in [VenvDirs -> BOOLEAN] /\ venvDeps \in [VenvDirs -> SUBSET Pys]
      /\ fileDisk \in [FileNames -> Files \cup {Absent}]
  BY DEF Init
<1>3. repoPath \in [Repos -> BOOLEAN] /\ venvPath \in [Pys -> BOOLEAN] /\ filePath \in [Files -> BOOLEAN]
  BY DEF Init
<1>4. op \in Ops /\ result \in {"none", "ok", "fail", "raised"}
  BY DEF Init, Ops
<1>5. rootExists \in BOOLEAN /\ running \in BOOLEAN /\ todo \in SUBSET Items /\ batch \in SUBSET Items
  BY DEF Init
<1>. QED BY <1>1, <1>2, <1>3, <1>4, <1>5 DEF TypeOK

LEMMA NextTypeOK == TypeOK /\ [Next]_vars => TypeOK'
<1> SUFFICES ASSUME TypeOK, [Next]_vars PROVE TypeOK'
  OBVIOUS
<1>1. ASSUME NEW o \in Ops, NEW S \in SUBSET Items \ {{}}, Start(o, S) PROVE TypeOK'
  BY <1>1 DEF Start, TypeOK, diskVars, fieldVars, Ops
<1>2. ASSUME NEW i \in Items, InstallStep(i) PROVE TypeOK'
  <2>1. CASE Present(i) /\ LookupFields(i) /\ Done(i) /\ UNCHANGED diskVars
    BY <2>1 DEF TypeOK, LookupFields, Done, diskVars
  <2>2. CASE i \in Repos /\ InstallGitRepo(i)
    <3>1. PICK g \in CloneOutcomes(i) :
              /\ repoDisk' = [repoDisk EXCEPT ![RepoName[i]] = g.at]
              /\ rootExists' = (rootExists \/ g.at # Absent)
              /\ repoPath' = [repoPath EXCEPT ![i] = @ \/ g.ok]
              /\ IF g.ok THEN Done(i) ELSE Fail
              /\ UNCHANGED <<venvExists, venvDeps, fileDisk, venvPath, filePath>>
      BY <2>2 DEF InstallGitRepo
    <3>2. g \in [at : Commits \cup {CloneHead, Absent}, ok : BOOLEAN]
      BY <2>2, CloneOutcomesType
    <3>3. todo' \in SUBSET Items /\ batch' \in SUBSET Items /\ op' \in Ops
          /\ running' \in BOOLEAN /\ result' \in {"none", "ok", "fail", "raised"}
      BY <1>2, <3>1, <3>2 DEF Done, Fail, TypeOK, InstallStep
    <3>. QED BY <3>1, <3>2, <3>3 DEF TypeOK
  <2>3. CASE i \in Pys /\ InstallPythonExecutable(i)
    <3> DEFINE r == GitRepoOf[i]
               v == VenvName[i]
    <3>1. PICK g \in CloneOutcomes(r), venvOk \in VenvOutcomes(v), depsOk \in DepsOutcomes(i) :
              LET ok == g.ok /\ venvOk /\ depsOk IN
              /\ repoDisk' = [repoDisk EXCEPT ![RepoName[r]] = g.at]
              /\ rootExists' = (rootExists \/ g.at # Absent)
              /\ repoPath' = [repoPath EXCEPT ![r] = @ \/ g.ok]
              /\ venvExists' = IF g.ok THEN [venvExists EXCEPT ![v] = venvOk] ELSE venvExists
              /\ venvDeps' = IF ok THEN [venvDeps EXCEPT ![v] = @ \cup {i}] ELSE venvDeps
              /\ venvPath' = IF ok THEN [venvPath EXCEPT ![i] = TRUE] ELSE venvPath
              /\ IF ok THEN Done(i) ELSE Fail
              /\ UNCHANGED <<fileDisk, filePath>>
      BY <2>3 DEF InstallPythonExecutable
    <3>2. g \in [at : Commits \cup {CloneHead, Absent}, ok : BOOLEAN]
          /\ venvOk \in BOOLEAN /\ depsOk \in BOOLEAN
      BY <2>3, CloneOutcomesType, ConstantsAssumption DEF VenvOutcomes, DepsOutcomes
    <3>3. todo' \in SUBSET Items /\ batch' \in SUBSET Items /\ op' \in Ops
          /\ running' \in BOOLEAN /\ result' \in {"none", "ok", "fail", "raised"}
      BY <1>2, <3>1, <3>2 DEF Done, Fail, TypeOK, InstallStep
    <3>. QED BY <2>3, <3>1, <3>2, <3>3, ConstantsAssumption DEF TypeOK
  <2>4. CASE i \in Files /\ InstallFile(i)
    BY <1>2, <2>4 DEF InstallFile, InstallStep, Done, Raise, TypeOK
  <2>. QED BY <1>2, <2>1, <2>2, <2>3, <2>4 DEF InstallStep, InstallOne
<1>3. ASSUME NEW i \in Items, UninstallStep(i) PROVE TypeOK'
  <2>1. CASE i \in Pys /\ RemoveGitRepo(GitRepoOf[i]) /\ RemoveVenv(i) /\ Done(i)
                /\ UNCHANGED <<rootExists, fileDisk, filePath>>
    BY <1>3, <2>1 DEF UninstallStep, RemoveGitRepo, RemoveVenv, Done, TypeOK, RepoPresent
  <2>2. CASE i \in Repos /\ RemoveGitRepo(i) /\ Done(i)
                /\ UNCHANGED <<rootExists, venvExists, venvDeps, fileDisk, venvPath, filePath>>
    BY <1>3, <2>2 DEF UninstallStep, RemoveGitRepo, Done, TypeOK, RepoPresent
  <2>3. CASE i \in Files /\ UninstallFile(i)
    BY <1>3, <2>3 DEF UninstallStep, UninstallFile, Done, Raise, TypeOK
  <2>4. CASE i \in Dockers /\ Fail /\ UNCHANGED <<diskVars, fieldVars>>
    BY <1>3, <2>4 DEF UninstallStep, Fail, TypeOK, diskVars, fieldVars
  <2>. QED BY <1>3, <2>1, <2>2, <2>3, <2>4 DEF UninstallStep, UninstallOne
<1>4. ASSUME NEW i \in Items, IsInstalledStep(i) PROVE TypeOK'
  BY <1>4 DEF IsInstalledStep, LookupFields, Done, Fail, TypeOK, diskVars
<1>5. ASSUME NEW i \in Items, MarkStep(i) PROVE TypeOK'
  BY <1>5 DEF MarkStep, MarkAsInstalledOne, Done, Fail, TypeOK, diskVars, fieldVars
<1>6. CASE ReturnOk
  BY <1>6 DEF ReturnOk, TypeOK, diskVars, fieldVars
<1>7. CASE Restart
  BY <1>7 DEF Restart, TypeOK, diskVars
<1>8. CASE ExternalRemove
  BY <1>8 DEF ExternalRemove, TypeOK, fieldVars, callVars
<1>9. CASE UNCHANGED vars
  BY <1>9 DEF vars, diskVars, fieldVars, callVars, TypeOK
<1>. QED BY <1>1, <1>2, <1>3, <1>4, <1>5, <1>6, <1>7, <1>8, <1>9 DEF Next

\* Every reachable state is well typed.
THEOREM TypeCorrect == Spec => []TypeOK
BY InitTypeOK, NextTypeOK, PTL DEF Spec

-----------------------------------------------------------------------------
(* ReportedInstalledIsReal.  The action property is not implied by the    *)
(* state alone: it needs that, while install() or is_installed() runs,    *)
(* every artifact already visited is usable.  That holds because no step  *)
(* of those calls removes anything from disk or clears a field (Grows),   *)
(* and each step that visits an artifact and continues leaves it usable.  *)

InstallProgress ==
    running /\ op \in {"install", "is_installed"} => \A i \in batch \ todo : Usable(i)

IInv == TypeOK /\ InstallProgress

\* Nothing on disk disappears and no location field is cleared.
Grows ==
    /\ \A d \in RepoDirs : repoDisk[d] # Absent => repoDisk'[d] # Absent
    /\ \A v \in VenvDirs : venvExists[v] => venvExists'[v]
    /\ \A n \in FileNames : fileDisk[n] # Absent => fileDisk'[n] # Absent
    /\ \A r \in Repos : repoPath[r] => repoPath'[r]
    /\ \A p \in Pys : venvPath[p] => venvPath'[p]
    /\ \A f \in Files : filePath[f] => filePath'[f]

LEMMA UsableMonotone ==
    ASSUME TypeOK, NEW j \in Items, Usable(j), Grows
    PROVE  Usable(j)'
<1>1. CASE j \in Dockers
  BY <1>1, KindsAssumption DEF Usable
<1>2. CASE j \in Repos
  <2>1. repoPath[j] /\ repoDisk[RepoName[j]] # Absent
    BY <1>2, KindsAssumption DEF Usable, RepoPresent
  <2>2. repoPath'[j] /\ repoDisk'[RepoName[j]] # Absent
    BY <1>2, <2>1, ConstantsAssumption DEF Grows
  <2>. QED BY <1>2, <2>2, KindsAssumption DEF Usable, RepoPresent
<1>3. CASE j \in Pys
  <2> DEFINE r == GitRepoOf[j]
  <2>1. repoPath[r] /\ repoDisk[RepoName[r]] # Absent /\ venvPath[j] /\ venvExists[VenvName[j]]
    BY <1>3, KindsAssumption DEF Usable, RepoPresent
  <2>2. repoPath'[r] /\ repoDisk'[RepoName[r]] # Absent /\ venvPath'[j] /\ venvExists'[VenvName[j]]
    BY <1>3, <2>1, ConstantsAssumption DEF Grows
  <2>. QED BY <1>3, <2>2, KindsAssumption DEF Usable, RepoPresent
<1>4. CASE j \in Files
  <2>1. filePath[j] /\ fileDisk[SrcName[j]] # Absent
    BY <1>4, KindsAssumption DEF Usable
  <2>2. filePath'[j] /\ fileDisk'[SrcName[j]] # Absent
    BY <1>4, <2>1, ConstantsAssumption DEF Grows
  <2>. QED BY <1>4, <2>2, KindsAssumption DEF Usable
<1>. QED BY <1>1, <1>2, <1>3, <1>4, KindsAssumption

\* What a visit that continues the loop leaves behind.
Visited(i) ==
    Grows /\ Usable(i)' /\ todo' = todo \ {i} /\ UNCHANGED <<op, batch>>

\* A successful _install_one_git_repo leaves something in the directory.
LEMMA CloneOkPresent ==
    ASSUME TypeOK, NEW r \in Repos, NEW g \in CloneOutcomes(r), g.ok
    PROVE  g.at # Absent
<1>1. CASE RepoPresent(r)
  BY <1>1 DEF CloneOutcomes, RepoPresent
<1>2. CASE ~RepoPresent(r)
  <2>1. g = [at |-> Commit[r], ok |-> TRUE]
    BY <1>2 DEF CloneOutcomes
  <2>. QED BY <2>1, ConstantsAssumption
<1>. QED BY <1>1, <1>2

\* A present repository is left as it is by _install_one_git_repo.
LEMMA ClonePresentKept ==
    ASSUME TypeOK, NEW r \in Repos, NEW g \in CloneOutcomes(r), RepoPresent(r)
    PROVE  g.at = repoDisk[RepoName[r]] /\ g.ok
BY DEF CloneOutcomes

LEMMA SkipVisit ==
    ASSUME TypeOK, NEW i \in Items, Present(i), LookupFields(i), UNCHANGED diskVars
    PROVE  Grows /\ Usable(i)'
<1>1. Grows
  BY DEF Grows, LookupFields, diskVars
<1>2. Usable(i)'
  <2>1. CASE i \in Dockers
    BY <2>1, KindsAssumption DEF Usable
  <2>2. CASE i \in Repos
    <3>1. RepoPresent(i)
      BY <2>2, KindsAssumption DEF Present
    <3>2. repoPath'[i] /\ repoDisk'[RepoName[i]] # Absent
      BY <2>2, <3>1 DEF LookupFields, ReposOf, RepoPresent, diskVars
    <3>. QED BY <2>2, <3>2, KindsAssumption DEF Usable, RepoPresent
  <2>3. CASE i \in Pys
    <3>1. RepoPresent(GitRepoOf[i]) /\ venvExists[VenvName[i]]
      BY <2>3, KindsAssumption DEF Present
    <3>2. repoPath'[GitRepoOf[i]] /\ venvPath'[i]
      BY <2>3, <3>1, KindsAssumption, ConstantsAssumption DEF LookupFields, ReposOf
    <3>3. repoDisk'[RepoName[GitRepoOf[i]]] # Absent /\ venvExists'[VenvName[i]]
      BY <3>1 DEF RepoPresent, diskVars
    <3>. QED BY <2>3, <3>2, <3>3, KindsAssumption DEF Usable, RepoPresent
  <2>4. CASE i \in Files
    <3>1. fileDisk[SrcName[i]] # Absent
      BY <2>4, KindsAssumption DEF Present
    <3>2. filePath'[i] /\ fileDisk'[SrcName[i]] # Absent
      BY <2>4, <3>1 DEF LookupFields, diskVars
    <3>. QED BY <2>4, <3>2, KindsAssumption DEF Usable
  <2>. QED BY <2>1, <2>2, <2>3, <2>4, KindsAssumption
<1>. QED BY <1>1, <1>2

LEMMA InstallGitVisit ==
    ASSUME TypeOK, NEW i \in Repos, InstallGitRepo(i)
    PROVE  running' = FALSE \/ Visited(i)
<1>1. PICK g \in CloneOutcomes(i) :
          /\ repoDisk' = [repoDisk EXCEPT ![RepoName[i]] = g.at]
          /\ rootExists' = (rootExists \/ g.at # Absent)
          /\ repoPath' = [repoPath EXCEPT ![i] = @ \/ g.ok]
          /\ IF g.ok THEN Done(i) ELSE Fail
          /\ UNCHANGED <<venvExists, venvDeps, fileDisk, venvPath, filePath>>
  BY DEF InstallGitRepo
<1>2. CASE ~g.ok
  BY <1>1, <1>2 DEF Fail
<1>3. CASE g.ok
  <2>1. g.at # Absent
    BY <1>3, CloneOkPresent
  <2>2. RepoName[i] \in RepoDirs
    BY ConstantsAssumption
  <2>3. Grows
    BY <1>1, <2>1, <2>2 DEF Grows, TypeOK
  <2>4. Usable(i)'
    BY <1>1, <1>3, <2>1, <2>2, KindsAssumption DEF Usable, RepoPresent, TypeOK
  <2>. QED BY <1>1, <1>3, <2>3, <2>4 DEF Visited, Done
<1>. QED BY <1>2, <1>3

LEMMA InstallPyVisit ==
    ASSUME TypeOK, NEW i \in Pys, InstallPythonExecutable(i)
    PROVE  running' = FALSE \/ Visited(i)
<1> DEFINE r == GitRepoOf[i]
           v == VenvName[i]
<1>0. r \in Repos /\ v \in VenvDirs /\ RepoName[r] \in RepoDirs
  BY ConstantsAssumption
<1>1. PICK g \in CloneOutcomes(r), venvOk \in VenvOutcomes(v), depsOk \in DepsOutcomes(i) :
          LET ok == g.ok /\ venvOk /\ depsOk IN
          /\ repoDisk' = [repoDisk EXCEPT ![RepoName[r]] = g.at]
          /\ rootExists' = (rootExists \/ g.at # Absent)
          /\ repoPath' = [repoPath EXCEPT ![r] = @ \/ g.ok]
          /\ venvExists' = IF g.ok THEN [venvExists EXCEPT ![v] = venvOk] ELSE venvExists
          /\ venvDeps' = IF ok THEN [venvDeps EXCEPT ![v] = @ \cup {i}] ELSE venvDeps
          /\ venvPath' = IF ok THEN [venvPath EXCEPT ![i] = TRUE] ELSE venvPath
          /\ IF ok THEN Done(i) ELSE Fail
          /\ UNCHANGED <<fileDisk, filePath>>
  BY DEF InstallPythonExecutable
<1>2. CASE ~(g.ok /\ venvOk /\ depsOk)
  BY <1>1, <1>2 DEF Fail
<1>3. CASE g.ok /\ venvOk /\ depsOk
  <2>1. g.at # Absent
    BY <1>0, <1>3, CloneOkPresent
  <2>2. venvExists' = [venvExists EXCEPT ![v] = TRUE]
        /\ venvPath' = [venvPath EXCEPT ![i] = TRUE]
        /\ repoPath' = [repoPath EXCEPT ![r] = TRUE]
    BY <1>1, <1>3
  <2>3. Grows
    BY <1>0, <1>1, <2>1, <2>2 DEF Grows, TypeOK
  <2>4. Usable(i)'
    BY <1>0, <1>1, <2>1, <2>2, KindsAssumption DEF Usable, RepoPresent, TypeOK
  <2>. QED BY <1>1, <1>3, <2>3, <2>4 DEF Visited, Done
<1>. QED BY <1>2, <1>3

LEMMA InstallFileVisit ==
    ASSUME TypeOK, NEW i \in Files, InstallFile(i)
    PROVE  running' = FALSE \/ Visited(i)
<1>1. CASE ~rootExists
  BY <1>1 DEF InstallFile, Raise
<1>2. CASE rootExists
  <2>1. fileDisk' = [fileDisk EXCEPT ![SrcName[i]] = i] /\ Done(i)
        /\ filePath' = [filePath EXCEPT ![i] = TRUE]
        /\ UNCHANGED <<rootExists, repoDisk, venvExists, venvDeps, repoPath, venvPath>>
    BY <1>2 DEF InstallFile
  <2>2. SrcName[i] \in FileNames /\ i # Absent
    BY ConstantsAssumption
  <2>3. Grows
    BY <2>1, <2>2 DEF Grows, TypeOK
  <2>4. Usable(i)'
    BY <2>1, <2>2, KindsAssumption DEF Usable, TypeOK
  <2>. QED BY <2>1, <2>3, <2>4 DEF Visited, Done
<1>. QED BY <1>1, <1>2

\* A visit that continues keeps every visited artifact usable.
LEMMA VisitedKeepsProgress ==
    ASSUME TypeOK, InstallProgress, running, op \in {"install", "is_installed"},
           NEW i, Visited(i), NEW j \in batch' \ todo'
    PROVE  Usable(j)'
<1>1. CASE j = i
  BY <1>1 DEF Visited
<1>2. CASE j # i
  <2>1. j \in batch \ todo /\ j \in Items
    BY <1>2 DEF Visited, TypeOK
  <2>2. Usable(j)
    BY <2>1 DEF InstallProgress
  <2>. QED BY <2>1, <2>2, UsableMonotone DEF Visited
<1>. QED BY <1>1, <1>2

LEMMA InstallStepVisit ==
    ASSUME TypeOK, NEW i \in Items, InstallStep(i)
    PROVE  running' = FALSE \/ Visited(i)
<1>1. CASE Present(i) /\ LookupFields(i) /\ Done(i) /\ UNCHANGED diskVars
  BY <1>1, SkipVisit DEF Visited, Done
<1>2. CASE i \in Repos /\ InstallGitRepo(i)
  BY <1>2, InstallGitVisit
<1>3. CASE i \in Pys /\ InstallPythonExecutable(i)
  BY <1>3, InstallPyVisit
<1>4. CASE i \in Files /\ InstallFile(i)
  BY <1>4, InstallFileVisit
<1>. QED BY <1>1, <1>2, <1>3, <1>4 DEF InstallStep, InstallOne

LEMMA IsInstalledStepVisit ==
    ASSUME TypeOK, NEW i \in Items, IsInstalledStep(i)
    PROVE  running' = FALSE \/ Visited(i)
<1>1. CASE Present(i)
  BY <1>1, SkipVisit DEF IsInstalledStep, Visited, Done
<1>2. CASE ~Present(i)
  BY <1>2 DEF IsInstalledStep, Fail
<1>. QED BY <1>1, <1>2

\* uninstall and mark_as_installed never turn into install or is_installed.
LEMMA OtherStepsKeepOp ==
    ASSUME NEW i \in Items, UninstallStep(i) \/ MarkStep(i)
    PROVE  op' = op /\ op \in {"uninstall", "mark_as_installed"}
BY DEF UninstallStep, UninstallOne, UninstallFile, MarkStep, MarkAsInstalledOne, Done, Fail, Raise

LEMMA IInvInductive == IInv /\ [Next]_vars => IInv'
<1> SUFFICES ASSUME IInv, [Next]_vars PROVE IInv'
  OBVIOUS
<1>1. TypeOK'
  BY NextTypeOK DEF IInv
<1>2. InstallProgress'
  <2> SUFFICES ASSUME running', op' \in {"install", "is_installed"}, NEW j \in batch' \ todo'
               PROVE  Usable(j)'
    BY DEF InstallProgress
  <2> USE DEF IInv
  <2>1. ASSUME NEW o \in Ops, NEW S \in SUBSET Items \ {{}}, Start(o, S) PROVE FALSE
    BY <2>1 DEF Start
  <2>2. ASSUME NEW i \in Items, InstallStep(i) PROVE Usable(j)'
    <3>1. Visited(i)
      BY <2>2, InstallStepVisit
    <3>. QED BY <2>2, <3>1, VisitedKeepsProgress DEF InstallStep
  <2>3. ASSUME NEW i \in Items, IsInstalledStep(i) PROVE Usable(j)'
    <3>1. Visited(i)
      BY <2>3, IsInstalledStepVisit
    <3>. QED BY <2>3, <3>1, VisitedKeepsProgress DEF IsInstalledStep
  <2>4. ASSUME NEW i \in Items, UninstallStep(i) \/ MarkStep(i) PROVE FALSE
    BY <2>4, OtherStepsKeepOp
  <2>5. CASE ReturnOk \/ Restart \/ ExternalRemove
    BY <2>5 DEF ReturnOk, Restart, ExternalRemove, callVars
  <2>6. CASE UNCHANGED vars
    <3>1. running /\ op \in {"install", "is_installed"} /\ j \in batch \ todo
      BY <2>6 DEF vars, callVars
    <3>2. Usable(j) /\ j \in Items
      BY <3>1 DEF InstallProgress, TypeOK
    <3>3. Grows
      BY <2>6 DEF Grows, vars, diskVars, fieldVars
    <3>. QED BY <3>2, <3>3, UsableMonotone
  <2>. QED BY <2>1, <2>2, <2>3, <2>4, <2>5, <2>6 DEF Next
<1>. QED BY <1>1, <1>2 DEF IInv

LEMMA InitIInv == Init => IInv
BY InitTypeOK DEF Init, IInv, InstallProgress

\* The step that returns success from install() or is_installed() finds
\* every artifact usable.
LEMMA ReturnOkUsable ==
    IInv /\ [Next]_vars =>
        (ReturnOk /\ op \in {"install", "is_installed"} => \A i \in batch : Usable(i)')
<1> SUFFICES ASSUME IInv, ReturnOk, op \in {"install", "is_installed"}, NEW i \in batch
             PROVE  Usable(i)'
  OBVIOUS
<1>1. Usable(i) /\ i \in Items
  BY DEF ReturnOk, IInv, InstallProgress, TypeOK
<1>2. Grows
  BY DEF ReturnOk, Grows, diskVars, fieldVars
<1>. QED BY <1>1, <1>2, UsableMonotone DEF IInv

\* A successful install() or is_installed() leaves every artifact of the
\* tests with its location fields set and present on disk (the property
\* ReportedInstalledIsReal that run lsf_core checks), for all constants.
THEOREM ReportedInstalled == Spec => ReportedInstalledIsReal
<1>1. Init => IInv
  BY InitIInv
<1>2. IInv /\ [Next]_vars => IInv'
  BY IInvInductive
<1>3. IInv /\ [Next]_vars =>
        [ReturnOk /\ op \in {"install", "is_installed"} => \A i \in batch : Usable(i)']_vars
  BY ReturnOkUsable
<1>. QED BY <1>1, <1>2, <1>3, PTL DEF Spec, ReportedInstalledIsReal

-----------------------------------------------------------------------------
(* UninstallRemovesTrees.  While uninstall() runs, no artifact it has      *)
(* visited has its repository or virtual environment on disk: nothing in  *)
(* an uninstall call creates a directory (Shrinks), each visit that       *)
(* continues has removed its own, and users only delete between calls.    *)

\* The trees of artifact i are gone from the install root.
Gone(i) ==
    /\ \A r \in ReposOf(i) : ~RepoPresent(r)
    /\ i \in Pys => ~venvExists[VenvName[i]]

UninstallProgress ==
    running /\ op = "uninstall" => \A i \in batch \ todo : Gone(i)

UInv == TypeOK /\ UninstallProgress

\* No repository directory or virtual environment appears.
Shrinks ==
    /\ \A d \in RepoDirs : repoDisk[d] = Absent => repoDisk'[d] = Absent
    /\ \A v \in VenvDirs : ~venvExists[v] => ~venvExists'[v]

LEMMA GoneMonotone ==
    ASSUME TypeOK, NEW j \in Items, Gone(j), Shrinks
    PROVE  Gone(j)'
<1>1. \A r \in ReposOf(j) : RepoName[r] \in RepoDirs
  BY ConstantsAssumption DEF ReposOf
<1>2. \A r \in ReposOf(j) : ~RepoPresent(r)'
  BY <1>1 DEF Gone, Shrinks, RepoPresent
<1>3. j \in Pys => ~venvExists'[VenvName[j]]
  BY ConstantsAssumption DEF Gone, Shrinks
<1>. QED BY <1>2, <1>3 DEF Gone, ReposOf

\* _uninstall_git_repo leaves the directory of r absent and creates nothing.
LEMMA RemoveGitRepoGone ==
    ASSUME TypeOK, NEW r \in Repos, RemoveGitRepo(r)
    PROVE  /\ ~RepoPresent(r)'
           /\ \A d \in RepoDirs : repoDisk[d] = Absent => repoDisk'[d] = Absent
<1>1. RepoName[r] \in RepoDirs
  BY ConstantsAssumption
<1>. QED BY <1>1 DEF RemoveGitRepo, RepoPresent, TypeOK

\* A visit of uninstall() that continues has removed the artifact's trees
\* and created none.
LEMMA UninstallVisit ==
    ASSUME TypeOK, NEW i \in Items, UninstallStep(i)
    PROVE  running' = FALSE \/ (Shrinks /\ Gone(i)' /\ todo' = todo \ {i} /\ UNCHANGED <<op, batch>>)
<1>1. CASE i \in Pys /\ RemoveGitRepo(GitRepoOf[i]) /\ RemoveVenv(i) /\ Done(i)
              /\ UNCHANGED <<rootExists, fileDisk, filePath>>
  <2>1. GitRepoOf[i] \in Repos /\ VenvName[i] \in VenvDirs
    BY <1>1, ConstantsAssumption
  <2>2. ~RepoPresent(GitRepoOf[i])'
        /\ \A d \in RepoDirs : repoDisk[d] = Absent => repoDisk'[d] = Absent
    BY <1>1, <2>1, RemoveGitRepoGone
  <2>3. ~venvExists'[VenvName[i]] /\ \A v \in VenvDirs : ~venvExists[v] => ~venvExists'[v]
    BY <1>1, <2>1 DEF RemoveVenv, TypeOK
  <2>4. ReposOf(i) = {GitRepoOf[i]}
    BY <1>1, KindsAssumption DEF ReposOf
  <2>. QED BY <1>1, <2>2, <2>3, <2>4 DEF Shrinks, Gone, Done
<1>2. CASE i \in Repos /\ RemoveGitRepo(i) /\ Done(i)
              /\ UNCHANGED <<rootExists, venvExists, venvDeps, fileDisk, venvPath, filePath>>
  <2>1. ~RepoPresent(i)' /\ \A d \in RepoDirs : repoDisk[d] = Absent => repoDisk'[d] = Absent
    BY <1>2, RemoveGitRepoGone
  <2>2. ReposOf(i) = {i} /\ i \notin Pys
    BY <1>2, KindsAssumption DEF ReposOf
  <2>. QED BY <1>2, <2>1, <2>2 DEF Shrinks, Gone, Done
<1>3. CASE i \in Files /\ UninstallFile(i)
  <2>1. CASE filePath[i] /\ fileDisk[SrcName[i]] = Absent
    BY <1>3, <2>1 DEF UninstallFile, Raise
  <2>2. CASE ~(filePath[i] /\ fileDisk[SrcName[i]] = Absent)
    <3>1. ReposOf(i) = {} /\ i \notin Pys
      BY <1>3, KindsAssumption DEF ReposOf
    <3>2. Done(i) /\ UNCHANGED <<repoDisk, venvExists>>
      BY <1>3, <2>2 DEF UninstallFile
    <3>. QED BY <3>1, <3>2 DEF Shrinks, Gone, Done
  <2>. QED BY <2>1, <2>2
<1>4. CASE i \in Dockers /\ Fail /\ UNCHANGED <<diskVars, fieldVars>>
  BY <1>4 DEF Fail
<1>. QED BY <1>1, <1>2, <1>3, <1>4 DEF UninstallStep, UninstallOne

\* install, is_installed and mark_as_installed never turn into uninstall.
LEMMA NonUninstallKeepsOp ==
    ASSUME NEW i \in Items, InstallStep(i) \/ IsInstalledStep(i) \/ MarkStep(i)
    PROVE  op' = op /\ op # "uninstall"
BY DEF InstallStep, InstallOne, InstallGitRepo, InstallPythonExecutable, InstallFile,
       IsInstalledStep, MarkStep, MarkAsInstalledOne, Done, Fail, Raise

LEMMA UInvInductive == UInv /\ [Next]_vars => UInv'
<1> SUFFICES ASSUME UInv, [Next]_vars PROVE UInv'
  OBVIOUS
<1>1. TypeOK'
  BY NextTypeOK DEF UInv
<1>2. UninstallProgress'
  <2> SUFFICES ASSUME running', op' = "uninstall", NEW j \in batch' \ todo'
               PROVE  Gone(j)'
    BY DEF UninstallProgress
  <2>1. ASSUME NEW o \in Ops, NEW S \in SUBSET Items \ {{}}, Start(o, S) PROVE FALSE
    BY <2>1 DEF Start
  <2>2. ASSUME NEW i \in Items, UninstallStep(i) PROVE Gone(j)'
    <3>1. Shrinks /\ Gone(i)' /\ todo' = todo \ {i} /\ UNCHANGED <<op, batch>>
      BY <2>2, UninstallVisit DEF UInv
    <3>2. CASE j = i
      BY <3>1, <3>2
    <3>3. CASE j # i
      <4>1. j \in batch \ todo /\ j \in Items /\ running /\ op = "uninstall"
        BY <2>2, <3>1, <3>3 DEF UninstallStep, UInv, TypeOK
      <4>2. Gone(j)
        BY <4>1 DEF UInv, UninstallProgress
      <4>. QED BY <3>1, <4>1, <4>2, GoneMonotone DEF UInv
    <3>. QED BY <3>2, <3>3
  <2>3. ASSUME NEW i \in Items, InstallStep(i) \/ IsInstalledStep(i) \/ MarkStep(i)
        PROVE  FALSE
    BY <2>3, NonUninstallKeepsOp
  <2>4. CASE ReturnOk \/ Restart \/ ExternalRemove
    BY <2>4 DEF ReturnOk, Restart, ExternalRemove, callVars
  <2>5. CASE UNCHANGED vars
    <3>1. running /\ op = "uninstall" /\ j \in batch \ todo /\ j \in Items
      BY <2>5 DEF vars, callVars, UInv, TypeOK
    <3>2. Gone(j)
      BY <3>1 DEF UInv, UninstallProgress
    <3>3. Shrinks
      BY <2>5 DEF Shrinks, vars, diskVars
    <3>. QED BY <3>1, <3>2, <3>3, GoneMonotone DEF UInv
  <2>. QED BY <2>1, <2>2, <2>3, <2>4, <2>5 DEF Next
<1>. QED BY <1>1, <1>2 DEF UInv

LEMMA InitUInv == Init => UInv
BY InitTypeOK DEF Init, UInv, UninstallProgress

\* uninstall() returns success only after visiting every artifact, and the
\* return itself touches nothing on disk.
LEMMA ReturnOkGone ==
    ASSUME UInv, ReturnOk, op = "uninstall", NEW i \in batch
    PROVE  Gone(i)'
<1>1. Gone(i) /\ i \in Items
  BY DEF ReturnOk, UInv, UninstallProgress, TypeOK
<1>2. Shrinks
  BY DEF ReturnOk, Shrinks, diskVars
<1>. QED BY <1>1, <1>2, GoneMonotone DEF UInv

\* A successful uninstall() leaves no git repository and no virtual
\* environment of its artifacts on disk, also in a fresh process whose
\* installed_path fields are None (UninstallRemovesTrees, checked by run
\* lsf_core), for all constants.
THEOREM UninstallRemovesAllTrees == Spec => UninstallRemovesTrees
<1>1. UInv /\ [Next]_vars =>
        [ReturnOk /\ op = "uninstall" =>
            \A i \in batch : /\ \A r \in ReposOf(i) : ~RepoPresent(r)'
                             /\ i \in Pys => ~venvExists'[VenvName[i]]]_vars
  <2> SUFFICES ASSUME UInv, ReturnOk, op = "uninstall", NEW i \in batch
               PROVE  /\ \A r \in ReposOf(i) : ~RepoPresent(r)'
                      /\ i \in Pys => ~venvExists'[VenvName[i]]
    OBVIOUS
  <2>1. Gone(i)'
    BY ReturnOkGone
  <2>. QED BY <2>1 DEF Gone, ReposOf
<1>. QED BY <1>1, InitUInv, UInvInductive, PTL DEF Spec, UninstallRemovesTrees

=============================================================================
