----------------------- MODULE SlurmRefinementProofs -----------------------
(***************************************************************************)
(* SlurmInstaller implements the Installer facade's contract (module      *)
(* Installer, instantiated as Facade in SlurmInstaller): every step of the *)
(* Slurm model is a step of the contract or leaves the caller's view      *)
(* unchanged.  The configuration file, the root directories, the loop's   *)
(* todo set and the phase are hidden; the mapping is the identity on the  *)
(* shared variables.  The argument rests on the invariant SInv of         *)
(* SlurmInstallerProofs: a successful return finds the promise kept       *)
(* because the loop has visited every artifact of the call.               *)
(***************************************************************************)
EXTENDS SlurmInstallerProofs

\* Deleting some artifacts of one root is a Shrink of the contract.
LEMMA ShrinkRoot ==
    ASSUME NEW R \in Roots, NEW gone \in SUBSET present[R],
           present' = [present EXCEPT ![R] = @ \ gone]
    PROVE  Facade!Shrink
BY DEF Facade!Shrink

\* A step that ends the call with the root untouched is a Return of the
\* contract, provided a success keeps the promise.
LEMMA ReturnStep ==
    ASSUME NEW res \in {"ok", "fail", "raised"},
           running, running' = FALSE, result' = res,
           UNCHANGED <<present, sys, op, batch>>,
           res = "ok" => Facade!Fulfilled'
    PROVE  Facade!Next
<1>1. Facade!Return(res)
  BY DEF Facade!Return
<1>. QED BY <1>1 DEF Facade!Next

\* A step that only moves hidden state is a stutter of the contract.
LEMMA HiddenStep ==
    ASSUME UNCHANGED <<present, sys, op, running, batch, result>>
    PROVE  UNCHANGED Facade!vars
BY DEF Facade!vars

\* The three ways a call starts: refused at once or running.
LEMMA CallBegins ==
    ASSUME NEW s \in Systems, NEW o \in Facade!Ops, NEW S \in SUBSET Arts \ {{}},
           ~running, UNCHANGED present,
           Begin(s, o, S) \/ Refuse(s, o, S)
    PROVE  Facade!Next
<1>1. Facade!Call(s, o, S)
  BY DEF Facade!Call, Begin, Refuse
<1>. QED BY <1>1 DEF Facade!Next

LEMMA StepRefines == SInv /\ [Next]_vars => [Facade!Next]_Facade!vars
<1> SUFFICES ASSUME SInv, [Next]_vars PROVE [Facade!Next]_Facade!vars
  OBVIOUS
<1>0. Root \in Roots <=> InstallPath[sys] \in Roots
  BY DEF Root
<1>1. ASSUME NEW s \in Systems, NEW S \in SUBSET Arts \ {{}}, StartInstall(s, S)
      PROVE  Facade!Next
  <2>1. "install" \in Facade!Ops
    BY DEF Facade!Ops
  <2>2. CASE InstallPath[s] = NoPath /\ Refuse(s, "install", S) /\ UNCHANGED diskVars
    <3>1. ~running /\ UNCHANGED present /\ ~Begin(s, "install", S)
      BY <1>1, <2>2 DEF StartInstall, diskVars, Begin, Refuse
    <3>. QED BY <2>1, <2>2, <3>1, CallBegins
  <2>3. CASE InstallPath[s] \in Roots
    <3>1. PICK prereqOk \in PrerequisiteOutcomes, made \in BOOLEAN, writable \in BOOLEAN :
                  \/ ~prereqOk /\ Refuse(s, "install", S) /\ UNCHANGED diskVars
                  \/ /\ prereqOk
                     /\ rootExists' = [rootExists EXCEPT ![InstallPath[s]] = @ \/ made]
                     /\ IF rootExists'[InstallPath[s]] /\ writable
                        THEN Begin(s, "install", S) ELSE Refuse(s, "install", S)
                     /\ UNCHANGED <<config, present>>
      BY <1>1, <2>3, SlurmConstantsAssumption DEF StartInstall
    <3>. QED BY <1>1, <2>1, <2>3, <3>1, CallBegins DEF StartInstall, diskVars
  <2>. QED BY <1>1, <2>2, <2>3, SlurmConstantsAssumption DEF StartInstall
<1>2. ASSUME NEW s \in Systems, NEW S \in SUBSET Arts \ {{}},
             StartIsInstalled(s, S) \/ StartUninstall(s, S)
      PROVE  Facade!Next
  <2>1. "is_installed" \in Facade!Ops /\ "uninstall" \in Facade!Ops
    BY DEF Facade!Ops
  <2>. QED BY <1>2, <2>1, CallBegins DEF StartIsInstalled, StartUninstall, diskVars
<1>3. ASSUME NEW i \in Arts, InstallStep(i) PROVE [Facade!Next]_Facade!vars
  <2>1. CASE todo' = todo \ {i} /\ present' = [present EXCEPT ![Root] = @ \cup {i}]
             /\ UNCHANGED <<running, result>>
    <3>1. i \in batch /\ Root \in Roots
      BY <1>3 DEF InstallStep, SInv, Progress
    <3>2. Facade!Add(i)
      BY <1>3, <2>1, <3>1 DEF InstallStep, Facade!Add, Facade!Root, Root
    <3>. QED BY <3>2 DEF Facade!Next
  <2>2. CASE running' = FALSE /\ result' = "fail" /\ UNCHANGED <<present, todo>>
    BY <1>3, <2>2, ReturnStep DEF InstallStep
  <2>. QED BY <1>3, <2>1, <2>2 DEF InstallStep
<1>4. ASSUME NEW i \in Arts, IsInstalledStep(i) PROVE [Facade!Next]_Facade!vars
  <2>1. /\ running /\ op = "is_installed" /\ i \in todo /\ Root \in Roots
        /\ UNCHANGED <<present, sys, op, batch>>
    BY <1>4 DEF IsInstalledStep, diskVars
  <2>2. CASE i \in present[Root] /\ todo \ {i} = {}
    <3>1. batch \subseteq present[Root]
      BY <2>1, <2>2 DEF SInv, Progress
    <3>2. Facade!Fulfilled'
      BY <2>1, <3>1 DEF Facade!Fulfilled, Facade!Root, Root
    <3>. QED BY <1>4, <2>1, <2>2, <3>2, ReturnStep DEF IsInstalledStep
  <2>3. CASE i \in present[Root] /\ todo \ {i} # {}
    BY <1>4, <2>1, <2>3, HiddenStep DEF IsInstalledStep
  <2>4. CASE i \notin present[Root]
    BY <1>4, <2>1, <2>4, ReturnStep DEF IsInstalledStep
  <2>. QED BY <2>2, <2>3, <2>4
<1>5. ASSUME NEW i \in Arts, UninstallStep(i) PROVE [Facade!Next]_Facade!vars
  <2>1. running /\ op = "uninstall" /\ Root \in Roots /\ UNCHANGED <<sys, op, batch>>
    BY <1>5 DEF UninstallStep
  <2>2. CASE todo' = todo \ {i} /\ present' = [present EXCEPT ![Root] = @ \ {i}]
             /\ UNCHANGED <<running, result>>
    <3>1. present' = [present EXCEPT ![Root] = @ \ ({i} \cap present[Root])]
      BY <2>1, <2>2 DEF SInv, TypeOK
    <3>2. Facade!Shrink
      <4>1. {i} \cap present[Root] \in SUBSET present[Root]
        OBVIOUS
      <4>. QED BY <2>1, <3>1, <4>1 DEF Facade!Shrink
    <3>3. Facade!Remove
      BY <2>1, <2>2, <3>2 DEF Facade!Remove
    <3>. QED BY <3>3 DEF Facade!Next
  <2>3. CASE running' = FALSE /\ result' = "fail" /\ UNCHANGED <<present, todo>>
    BY <2>1, <2>3, ReturnStep
  <2>. QED BY <1>5, <2>2, <2>3 DEF UninstallStep
<1>6. CASE WriteOpen
  <2>1. CASE phase' = "write" /\ UNCHANGED <<running, result>>
    BY <1>6, <2>1, HiddenStep DEF WriteOpen
  <2>2. CASE running' = FALSE /\ result' = "fail"
    BY <1>6, <2>2, ReturnStep DEF WriteOpen
  <2>. QED BY <1>6, <2>1, <2>2 DEF WriteOpen
<1>7. CASE WriteDump
  <2>1. running /\ op = "install" /\ todo = {} /\ UNCHANGED <<present, sys, op, batch>>
    BY <1>7 DEF WriteDump, SInv, Progress
  <2>2. Root \in Roots /\ batch \subseteq present[Root]
    BY <2>1 DEF SInv, Progress
  <2>3. Facade!Fulfilled'
    BY <2>1, <2>2 DEF Facade!Fulfilled, Facade!Root, Root
  <2>. QED BY <1>7, <2>1, <2>3, ReturnStep DEF WriteDump
<1>8. CASE UninstallRoot
  <2>1. /\ running /\ op = "uninstall" /\ todo = {} /\ UNCHANGED <<sys, op, batch>>
        /\ Root \in Roots => batch \cap present[Root] = {}
    BY <1>8 DEF UninstallRoot, SInv, Progress
  <2>2. CASE config = Absent /\ running' = FALSE /\ result' = "raised"
             /\ UNCHANGED <<diskVars, phase>>
    BY <2>1, <2>2, ReturnStep DEF diskVars
  <2>3. CASE config = Empty /\ config' = Absent /\ running' = FALSE /\ result' = "ok"
             /\ UNCHANGED <<rootExists, present, phase>>
    <3>1. Facade!Fulfilled'
      BY <2>1, <2>3 DEF Facade!Fulfilled, Facade!Root, Root
    <3>. QED BY <2>1, <2>3, <3>1, ReturnStep
  <2>4. CASE config \in Roots /\ running' = FALSE /\ result' = "fail"
             /\ \E gone \in SUBSET present[config] :
                   present' = [present EXCEPT ![config] = @ \ gone]
    <3>1. Facade!Shrink
      BY <2>4, ShrinkRoot
    <3>2. Facade!Return("fail")
      BY <2>1, <2>4, <3>1 DEF Facade!Return
    <3>. QED BY <3>2 DEF Facade!Next
  <2>5. CASE config \in Roots /\ rootExists[config]
             /\ present' = [present EXCEPT ![config] = {}]
             /\ UNCHANGED <<running, result>>
    <3>1. present' = [present EXCEPT ![config] = @ \ present[config]]
      BY <2>5 DEF SInv, TypeOK
    <3>2. Facade!Shrink
      BY <2>5, <3>1, ShrinkRoot
    <3>3. Facade!Remove
      BY <2>1, <2>5, <3>2 DEF Facade!Remove
    <3>. QED BY <3>3 DEF Facade!Next
  <2>. QED BY <1>8, <2>2, <2>3, <2>4, <2>5 DEF UninstallRoot
<1>9. CASE RemoveConfig
  <2>1. running /\ op = "uninstall" /\ todo = {} /\ UNCHANGED <<present, sys, op, batch>>
    BY <1>9 DEF RemoveConfig, SInv, Progress
  <2>2. Facade!Fulfilled'
    BY <2>1 DEF Facade!Fulfilled, Facade!Root, Root, SInv, Progress
  <2>. QED BY <1>9, <2>1, <2>2, ReturnStep DEF RemoveConfig
<1>10. CASE Restart
  <2>1. Facade!Crash
    BY <1>10 DEF Restart, Facade!Crash, diskVars
  <2>. QED BY <2>1 DEF Facade!Next
<1>11. CASE ExternalRemove
  <2>1. CASE \E R \in Roots : rootExists[R]
               /\ rootExists' = [rootExists EXCEPT ![R] = FALSE]
               /\ present' = [present EXCEPT ![R] = {}]
               /\ UNCHANGED config
    <3>1. PICK R \in Roots : present' = [present EXCEPT ![R] = {}]
      BY <2>1
    <3>2. present' = [present EXCEPT ![R] = @ \ present[R]]
      BY <3>1 DEF SInv, TypeOK
    <3>3. Facade!Shrink
      BY <3>2, ShrinkRoot
    <3>4. Facade!Env
      BY <1>11, <3>3 DEF ExternalRemove, Facade!Env
    <3>. QED BY <3>4 DEF Facade!Next
  <2>2. CASE config # Absent /\ config' = Absent /\ UNCHANGED <<rootExists, present>>
    BY <1>11, <2>2, HiddenStep DEF ExternalRemove
  <2>. QED BY <1>11, <2>1, <2>2 DEF ExternalRemove
<1>12. CASE UNCHANGED vars
  BY <1>12, HiddenStep DEF vars
<1>13. ASSUME NEW i \in Arts, NoPathStep(i) PROVE [Facade!Next]_Facade!vars
  <2>1. running /\ Root \notin Roots /\ UNCHANGED <<present, sys, op, batch>>
    BY <1>13 DEF NoPathStep, diskVars
  <2>2. Facade!Fulfilled'
    BY <2>1 DEF Facade!Fulfilled, Facade!Root, Root
  <2>3. CASE todo' = todo \ {i} /\ op = "is_installed" /\ todo' = {}
    BY <1>13, <2>1, <2>2, <2>3, ReturnStep DEF NoPathStep
  <2>4. CASE todo' = todo \ {i} /\ ~(op = "is_installed" /\ todo' = {})
    BY <1>13, <2>1, <2>4, HiddenStep DEF NoPathStep
  <2>5. CASE running' = FALSE /\ result' = "raised" /\ UNCHANGED todo
    BY <2>1, <2>5, ReturnStep
  <2>. QED BY <1>13, <2>3, <2>4, <2>5 DEF NoPathStep
<1>. QED BY <1>1, <1>2, <1>3, <1>4, <1>5, <1>6, <1>7, <1>8, <1>9, <1>10, <1>11, <1>12, <1>13
         DEF Next

\* The Slurm installer, seen through the Installer facade, keeps the
\* installer contract for every set of systems, roots and artifacts
\* (ImplementsInstaller, checked by run slurm_core), whatever install_path
\* each system has: install only adds its own artifacts to its own root,
\* is_installed deletes nothing, only a running uninstall or the user
\* deletes anything, and a successful call on a system with an install
\* root has its artifacts present or, for uninstall, gone from that root.
THEOREM SlurmImplementsInstaller == Spec => ImplementsInstaller
<1>1. Init => Facade!Init
  BY DEF Init, Facade!Init
<1>. QED BY <1>1, StepRefines, SInitSInv, SInvInductive, PTL
         DEF Spec, ImplementsInstaller, Facade!Spec

=============================================================================
