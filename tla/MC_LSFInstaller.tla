-------------------------- MODULE MC_LSFInstaller --------------------------
(* One standalone GitRepo r1 and a PythonExecutable p1 whose git_repo r2   *)
(* has the same URL (same directory) but another pinned commit, one File, *)
(* one DockerImage.                                                        *)
EXTENDS LSFInstaller, TLC

CONSTANTS r1, r2, p1, f1, k1, d1, v1, n1, c1, c2

MCRepos == {r1, r2}
MCPys == {p1}
MCFiles == {f1}
MCDockers == {k1}
MCItems == {r1, p1, f1, k1}
MCRepoName == [r \in MCRepos |-> d1]
MCCommit == (r1 :> c1) @@ (r2 :> c2)
MCGitRepoOf == p1 :> r2
MCVenvName == p1 :> v1
MCSrcName == f1 :> n1
MCHasPyproject == p1 :> TRUE
MCHasRequirements == p1 :> FALSE

=============================================================================
