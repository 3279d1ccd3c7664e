CONSTANTS
    r1 = r1  r2 = r2  p1 = p1  f1 = f1  k1 = k1
    d1 = d1  v1 = v1  n1 = n1  c1 = c1  c2 = c2
    CloneHead = CloneHead
    Absent = Absent
    Repos <- MCRepos
    Pys <- MCPys
    Files <- MCFiles
    Dockers <- MCDockers
    Items <- MCItems
    RepoDirs = {d1}
    VenvDirs = {v1}
    FileNames = {n1}
    Commits = {c1, c2}
    RepoName <- MCRepoName
    Commit <- MCCommit
    GitRepoOf <- MCGitRepoOf
    VenvName <- MCVenvName
    SrcName <- MCSrcName
    HasPyproject <- MCHasPyproject
    HasRequirements <- MCHasRequirements

SPECIFICATION Spec

INVARIANT UninstallNeverFails
