CONSTANTS
    sA = sA
    sB = sB
    sN = sN
    RA = RA
    RB = RB
    NoPath = NoPath
    Absent = Absent
    Empty = Empty
    Systems = {sA, sB, sN}
    Roots = {RA, RB}
    a1 = a1
    a2 = a2
    Arts = {a1, a2}
    InstallPath <- MCInstallPath
SPECIFICATION Spec
INVARIANT SlurmNoExceptionEscapes
