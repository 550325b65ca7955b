\* Reads of all roles on a branch that moves, and the citations they allow.
SPECIFICATION Spec
CONSTANTS
    s0 = s0
    s1 = s1
    s2 = s2
    s3 = s3
    a = a
    b = b
    f = f
    g = g
    NewLine = NewLine
    MaxReadLines = 3
    MaxReadBytes = 4
    Sha = {s0, s1, s2, s3}
    Request <- Requests
    FilesOf <- HeadFiles
    ArchiveOf <- Archives
    Symbols <- TheSymbols
    Annotations <- TheAnnotations
    PerPage = 2
    Maximum = 4
    MaxPushes = 1
    MaxTools = 2
INVARIANTS TypeOK DecisionsCoverReads WholeOrTruncated CitationsResolve ReadsSayWhenCut
\* A run's evidence is read once.
CHECK_DEADLOCK FALSE
