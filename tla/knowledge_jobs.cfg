SPECIFICATION Spec
CONSTANTS
    s1 = s1
    j1 = j1
    j2 = j2
    k1 = k1
    k2 = k2
    NoJob = NoJob
    NoSource = NoSource
    Source <- OneSource
    Job <- TwoJobs
    Worker <- TwoWorkers
    Requests <- RegisterThenSync
    SourceOf <- SameSource
    Deletable <- NoSources
    MaxWait = 0
    MaxCmds = 2
    MaxPolls <- NoPolls
    MaxFailures = 1
SYMMETRY WorkerSymmetry
CHECK_DEADLOCK FALSE
INVARIANTS
    LockMatchesHolder
    TypeOK
    OneCopyOfJob
    CompletedMeansReadied
    DocumentsFindRow
PROPERTIES
    Delivers
