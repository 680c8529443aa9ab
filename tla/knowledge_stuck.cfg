SPECIFICATION FairSpec
CONSTANTS
    s1 = s1
    j1 = j1
    j2 = j2
    k1 = k1
    k2 = k2
    NoJob = NoJob
    NoSource = NoSource
    Source <- OneSource
    Job <- OneJob
    Worker <- OneWorker
    Requests <- CreateAlone
    SourceOf <- OneJobSource
    Deletable <- NoSources
    MaxWait = 1
    MaxCmds = 2
    MaxPolls <- NoPolls
    MaxFailures = 0
CHECK_DEADLOCK FALSE
PROPERTY NotStuckIndexing
