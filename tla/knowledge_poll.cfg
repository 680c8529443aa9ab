SPECIFICATION FairSpec
CONSTANTS
    s1 = s1
    j1 = j1
    j2 = j2
    k1 = k1
    k2 = k2
    NoJob = NoJob
    NoSource = NoSource
    Source <- OneSource
    Job <- TwoJobs
    Worker <- OneWorker
    Requests <- TogetherOrAlone
    SourceOf <- SameSource
    Deletable <- SourceWhenAlone
    MaxWait = 1
    MaxCmds = 2
    MaxPolls <- PollWhenAlone
    MaxFailures = 1
CHECK_DEADLOCK FALSE
INVARIANT LockMatchesHolder
PROPERTY EventuallyEnded
