SPECIFICATION FairSoleSpec
CONSTANTS
    s1 = s1
    s2 = s2
    s3 = s3
    Jobs = {j1, j2}
    Servers = {s1, s2}
    NoServer = NoServer
    Threads = {t1}
    NoThread = NoThread
    InputLists <- TwoServers
    MaxServersPerJob = 2
    Concurrency = 1
    RetiredJobs = {j2}
    MaxDbErrors = 1
    MaxExits = 1
    MaxDeletions = 1
INVARIANTS ClaimOrder EndIsComplete
PROPERTIES FinishedIsFinal EveryJobEnds
CHECK_DEADLOCK FALSE
