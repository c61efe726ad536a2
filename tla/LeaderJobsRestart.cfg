SPECIFICATION CSpec
CONSTANTS
    s1 = s1
    Jobs = {j1}
    Servers = {s1}
    NoServer = NoServer
    Threads <- ProcThreads
    NoThread = NoThread
    InputLists <- OneServer
    MaxServersPerJob = 1
    Concurrency = 1
    RetiredJobs = {}
    MaxDbErrors = 1
    MaxExits = 1
    MaxDeletions = 0
    Procs = {worker}
    Dedicated = {worker}
    NoSession = NoSession
    MaxConns = 2
    MaxTicks = 1
    MaxBreaks = 1
    MaxSignals = 0
    MaxKills = 1
    MaxChains = 2
CONSTRAINT OneKindOfFault
INVARIANTS RunningMeansDraining
PROPERTIES AtMostOnceHere
CHECK_DEADLOCK FALSE
