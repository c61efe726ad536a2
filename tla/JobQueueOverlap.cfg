SPECIFICATION Spec
CONSTANTS
    s1 = s1
    s2 = s2
    s3 = s3
    Jobs = {j1}
    Servers = {s1, s2, s3}
    NoServer = NoServer
    Threads = {t1, t2}
    NoThread = NoThread
    InputLists <- ThreeServers
    MaxServersPerJob = 3
    Concurrency = 2
    RetiredJobs = {}
    MaxDbErrors = 1
    MaxExits = 1
    MaxDeletions = 0

INVARIANTS CanaryFirst StopRadius ReportMatchesPanel
PROPERTIES AtMostOnce
SYMMETRY ThreadSymmetry
CHECK_DEADLOCK FALSE
