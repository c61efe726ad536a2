SPECIFICATION LFairSpec
CONSTANTS
    Procs = {web, worker}
    Dedicated = {worker}
    NoSession = NoSession
    MaxConns = 2
    MaxTicks = 2
    MaxBreaks = 1
    MaxSignals = 1
    MaxKills = 1
INVARIANTS LTypeOK OneAttempt LockFollowsLeader OnePoller
PROPERTIES LeaderReturns
CHECK_DEADLOCK FALSE
