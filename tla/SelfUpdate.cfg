SPECIFICATION FairSpec
CONSTANTS
    Admins = {a}
    Requests = {q1, q2}
    Runners = {r1, r2}
    Releases <- MCReleases
    First <- V10
    Modes = {"git", "aapanel"}
    RunsWithinTTL = TRUE
    MaxPresses = 4
    MaxFaults = 1
INVARIANTS OneRunner 
PROPERTIES  UpdatesEnd
CHECK_DEADLOCK FALSE
