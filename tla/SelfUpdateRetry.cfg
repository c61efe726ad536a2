SPECIFICATION Spec
CONSTANTS
    Admins = {a}
    Requests = {q1}
    Runners = {r1}
    Releases <- MCReleases
    First <- V10
    Modes = {"git", "aapanel"}
    RunsWithinTTL = TRUE
    MaxPresses = 2
    MaxFaults = 1
PROPERTY RollbackGoesBack
CHECK_DEADLOCK FALSE
