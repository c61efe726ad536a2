SPECIFICATION FairSpec
CONSTANTS
    i1 = i1
    i2 = i2
    a = a
    all = all
    here = here
    there = there
    Sections = {"projects", "databases", "sites", "cron", "ftp", "firewall"}
    Views = {"logs", "file", "task", "site", "sitelog", "metrics", "rules", "folders", "scripts", "edit"}
    Items = {i1, i2}
    Mysql = {i1}
    Terms = {a, all}
    All = all
    Matches <- MCMatches
    Limit = 1
    Refused = Refused
    Lost = Lost
    None = None
    Requests = {1, 2}
    Calls = {1, 2}
    Paths = {here, there}
    Searched = {"sites"}
    Changing = {i1}
    MaxChanges = 1
    MaxFaults = 1
INVARIANTS ListsTypeOK NothingIsMissing SwitchedAsAsked IrreversibleIsJournalled ViewIsOfThisOpening
PROPERTIES PollsSettle ViewNeverGoesBack
CHECK_DEADLOCK FALSE
