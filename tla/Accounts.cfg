SPECIFICATION Spec
CONSTANTS
    Users = {a, b, c}
    InitialAdmins = {a, b}
    Requests = {q1, q2}
    MaxDbErrors = 1
    MaxDeaths = 1
INVARIANTS GhostsDoNothingIrreversible NoMutualDeletion JournalIsTrue
PROPERTIES LastAdminGoesOnlyCrossed
SYMMETRY RequestSymmetry
CHECK_DEADLOCK FALSE
