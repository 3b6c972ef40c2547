CONSTANTS
    Callers = {r1, r2}
    Owner = Owner
    Nominee = Nominee
    Analyst = Analyst
    NoUser = NoUser
    MaxLogins = 1
    MaxLapses = 1
    MaxLeaves = 1
    MaxRuns = 3
    MaxTogether = 2
    MaxTokens = 2
    MaxConsents = 2
    StoredSteps = {0, 7, 9}
    StoredNominee = {"active"}
    Rows <- SomeRows
    PageRows <- SomePageRows
SYMMETRY TwoAtOnce
CONSTRAINT Bounded
SPECIFICATION Spec
INVARIANTS TypeOK NothingLeftRunning CoverageTellsTruth SessionIsLastLogin
CHECK_DEADLOCK FALSE
