CONSTANTS
    Callers = {r1}
    Owner = Owner
    Nominee = Nominee
    Analyst = Analyst
    NoUser = NoUser
    MaxLogins = 0
    MaxLapses = 0
    MaxLeaves = 0
    MaxRuns = 2
    MaxTogether = 0
    MaxTokens = 2
    MaxConsents = 2
    StoredSteps = {0}
    StoredNominee = {"active"}
    Rows <- ScenarioRows
    PageRows = {}
SPECIFICATION Spec
INVARIANT GoesOnWithItsConsent
CHECK_DEADLOCK FALSE
