\* Two customers, taken one at a time; one of them has a wallet and is in the demo data.
CONSTANTS
    Users = {u1, u2}
    DemoUser = u1
    Consenting = {u1}
    Interval <- MCInterval
    BatchLimit = 1
    Cycles = {cron, manual}
    Cron = cron
    Handlers = {h1, h2}
    ConsentIds = {c1}
    MaxTime = 1
    MaxWrites = 2
SPECIFICATION FairSpec
INVARIANTS TypeOK StatusTellsFlag FlagFollowsDecisions
PROPERTIES HighIsNotSynced DueIsReviewed
CHECK_DEADLOCK FALSE
