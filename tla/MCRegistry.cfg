\* Two tokens, two concurrent requests; a sweep takes both rows when it can.
CONSTANTS
    TokenIds = {t1, t2}
    Requests = {r1, r2}
    MaxTime = 1
    BatchLimit = 2
    NoToken = NoToken
    NoHash = NoHash
    NoRequest = NoRequest
SPECIFICATION FairSpec
INVARIANTS TypeOK AuditChainLinks AuditMatchesRecord
PROPERTIES NeverReactivated RequestsEnd ImplementsLedger
CHECK_DEADLOCK FALSE
