\* Looks for two requests that both judged the row while it was ACTIVE.
CONSTANTS
    TokenIds = {t1, t2}
    Requests = {r1, r2}
    MaxTime = 1
    BatchLimit = 2
    NoToken = NoToken
    NoHash = NoHash
    NoRequest = NoRequest
SPECIFICATION Spec
CHECK_DEADLOCK FALSE
PROPERTY TerminalStatusIsFinal
