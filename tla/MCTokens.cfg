\* A user with at most one token to begin with, two requests of the issuer, two callers.
CONSTANTS
    MaxTokens = 3
    Versions = {1, 2, 3}
    Requests = {r1, r2}
    Callers = {s1, s2}
    NoRequest = NoRequest
SPECIFICATION Spec
SYMMETRY Symmetry
INVARIANTS TypeOK StoresAgree ReissueSettles UserKeepsAToken NoChangeIsTrue
CONSTRAINT Bounded
CHECK_DEADLOCK FALSE
