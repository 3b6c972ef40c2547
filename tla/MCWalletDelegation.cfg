\* One nominee, two scopes, four requests: grants, revocations and disablings.
CONSTANTS
    Nominees = {d1}
    Scopes = {approve, all}
    Lifetimes = {1}
    MaxDelegations = 3
    Requests = {r1, r2, r3, r4}
    MaxTime = 1
    NoNominee = NoNominee
    NoScope = NoScope
SPECIFICATION Spec
SYMMETRY Symmetry
INVARIANTS TypeOK TwoActiveOnlyIfOverlapping DisabledHoldsOnlyLaterOnes ReplacementArrives
CHECK_DEADLOCK FALSE
