\* A consent is revoked while one of its assertions is being verified.
CONSTANTS
    c1 = c1
    c2 = c2
    t1 = t1
    kyc = kyc
    f1 = f1
    f2 = f2
    ConsentIds = {c1, c2}
    Terms <- MCTerms
    Lifetimes <- MCLifetimes
    AssertionTtl = 1
    NoTerms = NoTerms
    Decisions <- MCDecisions
    MaxAssertions = 2
    TokenIds = {t1}
    Requests = {r1, r2}
    MaxTime = 1
    NoAssertion = NoAssertion
    NoConsent = NoConsent
SPECIFICATION Spec
PROPERTY VerifiesOnlyApproved
CHECK_DEADLOCK FALSE
