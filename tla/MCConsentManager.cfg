\* Approvals overlap and are retried, a delegate and the owner decide, the wallet asks for a re-consent.
CONSTANTS
    o = o
    d1 = d1
    name = name
    pan = pan
    periodic = periodic
    loan = loan
    ConsentIds = {c1, c2}
    Requests = {r1, r2, r3}
    Owner = o
    Delegates = {d1}
    Fields = {name, pan}
    Purposes = {periodic, loan}
    PeriodicUpdate = periodic
    TokenIds = {t1}
    CreateInputs <- SomeInputs
    Grants <- SomeGrants
    MaxGrants = 2
    AssertionTtl = 2
    DefaultTtl = 1
    ReconsentTtl = 2
    MaxTime = 2
    BatchLimit = 1
    NoToken = NoToken
    NoConsent = NoConsent
SPECIFICATION Spec
SYMMETRY Symmetry
CONSTRAINT Bounded
INVARIANTS TypeOK OneLiveAssertion RowShowsAnAssertion IssuedWithinMandate TrailIsComplete
PROPERTY ImplementsIssuing
CHECK_DEADLOCK FALSE
