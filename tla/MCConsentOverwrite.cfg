\* One consent, its owner, three requests: a decision is written over another.
CONSTANTS
    o = o
    d1 = d1
    name = name
    pan = pan
    periodic = periodic
    loan = loan
    ConsentIds = {c1}
    Requests = {r1, r2, r3}
    Owner = o
    Delegates = {}
    Fields = {name, pan}
    Purposes = {periodic, loan}
    PeriodicUpdate = periodic
    TokenIds = {t1}
    CreateInputs <- SomeInputs
    Grants <- NoGrants
    MaxGrants = 0
    AssertionTtl = 2
    DefaultTtl = 1
    ReconsentTtl = 2
    MaxTime = 1
    BatchLimit = 1
    NoToken = NoToken
    NoConsent = NoConsent
SPECIFICATION Spec
PROPERTY ApprovesOnlyPending
CHECK_DEADLOCK FALSE
