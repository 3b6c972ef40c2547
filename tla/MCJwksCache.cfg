\* Three verifications at once, one rotation, keys that are used for one tick.
CONSTANTS
    Verifiers = {v1, v2, v3}
    Ttl = 1
    MaxKey = 2
    MaxTime = 2
    NoVerifier = NoVerifier
SPECIFICATION FairSpec
INVARIANTS TypeOK OneFetch NewKeyIsFound
PROPERTIES KeysNeverGetOlder VerificationEnds
CHECK_DEADLOCK FALSE
