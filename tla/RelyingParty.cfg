\* Tickets that outlive every assertion, as by default; two threads verify with one
\* cache while the key of a host changes.
CONSTANTS
    absent = absent
    Threads = {v1, v2}
    Providers = {host}
    HostKeys = {k1, k2}
    FirstKey = k1
    SecondaryAuthorities = {}
    MaxDelegations = 1
    DocumentLife = 1
    MaxClock = 3
    MaxChanges = 2
    Skew = 1
    TicketLifetimes = {4}
    RenewLifetimes = {2}
    Drifts = {0, 1}
    AssertionLives = {0, 1}
    CertLives = {1, 4}
    Start = 2
    MaxTime = 8
    MaxAssertions = 2
    MaxCerts = 2
    CheckedAt = 5
    IssueTimes = {2, 3, 6, 7}
    StartTimes = {6, 7}
    EndTimes = {3, 4}
SYMMETRY Symmetry
SPECIFICATION MCSpec
INVARIANTS
    RelyingPartyTypeOK
    ReauthEnds
    NoReplay
    KeysCurrent
    AcceptedIsValid
    CredentialHeld
CHECK_DEADLOCK FALSE
