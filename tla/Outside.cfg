\* One thread follows delegations that change, at first in a circle.
CONSTANTS
    h1 = h1  h2 = h2  h3 = h3  k1 = k1  v1 = v1  None = None
    c1 = c1  alice = alice  byAlice = byAlice  mech = mech  other = other
    t1 = t1  n1 = n1  n2 = n2  p1 = p1
    Verifiers = {v1}
    Hosts = {h1, h2, h3}
    Keys = {k1}
    SecondaryAuthorities = {h2}
    MaxDelegations = 2
    Skew = 0
    UseCache = TRUE
    Lifetime = 1
    Initially <- Circle
    Documents <- Redirected
    Certificates <- AtFirstHost
    MaxTime = 2
    MaxChanges = 1
SPECIFICATION MCSpec
INVARIANTS
    IssuerAuthorised
    ClaimsFaithful
PROPERTIES
    VerificationEnds
    SessionEnds
    CredImportRestores
CHECK_DEADLOCK FALSE
