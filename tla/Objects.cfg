\* Names in two processes, which may have Shibboleth's resolver, with two local
\* attributes: one that is resolved and one that is set.
CONSTANTS
    t1 = t1  n1 = n1  n2 = n2  p1 = p1  p2 = p2
    Creds = {c1}
    Subjects = {alice, bob}
    Assertions = {byAlice, byBob, garbled}
    Owned = {{byAlice, alice}, {byBob, bob}}
    Mechs = {mech, other}
    Foreign = {foreign}
    absent = absent
    ValueNames = {"a", "b"}
    MaxWrites = 4
    Optional = {"local"}
    Procs = {p1, p2}
    Threads = {t1}
    Names = {n1, n2}
    Ids = {"r", "x"}
    MaxAttrs = 2
    Kinds = {"local"}
    WithTokens = TRUE
SYMMETRY Symmetry
SPECIFICATION MCSpec
INVARIANTS
    ObjectsTypeOK
    NamesFaithful
    ContextCredentials
    RoundTrip
    AnswersSuffice
    RegistryFaithful
PROPERTY
    CallerDisplays
CHECK_DEADLOCK FALSE
