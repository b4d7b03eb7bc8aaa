\* Two exchanges over reliable connections, with every failure the mechanism
\* handles except a replay cache that cannot be written.
CONSTANTS
    i1 = i1  i2 = i2  i3 = i3
    a1 = a1  a2 = a2  a3 = a3
    Initiators = {i1, i2}
    Acceptors = {a1, a2}
    Requests <- AllRequests
    HasCert = TRUE
    Faults = {"acquire", "verify", "lookup", "ready", "delete", "lose", "expire", "delay"}
    Unreliable = FALSE
SYMMETRY Symmetry2
SPECIFICATION Spec
INVARIANTS
    TypeOK
    NoSpin
    InitReturnConsistent
CHECK_DEADLOCK FALSE
