\* The replay cache of the acceptor cannot be written.
CONSTANTS
    i1 = i1  i2 = i2  i3 = i3
    a1 = a1  a2 = a2  a3 = a3
    Initiators = {i1}
    Acceptors = {a1}
    Requests <- AllRequests
    HasCert = TRUE
    Faults = {"update"}
    Unreliable = FALSE
SPECIFICATION Spec
INVARIANTS
    InitReturnConsistent
CHECK_DEADLOCK FALSE
