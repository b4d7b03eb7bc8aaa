\* Three exchanges, so that a ticket renewed by a re-authentication is used again.
CONSTANTS
    i1 = i1  i2 = i2  i3 = i3
    a1 = a1  a2 = a2  a3 = a3
    Initiators = {i1, i2, i3}
    Acceptors = {a1, a2, a3}
    Requests <- AllRequests
    HasCert = TRUE
    Faults = {"lose"}
    Unreliable = FALSE
SYMMETRY SymmetryChain
SPECIFICATION Spec
INVARIANTS
    ChainKeysAgree
    MutualGrounded
CHECK_DEADLOCK FALSE
