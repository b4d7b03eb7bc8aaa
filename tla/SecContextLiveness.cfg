\* Two exchanges over reliable connections; tickets expire and cache entries are
\* lost, and every started exchange must still complete.
CONSTANTS
    i1 = i1  i2 = i2  i3 = i3
    a1 = a1  a2 = a2  a3 = a3
    Initiators = {i1, i2}
    Acceptors = {a1, a2}
    Requests <- AllRequests
    HasCert = TRUE
    Faults = {"lose", "expire"}
    Unreliable = FALSE
SPECIFICATION FairSpec
PROPERTIES
    Establishes
CHECK_DEADLOCK FALSE
