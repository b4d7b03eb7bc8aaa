\* Two initiators and three acceptor contexts; any token may reach any context,
\* any number of times.
CONSTANTS
    i1 = i1  i2 = i2  i3 = i3
    a1 = a1  a2 = a2  a3 = a3
    Initiators = {i1, i2}
    Acceptors = {a1, a2, a3}
    Requests <- AllRequests
    HasCert = TRUE
    Faults = {"update"}
    Unreliable = TRUE
SYMMETRY Symmetry3
SPECIFICATION Spec
INVARIANTS
    AtMostOnce
    KeysAgree
    OverwrittenOnlyByRepeat
CHECK_DEADLOCK FALSE
