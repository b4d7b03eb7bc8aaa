\* The instance of Messages.cfg: a ring of three numbers of four bits; six tokens one way, one the other way.
CONSTANTS
    QSize = 3
    Width = 4
    DoReplay = TRUE
    DoSequence = TRUE
    MaxSend <- Sends
SPECIFICATION Spec
INVARIANT
    ReplayDetected
CHECK_DEADLOCK FALSE
