SPECIFICATION Spec
CONSTANTS
    ann = ann
    bo = bo
    cia = cia
    none = none
    t1 = t1
    t2 = t2
    None = none
    Signer <- TwoSigners
    Before <- NoTurns
    Thread <- TwoThreads
    Stamp <- ThreeStamps
    Policy <- OrdinaryPolicy
    TimestampConfigured = FALSE
    MaxLosses = 0
    MaxRejections = 0
INVARIANTS NoFork
CHECK_DEADLOCK FALSE
