SPECIFICATION FairSpec
CONSTANTS
    ann = ann
    bo = bo
    cia = cia
    none = none
    t1 = t1
    t2 = t2
    None = none
    Signer <- ThreeSigners
    Before <- OneThenTwo
    Thread <- TwoThreads
    Stamp <- ThreeStamps
    Policy <- EveryKindOfPolicy
    TimestampConfigured = TRUE
    MaxLosses = 2
    MaxRejections = 1
INVARIANTS StoredIsRecorded NoForkInTurn BuildsOnValidated LevelIsEarned
PROPERTIES EverySignerSigns
CHECK_DEADLOCK FALSE
