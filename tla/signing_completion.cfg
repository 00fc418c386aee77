SPECIFICATION FairSpec
CONSTANTS
    ann = ann
    bo = bo
    cia = cia
    minutes = minutes
    annex = annex
    Signer <- Two
    Required <- Two
    Order <- InTurn
    Document <- OneDocument
    MaxStarts = 1
    MaxMishaps = 0
PROPERTIES EveryoneSignedIsPackaged
CHECK_DEADLOCK FALSE
