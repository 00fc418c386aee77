SPECIFICATION FairSpec
CONSTANTS
    ann = ann
    bo = bo
    cia = cia
    minutes = minutes
    annex = annex
    Signer <- Two
    Required <- Two
    Order <- InTurn
    Document <- TwoDocuments
    MaxStarts = 1
    MaxMishaps = 2
PROPERTIES ConsentIsSigned SigningPromised
CHECK_DEADLOCK FALSE
