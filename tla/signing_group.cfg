SPECIFICATION Spec
CONSTANTS
    ann = ann
    bo = bo
    cia = cia
    minutes = minutes
    annex = annex
    Signer <- Three
    Required <- ThePair
    Order <- PairThenOne
    Document <- OneDocument
    MaxStarts = 2
    MaxMishaps = 2
INVARIANTS TurnRespected TurnIsInvited LastSignerPackagesCase
PROPERTIES EvidenceKept
CHECK_DEADLOCK FALSE
