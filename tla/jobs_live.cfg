CONSTANTS
    w1 = w1
    w2 = w2
    mail = mail
    prov = prov
    p1 = p1
    p2 = p2
    None = None
    Worker <- TwoWorkers
    Job <- BothKinds
    Provisioning <- ProvisioningRow
    Payload <- OnePayload
    MaxAttempts = 2
    ClaimLimit = 1
    MaxCrashes = 1
    MaxStalls = 0
CHECK_DEADLOCK FALSE
SPECIFICATION FairSpec
PROPERTIES SettlesOrStrands Settles
