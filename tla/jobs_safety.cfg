CONSTANTS
    w1 = w1
    w2 = w2
    mail = mail
    prov = prov
    p1 = p1
    p2 = p2
    None = None
    Worker <- TwoWorkers
    Job <- BothKinds
    Provisioning <- ProvisioningRow
    Payload <- TwoPayloads
    MaxAttempts = 2
    ClaimLimit = 2
    MaxCrashes = 0
    MaxStalls = 1
CHECK_DEADLOCK FALSE
SYMMETRY WorkerSymmetry
SPECIFICATION Spec
INVARIANT LeaseMatchesAttempt
PROPERTIES CompletionIsCurrent KeepsPromise
