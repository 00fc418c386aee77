SPECIFICATION Spec
CONSTANTS
    e1 = e1
    e2 = e2
    j1 = j1
    j2 = j2
    h1 = h1
    h2 = h2
    m1 = m1
    m2 = m2
    m3 = m3
    s1 = s1
    s2 = s2
    d1 = d1
    d2 = d2
    v1 = v1
    v2 = v2
    c1 = c1
    c2 = c2
    o1 = o1
    o2 = o2
    g1 = g1
    g2 = g2
    w1 = w1
    w2 = w2
    n1 = n1
    n2 = n2
    r1 = r1
    r2 = r2
    none = none
    Endpoint <- TwoEndpoints
    WebhookJob <- TwoJobs
    Dispatch = j1
    Handler <- TwoHandlers
    Nobody = none
    WebhookAttempts = 2
    MaxTrouble = 1
    Message <- ThreeMessages
    Invitation = m1
    Sender <- TwoSenders
    NoMessage = none
    MaxEvents = 2
    MaxResends = 1
    Grant <- TwoGrants
    Visitor <- TwoVisitors
    MaximumUses = 2
    MaxTraces = 3
    GCase <- TwoCases
    Official <- TwoOfficials
    GallringRun <- TwoRuns
    GWorker <- TwoWorkers
    Erasable <- OneErasable
    GNone = none
    MaxHolds = 1
    MaxGLosses = 1
    ACase <- TwoCases
    AWorker <- TwoWorkers
    Dossier <- TwoDossiers
    PackageFiles <- BothPacked
    Archivist = n1
    Null = none
    LevelOf <- OneProtected
    ANone = none
    MaxTrail = 2
    MaxALosses = 1
    KeyNode <- TwoNodes
    KeyRow <- TwoRows
    MaxRotations = 2
    Row <- ThreeRows
    ListKind <- AllLists
    Limit = 1
    PerMs = 2
    MaxClock = 3
    Putter <- TwoWorkers
    KeptKey <- OneKey
    SourceKey <- OneSource
    Content <- TwoContents
    Nothing = none
    MaxLate = 1
    Connection <- ThreeConnections
    PoolOf <- OneEach
    Request <- ThreeRequests
    Organisation <- TwoOrganisations
    NoTenant = none
    ZDocument <- OneZDocument
    ZSigner <- OneZSigner
    Artifact <- OneArtifact
    Bytes <- TwoBytes
    Crc <- Colliding
    MaxDamage = 2
SYMMETRY Symmetry
INVARIANTS
    AfterSigningTypeOK
    AcceptedOnce
    EndedIsAccounted
    BounceReachesSigner
    NeverWithoutLink
    HoldHonoured
    ArchiveRecordTrue
    TruthfulRowsReadable
    ListedOnce
    AnsweredPutIsStored
    WorksOnItsOwn
    SomebodyGoesOn
    DamageIsSeen
PROPERTIES
    KeepsGallringPromise
CHECK_DEADLOCK FALSE
