SPECIFICATION Spec
CONSTANTS
    p1 = p1
    p2 = p2
    o1 = o1
    s1 = s1
    w1 = w1
    w2 = w2
    k1 = k1
    k2 = k2
    k3 = k3
    b1 = b1
    b2 = b2
    host = host
    none = none
    Upload <- MixedUploads
    Office <- OneOffice
    Content <- ThreeFiles
    Declared <- WhatTheyAre
    Attachment <- NoAttachment
    DraftSigner <- OneSigner
    DocWorker <- TwoActors
    DNone = none
    MaxRenditions = 2
    MaxDLosses = 1
    Caller <- ThreeCallers
    Body <- TwoBodies
    INone = none
    MaxAsks = 2
    Runner <- TwoActors
    Steps <- FiveSteps
    PNone = none
    MaxAttempts = 2
    Official <- TwoActors
    ReviewType <- TwoReviews
    MaxQuestions = 1
    Admin <- TwoActors
    Key <- OneKey
    Browser <- OneBrowser
    ANone = none
    Threshold = 1
    MaxCalls = 3
    Login <- TwoLogins
    Assertion <- TwoAssertions
    Process <- TwoActors
    Providers <- TwoProviders
    Oidc <- OneOidc
    Form <- FourForms
    StrictContext = FALSE
    GroupToRole <- Handlers
    AssignableRoles <- OneAssignable
    FNone = none
    MaxSwitches = 1
    Standard = none
    Custom <- OneOwn
    Operator <- TwoActors
    Visitor <- OneBrowser
    MaxChanges = 5
SYMMETRY Symmetry
INVARIANTS
    BeforeSigningTypeOK
    SentIsWhole
    LastDocumentReadies
    AnsweredAlike
    ProvisionedWhole
    DecisionHonoured
    RegisterIsTrue
    AdmittedOnce
    PrimaryWorks
PROPERTIES
    RevivedByAdminOnly
CHECK_DEADLOCK FALSE
