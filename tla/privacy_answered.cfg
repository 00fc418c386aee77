SPECIFICATION PrivacySpec
CONSTANTS
    r1 = r1
    r2 = r2
    ann = ann
    none = none
    Dsr <- TwoRequests
    Subject <- OneSubject
    DsrNone = none
    MaxDsrLosses = 1
PROPERTIES
    ExecutedIsAnswered
CHECK_DEADLOCK FALSE
