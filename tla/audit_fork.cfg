SPECIFICATION AuditSpec
CONSTANTS
    a1 = a1
    a2 = a2
    a3 = a3
    genesis = genesis
    Appender <- ThreeAppenders
    Genesis = genesis
INVARIANT NoTwoSuccessors
CHECK_DEADLOCK FALSE
