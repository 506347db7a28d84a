CONSTANTS
    g1 = g1
    g2 = g2
    a = a
    b = b
    d = d
    Gateways = {g1, g2}
    Callers = {a, b, d}
    Calls <- MCCalls
    LeaseDuration = 1
    MaxNow = 3
    Assignments = {0, 1}
    CasMaxRetries = 2
    Workloads <- MCWorkloads
SPECIFICATION FairSpec
CHECK_DEADLOCK FALSE
INVARIANTS SoleGatewayKeepsRenewedPools AtMostOneRenewer CreatedPoolIsRenewed
PROPERTIES CallersSettle AbandonedPoolIsReleased
