SPECIFICATION BFairSpec
CONSTANTS
    Request = {r1, r2}
    Mode = "Required"
    Max = 2
    Timeout = 2
    Limit = 2
    Reply <- BrokerReplies
    LastStart = 1
    Credential <- Tokens
    Paths <- AllPaths
    MaxTime = 2
CHECK_DEADLOCK FALSE
INVARIANT VerdictDelivered
PROPERTIES
    EndsUnaided
    BrokerQuiesces
