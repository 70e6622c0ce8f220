SPECIFICATION FairSpec
CONSTANTS
    Request = {r1, r2}
    Mode = "Optional"
    Max = 1
    Timeout = 2
    Limit = 2
    Reply <- MCReply
    LastStart = 1
CHECK_DEADLOCK FALSE
INVARIANTS
    TypeOK
    SlotsConserved
    AuthenticatedJustified
    NoDowngrade
    BlameDeserved
    DeadlineKept
PROPERTIES
    ImplementsAdmission
    ExchangeEnds
