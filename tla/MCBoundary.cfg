SPECIFICATION Spec
CONSTANT Input <- Cases
CHECK_DEADLOCK FALSE
INVARIANTS
    SameAnswer
    TrustBoundary
    NoBypass
    AnswersMarked
    CacheSafe
