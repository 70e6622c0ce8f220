SPECIFICATION Spec
CONSTANTS
    Path <- Paths
    MAX_POLICY_PATH_LEN = 10
CHECK_DEADLOCK FALSE
INVARIANTS
    NormalForm
    SegmentsKept
    Idempotent
    MatchesReference
