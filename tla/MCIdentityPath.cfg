SPECIFICATION Spec
CONSTANTS
    Deployment <- Deployments
    Success <- Successes
    Foreign <- ForeignValues
    MaxTime = 2
CHECK_DEADLOCK FALSE
INVARIANTS
    RefusedForCause
    IdentityKept
    OnlySizeRefuses
    ObjectsReencode
    DecodedSound
