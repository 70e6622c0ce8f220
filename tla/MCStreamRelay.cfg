SPECIFICATION FairSpec
CONSTANTS
    N = 9
    Script <- AllScripts
CHECK_DEADLOCK FALSE
INVARIANTS
    TruthRelayed
    SuccessIsComplete
    FramesBeforeError
PROPERTIES
    EveryoneLearns
