SPECIFICATION Spec
CONSTANTS
    Thread = {t1, t2, t3}
    Prefix = {"p", "q"}
    Modulus = 4
    MaxWraps = 2
CHECK_DEADLOCK FALSE
INVARIANTS
    UniqueUntilWrap
    OnePrefix
