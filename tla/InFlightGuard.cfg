SPECIFICATION FairSpec
CONSTANTS
    Thread = {t1, t2, t3, t4}
    Max = 2
INVARIANTS
    SlotsConserved
PROPERTIES
    ImplementsAdmission
    LockFree
