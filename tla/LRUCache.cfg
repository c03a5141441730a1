CONSTANTS
    Keys = {k1, k2, k3}
    Vals <- MCVals
    Size <- MCSize
    Cap = 4
SPECIFICATION Spec
CHECK_DEADLOCK FALSE
INVARIANTS
    TypeOK
    Consistent
    ServesLastStored
PROPERTY
    EvictsLeastRecent
