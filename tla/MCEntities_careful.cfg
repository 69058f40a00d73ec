\* Three ids given, freed and given again, with components of two types.
CONSTANTS
    k1 = k1
    k2 = k2
    Kinds <- MCKinds
    MaxId = 3
    MaxFree = 3
    MaxBirths = 5
SPECIFICATION CarefulSpec
INVARIANTS
    PoolPartition
    OwnComponents
\* The bound on the births stops the system once everything is removed.
CHECK_DEADLOCK FALSE
