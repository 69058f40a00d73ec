\* Three threads of one process; calls fail and the process restarts.
CONSTANTS
    t1 = t1
    t2 = t2
    t3 = t3
    o1 = o1
    o2 = o2
    e1 = e1
    e2 = e2
    NL = NL
    Fragment = Fragment
    Nobody = Nobody
    Lines <- MCLines
    Threads <- MCThreads
    Objects <- MCOneObject
    ObjectOf <- Together
    MaxAppends = 3
    MaxFaults = 2
SPECIFICATION Spec
INVARIANTS
    OneObjectWhole
    FaultsMergeOnce
\* The bound on the appends stops the system.
CHECK_DEADLOCK FALSE
