\* start, stop and start again: two watch threads beside poll().
CONSTANTS
    e1 = e1
    e2 = e2
    e3 = e3
    f1 = f1
    f2 = f2
    s1 = s1
    s2 = s2
    Torn = Torn
    Poller = Poller
    NoScanner = NoScanner
    Nothing = Nothing
    Events <- MCOneEvent
    Files <- MCOneFile
    FileOf <- MCOneFileOf
    Length <- MCOneLength
    MaxStarts = 2
    Subscribers <- MCSubs
    InitSubs <- MCInitSubs
    PanicsOn <- MCLatePanic
SPECIFICATION FairSpec
\* The bound on the starts stops the system once every tool has written.
CHECK_DEADLOCK FALSE
PROPERTIES
    WholeEventDelivered
    StopEndsThreads
    LockIsReleased
