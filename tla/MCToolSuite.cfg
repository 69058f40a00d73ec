\* One event from outside, and the clock may advance once.
CONSTANTS
    Thread = Thread
    Caller = Caller
    Nobody = Nobody
    Empty = Empty
    Marks <- MCMarks
    Handlers <- MCHandlers
    Asked <- MCAsked
    MaxWrites = 1
    MaxTime = 2
SPECIFICATION FairSpec
INVARIANTS
    SeenMeansServed
    ChainsEnd
PROPERTIES
    PendingServed
    StopReturns
\* Nobody has to start the watcher, write or poll.
CHECK_DEADLOCK FALSE
