\* One watch thread beside poll() over three events, two of them in one file.
CONSTANTS
    e1 = e1
    e2 = e2
    e3 = e3
    f1 = f1
    f2 = f2
    s1 = s1
    s2 = s2
    Torn = Torn
    Poller = Poller
    NoScanner = NoScanner
    Nothing = Nothing
    Events <- MCThreeEvents
    Files <- MCTwoFiles
    FileOf <- MCMixedFiles
    Length <- MCThreeLengths
    MaxStarts = 1
    Subscribers <- MCOneSub
    InitSubs <- MCInitSubs
    PanicsOn <- MCPanic
SPECIFICATION Spec
\* The bound on the starts stops the system once every tool has written.
CHECK_DEADLOCK FALSE
INVARIANTS
    TypeOK
    CallbacksExclusive
    OncePerScanner
    PollServesWhole
PROPERTIES
    PoisonSilences
