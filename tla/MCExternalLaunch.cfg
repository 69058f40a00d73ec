\* Three launches, each writing up to a line.
CONSTANTS
    MaxLaunches = 3
    MaxLines = 1
SPECIFICATION FairSpec
INVARIANTS
    ReapedByOne
    AtMostOneReport
    ExitReported
    OutputBeforeExit
PROPERTIES
    TerminateReturns
    DestructorReturns
    NoZombieStays
\* The editor may quit, or have no launch left.
CHECK_DEADLOCK FALSE
