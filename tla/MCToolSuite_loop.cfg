\* All four adapters with the broker and the reasoner.
CONSTANTS
    Thread = Thread
    Caller = Caller
    Nobody = Nobody
    Empty = Empty
    Marks <- AllMarks
    Handlers <- AllHandlers
    Asked <- MCAsked
    MaxWrites = 1
    MaxTime = 2
SPECIFICATION Spec
INVARIANT ChainsEnd
CHECK_DEADLOCK FALSE
