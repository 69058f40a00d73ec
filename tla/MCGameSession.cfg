\* Three connections and two lines: a join that fails, and one that succeeds.
CONSTANTS
    Game = Game
    Session = Session
    Clients <- MCClients
    MaxConns = 3
    MaxLines = 2
SPECIFICATION FairSpec
INVARIANTS
    LinesInOrder
    FreshAuth
    SessionWhole
    TerminatedByLossOnly
PROPERTIES
    CallReturns
    EndIsNoticed
\* The program may end.
CHECK_DEADLOCK FALSE
