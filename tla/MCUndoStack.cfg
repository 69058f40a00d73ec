\* Two commands, depth three, and enough commands in effect to trim twice.
CONSTANTS
    c1 = c1
    c2 = c2
    Commands <- MCCommands
    MaxDepth = 3
    MaxEffects = 7
SPECIFICATION Spec
INVARIANTS
    UndoesTheLast
    DepthBounded
PROPERTY
    ImplementsHistory
