\* Three guids over three paths: guids shared, replaced and left behind.
CONSTANTS
    g1 = g1
    g2 = g2
    g3 = g3
    p1 = p1
    p2 = p2
    p3 = p3
    r1 = r1
    None = None
    Guids <- MCGuids
    Paths <- MCPaths
    Revisions <- MCRevisions
    MaxRecords = 3
SPECIFICATION Spec
INVARIANTS
    IndexesSound
PROPERTIES
    RemoveTakesOne
    ImplementsRegistry
