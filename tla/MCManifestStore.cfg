\* Two tools over one manifest.json: overlapping saves, failures, deaths.
CONSTANTS
    tA = tA
    tB = tB
    g1 = g1
    g2 = g2
    p1 = p1
    p2 = p2
    r1 = r1
    None = None
    Absent = Absent
    Empty = Empty
    Torn = Torn
    Tools <- MCTools
    Guids <- MCGuids
    Paths <- MCPaths
    Revisions <- MCRevisions
    MaxRecords = 3
    MaxSaves = 3
    MaxFaults = 1
SYMMETRY MCSymmetry
SPECIFICATION StoreSpec
INVARIANTS
    LoadedSound
    QuietFileIsLastSave
