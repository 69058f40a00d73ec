\* Every manifest of up to three entries, three calls of apply.
CONSTANTS
    p1 = p1
    p2 = p2
    b1 = b1
    b2 = b2
    h1 = h1
    h2 = h2
    h3 = h3
    Absent = Absent
    Partial = Partial
    Unchecked = Unchecked
    Paths <- MCPaths
    Bodies <- MCBodies
    Package <- MCPackage
    Sums <- MCSums
    Sum <- MCSum
    Manifests <- MCManifests
    MaxTries = 3
SPECIFICATION Spec
INVARIANTS
    OkInstalls
    OkVerifies
    TornIsReported
\* The bound on the calls stops the system once every file is delivered.
CHECK_DEADLOCK FALSE
