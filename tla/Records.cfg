\* Records whose names look like their neighbours' files, through a Placement.
SPECIFICATION Spec
CONSTANTS
    Root <- MCRoot
    Side <- MCSide
    SameVolume = TRUE
    Words <- AllWords
    Unique = {"x"}
    Procs = {p1, p2}
    Inodes = {i1, i2, i3, i4, i5}
    None = None
    Paths <- MCPaths
    Calls <- PlacedCalls
    Kills = TRUE
INVARIANTS
    StagedFilesStay
    RootHoldsOnlyData
    EveryFileIsServed
PROPERTIES
    RecordsChangeByTheirWriters
    LocksStay
SYMMETRY Alike
