\* A record whose own name is that of its neighbour's lock file.
SPECIFICATION Spec
CONSTANTS
    Root <- MCRoot
    Side <- MCSide
    SameVolume = TRUE
    Words <- AllWords
    Unique = {"x"}
    Procs = {p1, p2}
    Inodes = {i1, i2, i3, i4, i5}
    None = None
    Paths <- MCPaths
    Calls <- LockNamed
    Kills = TRUE
PROPERTIES
    LocksStay
SYMMETRY Alike
