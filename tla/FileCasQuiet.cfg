\* Whatever fails, and whoever is killed holding the lock, every call returns
\* once nobody calls any more.
SPECIFICATION QuietSpec
CONSTANTS
    v1 = v1
    v2 = v2
    Procs = {p1, p2, p3}
    Inodes = {i1, i2}
    Values = {v1, v2}
    Torn = Torn
    Nil = Nil
    None = None
    Size <- MCSize
    Limits = {0, 1}
    EditErrors <- MCEditErrors
    Edits <- MCEdits
    Requests <- LiveRequests
    Faults = {"kill", "rename"}
PROPERTIES
    CallsReturn
