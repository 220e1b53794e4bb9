\* Edits that may hang while others wait for the lock with a deadline.
SPECIFICATION PatientSpec
CONSTANTS
    v1 = v1
    v2 = v2
    Procs = {p1, p2}
    Inodes = {i1, i2}
    Values = {v1, v2}
    Torn = Torn
    Nil = Nil
    None = None
    Size <- MCSize
    Limits = {0, 1}
    EditErrors <- MCEditErrors
    Edits <- MCEdits
    Requests <- LiveRequests
    Faults = {"kill", "lock"}
PROPERTIES
    DeadlineBoundsTheWait
