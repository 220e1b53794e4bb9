\* A change that finds the value as it wants it answers ok without a sync.
SPECIFICATION DurableSpec
CONSTANTS
    v1 = v1
    v2 = v2
    Procs = {p1, p2}
    Inodes = {i1, i2, i3}
    Values = {v1, v2}
    Torn = Torn
    Nil = Nil
    None = None
    Size <- MCSize
    Limits = {0, 1}
    EditErrors <- MCEditErrors
    Edits <- MCEdits
    Requests <- SettlingRequests
    Faults = {"kill"}
INVARIANTS
    AcknowledgedSurvives
SYMMETRY Alike
