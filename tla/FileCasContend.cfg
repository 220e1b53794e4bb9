\* Three callers, one call of each kind, and writers that are killed anywhere.
SPECIFICATION Spec
CONSTANTS
    v1 = v1
    v2 = v2
    Procs = {p1, p2, p3}
    Inodes = {i1, i2, i3, i4}
    Values = {v1, v2}
    Torn = Torn
    Nil = Nil
    None = None
    Size <- MCSize
    Limits = {0, 1}
    EditErrors <- MCEditErrors
    Edits <- MCEdits
    Requests <- FewRequests
    Faults = {"kill"}
INVARIANTS
    EditSeesTruth
    SweepIsComplete
SYMMETRY Alike
