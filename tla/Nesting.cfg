\* Edits that call in one order of the files, and Python's on their own files too.
SPECIFICATION QuietSpec
CONSTANTS
    t1 = t1
    t2 = t2
    t3 = t3
    a = a
    b = b
    c = c
    None = None
    Threads = {t1, t2, t3}
    Files = {a, b, c}
    Values = {v1, v2}
    Python = {t1}
    Nests <- Ordered
    Kills = TRUE
INVARIANTS
    NoStandstill
    PythonIsTold
    NestedEditsSeeTruth
PROPERTIES
    NestedCallsEnd
