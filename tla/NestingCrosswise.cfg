\* Edits that call on each other's files.
SPECIFICATION Spec
CONSTANTS
    t1 = t1
    t2 = t2
    t3 = t3
    a = a
    b = b
    c = c
    None = None
    Threads = {t1, t2}
    Files = {a, b, c}
    Values = {v1, v2}
    Python = {t1, t2}
    Nests <- Crosswise
    Kills = TRUE
INVARIANTS
    NoStandstill
