\* Two callers, every call, and every step of the operating system may fail.
SPECIFICATION Spec
CONSTANTS
    v1 = v1
    v2 = v2
    Procs = {p1, p2}
    Inodes = {i1, i2, i3}
    Values = {v1, v2}
    Torn = Torn
    Nil = Nil
    None = None
    Size <- MCSize
    Limits = {0, 1}
    EditErrors <- MCEditErrors
    Edits <- MCEdits
    Requests <- AllRequests
    Faults = {"kill", "enter", "lock", "open", "read", "create", "write", "rename", "sync", "list", "remove"}
INVARIANTS
    TypeOK
    WholeOrNothing
    LiveStageSurvives
    NothingLeftBehind
PROPERTIES
    NeverDeleted
    ActsAsRegister
SYMMETRY Alike
