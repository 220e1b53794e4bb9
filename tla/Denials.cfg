\* Denials that come and go at any step, of foreign programs and of readers, or
\* for good, over SMB.  A rename of p1 may not return there, as Go's, and one of
\* p2 does, as Python's and C++'s.
SPECIFICATION QuietDenials
CONSTANTS
    v1 = v1
    v2 = v2
    Procs = {p1, p2}
    Inodes = {i1, i2}
    Values = {v1, v2}
    Torn = Torn
    Nil = Nil
    None = None
    Size <- MCSize
    Limits = {0, 1}
    EditErrors <- MCEditErrors
    Edits <- MCEdits
    Requests <- DeniableRequests
    Faults = {"kill", "open", "read", "rename", "remove"}
    ReadTries = 1
    RenameTries = 2
    Hasty <- HastyRequests
    OverSMB = TRUE
    Stalling = {p1}
PROPERTIES
    KeepsToTheProtocol
    OnlyStallsKeepCalls
    DeadlineEndsDeniedOpens
