CONSTANTS
    u1 = u1
    b1 = b1
    junk = junk
    NullId = NullId
    Absent = Absent
    UserIdVals <- MCUserIdVals
    Docs <- MCDocs
    Garbage = {junk}
SPECIFICATION Spec
CHECK_DEADLOCK FALSE
INVARIANT ConflictRejected
