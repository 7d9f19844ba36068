CONSTANTS
    i1 = i1
    IntBits = 16
    SizeBits = 24
    Ids <- MCIds
    NullId = NullId
    Absent = Absent
    OtherKeys <- MCOtherKeys
    Requests <- MCRequests
    NoCopy = NoCopy
SPECIFICATION Spec
INVARIANT TypeOK
INVARIANT WrittenFieldsRoundTrip
