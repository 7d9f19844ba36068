CONSTANTS
    i1 = i1
    i2 = i2
    i3 = i3
    Ids <- MCIds
    NullId = NullId
    Absent = Absent
    OtherKeys <- MCOtherKeys
SPECIFICATION SpecAdd
INVARIANT TypeOK
INVARIANT MirrorsAgree
PROPERTY NoSilentOverwrite
PROPERTY ReloadLossless
