CONSTANTS
    IntBits = 16
    Structs = {"Impression"}
    Leaves <- MCLeaves
    Garbage <- MCGarbage
    LittleEndian = TRUE
    NoValue = NoValue
SPECIFICATION Spec
INVARIANT JsonRoundTrip
