CONSTANTS
    IntBits = 16
    Structs = {"Video", "Banner", "Impression", "BidRequest", "SeatBid",
               "Content", "Site", "App", "Geo", "Device", "User"}
    Leaves <- MCLeaves
    Garbage <- MCGarbage
    LittleEndian = FALSE
    NoValue = NoValue
SPECIFICATION Spec
INVARIANT TypeOK
INVARIANT BestEffortParse
INVARIANT JsonRoundTrip
