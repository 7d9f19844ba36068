---------------------------- MODULE MCDescriptions ----------------------------
(* Model-checking instance of Descriptions: int is 16 bits; for each       *)
(* struct a few leaves of each JSON type its members meet, including text  *)
(* stoi reads only a prefix of, text out of int range, arrays with and     *)
(* without a non-number, and currency codes.                               *)
EXTENDS Descriptions

Chars(str) == [i \in 1..Len(str) |-> SubSeq(str, i, i)]

MCLeaves ==
    [Video |->
        {JInt(0), JInt(2), JString(Chars("12abc")), JString(Chars("x")),
         JString(Chars("99999")), JBool(TRUE)},
     Banner |->
        {JInt(3), JArray(<<JInt(3), JInt(4)>>), JArray(<<>>),
         JArray(<<JInt(3), JString(Chars("x"))>>), JString(Chars("1")), JBool(TRUE)},
     Impression |->
        {JInt(1), JString(Chars("USD")), JString(Chars("EUR"))},
     BidRequest |->
        {JInt(1), JInt(2), JString(Chars("90")), JBool(TRUE)},
     SeatBid |->
        {JInt(0), JBool(TRUE), JString(Chars("x"))},
     Content |->
        {JInt(1), JBool(FALSE), JString(Chars("x"))},
     Site |->
        {JInt(0), JString(Chars("1")), JNull},
     App |->
        {JInt(2), JBool(FALSE), JString(Chars("x"))},
     Geo |->
        {JInt(2), JString(Chars("2"))},
     Device |->
        {JInt(1), JBool(TRUE), JString(Chars("0"))},
     User |->
        {JInt(1990), JString(Chars("1990")), JBool(TRUE)}]

MCGarbage == {0, 7}
=============================================================================
