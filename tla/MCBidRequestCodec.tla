--------------------------- MODULE MCBidRequestCodec ---------------------------
(* Model-checking instance of BidRequestCodec: int is 16 bits and size_t 24, *)
(* which keeps the wrap of a negative value through compact_size_t; the     *)
(* requests are the product of a few locations, id maps and impressions.    *)
EXTENDS BidRequestCodec

CONSTANTS i1

MCIds == {i1}
MCOtherKeys == {}

MCLocations ==
    {[countryCode |-> "US", regionCode |-> "NY", cityName |-> "NYC", postalCode |-> "10001",
      dma |-> 501, tz |-> -300],
     [countryCode |-> "", regionCode |-> "", cityName |-> "", postalCode |-> "",
      dma |-> 0, tz |-> 60]}

MCUserIdsValues ==
    {U!EmptyUserIds,
     [map |-> [k \in {"prov", "xchg"} |-> IF k = "prov" THEN i1 ELSE Absent],
      providerId |-> i1, exchangeId |-> NullId]}

\* Two formats, one with a negative width, none; positions 0, 3 and the
\* unspecified -1.
Spot1 == [id |-> "1", formats |-> <<[width |-> 300, height |-> 250], [width |-> 728, height |-> 90]>>,
          position |-> 0]
Spot2 == [id |-> "2", formats |-> <<>>, position |-> -1]
Spot3 == [id |-> "3", formats |-> <<[width |-> -1, height |-> 50]>>, position |-> 3]

MCImps == {<<>>, <<Spot1>>, <<Spot2, Spot3>>}

MCRequests ==
    [auctionId: {"abc"}, location: MCLocations, userIds: MCUserIdsValues,
     imp: MCImps, url: {"http://s1.siteid/"}, context: {"site", "app"}]
=============================================================================
