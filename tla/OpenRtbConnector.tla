--------------------------- MODULE OpenRtbConnector ---------------------------
(***************************************************************************)
(* The OpenRTB exchange connector (src/plugins/exchange/                   *)
(* openrtb_exchange_connector.cc): one HTTP bid request after another goes *)
(* through parseBidRequest (header checks, then the OpenRTB parser),       *)
(* getTimeAvailableMs (a text scan of the payload for "tmax":), the        *)
(* auction (outside this tree: it either decides or is dropped), and       *)
(* getResponse / setSeatBid, which build the OpenRTB BidResponse.          *)
(*                                                                         *)
(* The payload is abstracted to its top-level members in text order; a     *)
(* member is a key, how the text around its colon is spaced, and a value:  *)
(* a number, a quoted number, or an object that holds a "tmax":n of its    *)
(* own.  The parse of the rest of the request is one boolean.              *)
(***************************************************************************)
EXTENDS Naturals, Sequences, SequencesExt, Functions

CONSTANTS
    Headers,    \* [contentType, version] pairs the transport may deliver
    Payloads,   \* payloads: sequences of members
    ImpIds,     \* the impression ids of the request, in order
    Agents,     \* bidding agents (their ids become Bid.cid)
    Prices,     \* max prices of winning responses
    AuctionId,  \* auction.id
    NoAgent     \* the agent of a default-constructed Auction::Response

\* A member of the payload: key, spacing, value.
Members ==
    [key: {"tmax", "ext"}, sep: {"compact", "spacedValue", "spacedColon"},
     val: [kind: {"num", "str", "obj"}, n: Nat]]

-----------------------------------------------------------------------------
(* getTimeAvailableMs and the parsed tmax.                                 *)

\* Does the text of member m contain "tmax": at its own key?  "tmax" :80
\* (a space before the colon) does not.
KeyMatches(m) == m.key = "tmax" /\ m.sep # "spacedColon"

\* An object value holds "tmax": of its own.
NestedMatches(m) == m.val.kind = "obj"

\* atoi of the text after "tmax":  leading spaces are skipped; a quote or
\* a brace stops it at 0.
Atoi(v) == IF v.kind = "num" THEN v.n ELSE 0

\* payload.find("\"tmax\":"), then atoi of what follows, or 10.0 when
\* there is no match.
getTimeAvailableMs(payload) ==
    LET i == SelectInSeq(payload, LAMBDA m : KeyMatches(m) \/ NestedMatches(m))
    IN IF i = 0 THEN 10
       ELSE IF KeyMatches(payload[i]) THEN Atoi(payload[i].val)
       ELSE payload[i].val.n

\* optional<int> tmax under AutoCastingDescription<int>: a number or a
\* numeric string is stoi'd; an object fails and the optional keeps what
\* it held.  Each top-level "tmax" member is parsed in turn, so the last
\* one that parses wins.  0 stands for an empty optional.
ParsedTmax(payload) ==
    LET i == SelectLastInSeq(payload,
                 LAMBDA m : m.key = "tmax" /\ m.val.kind \in {"num", "str"})
    IN IF i = 0 THEN 0 ELSE payload[i].val.n

-----------------------------------------------------------------------------
(* getResponse and setSeatBid.                                             *)

\* What winningResponse(spotNum) gives for a spot without a valid response.
NoBid == [agent |-> NoAgent, price |-> 0]

\* An Auction::Data: error flag and one response (or NoBid) per spot.
AuctionDatas ==
    [hasError: BOOLEAN,
     responses: [1..Len(ImpIds) -> {NoBid} \cup [agent: Agents, price: Prices]]]

\* Mutant: every spot counts as having a valid response.
hasValidResponseAlways(data, spot) == TRUE

\* Auction::Data::hasValidResponse.
hasValidResponse(data, spot) == data.responses[spot] # NoBid

\* Mutant: setSeatBid takes imp[spotNum].id for the bid id.
setSeatBidPerSpot(seatbid, spot, data) ==
    LET resp == data.responses[spot]
        b == [id |-> <<AuctionId, ImpIds[spot]>>, impid |-> ImpIds[spot],
              cid |-> resp.agent, price |-> resp.price]
    IN IF seatbid = <<>> THEN <<<<b>>>> ELSE [seatbid EXCEPT ![1] = Append(@, b)]

\* Mutant: a new seat is emplaced for every bid.
setSeatBidNewSeat(seatbid, spot, data) ==
    LET resp == data.responses[spot]
        b == [id |-> <<AuctionId, ImpIds[1]>>, impid |-> ImpIds[spot],
              cid |-> resp.agent, price |-> resp.price]
    IN Append(seatbid, <<b>>)

\* setSeatBid: the first seat is created if there is none and a bid is
\* appended to it, its id built from auction.id and imp[0].id.
setSeatBid(seatbid, spot, data) ==
    LET resp == data.responses[spot]
        b == [id |-> <<AuctionId, ImpIds[1]>>, impid |-> ImpIds[spot],
              cid |-> resp.agent, price |-> resp.price]
    IN IF seatbid = <<>> THEN <<<<b>>>> ELSE [seatbid EXCEPT ![1] = Append(@, b)]

\* The loop of getResponse over the spots, in order.
SeatBids(data) ==
    FoldLeft(LAMBDA sb, spot : IF hasValidResponse(data, spot)
                               THEN setSeatBid(sb, spot, data) ELSE sb,
             <<>>, [i \in 1..Len(ImpIds) |-> i])

\* Mutant: the no-content test looks at the responses, not the seat bids.
getResponseByResponses(data) ==
    CASE data.hasError -> [code |-> 400, seatbid |-> <<>>]
      [] Len(ImpIds) = 0 -> [code |-> 204, seatbid |-> <<>>]
      [] OTHER -> [code |-> 200, seatbid |-> SeatBids(data)]

\* getResponse: 400 on an auction error, 204 "none" with no seat bid,
\* else 200 with the printed BidResponse.
getResponse(data) ==
    CASE data.hasError -> [code |-> 400, seatbid |-> <<>>]
      [] SeatBids(data) = <<>> -> [code |-> 204, seatbid |-> <<>>]
      [] OTHER -> [code |-> 200, seatbid |-> SeatBids(data)]

-----------------------------------------------------------------------------
VARIABLES
    phase,          \* where the current HTTP exchange is
    header,         \* its HttpHeader
    payload,        \* its body
    parses,         \* does the OpenRTB parse of the rest of the body succeed
    reqTmax,        \* BidRequest::timeAvailableMs as fromOpenRtb set it (0: unset)
    timeAvailable,  \* what getTimeAvailableMs returned
    auction,        \* the Auction::Data the auction ended with
    response        \* the HttpResponse sent

vars == <<phase, header, payload, parses, reqTmax, timeAvailable, auction, response>>

NoResponse == [code |-> 0, seatbid |-> <<>>]

\* sendErrorResponse of HttpAuctionHandler, and the error response the
\* handler sends when parseBidRequest throws.
ErrorResponse == [code |-> 400, seatbid |-> <<>>]

\* The Auction::Data of an auction that has not ended.
NoAuction == [hasError |-> FALSE, responses |-> [i \in 1..Len(ImpIds) |-> NoBid]]

Init ==
    /\ phase = "idle"
    /\ header \in Headers
    /\ payload = <<>>
    /\ parses = TRUE
    /\ reqTmax = 0
    /\ timeAvailable = 0
    /\ auction = NoAuction
    /\ response = NoResponse

\* A request arrives on the connection; the handler, the BidRequest and
\* the Auction of the previous one are gone.
Receive ==
    /\ phase \in {"idle", "responded"}
    /\ \E h \in Headers, p \in Payloads, ok \in BOOLEAN :
        /\ header' = h
        /\ payload' = p
        /\ parses' = ok
    /\ phase' = "received"
    /\ response' = NoResponse
    /\ reqTmax' = 0
    /\ timeAvailable' = 0
    /\ auction' = NoAuction

\* Mutant: a failed header check returns the empty pointer without
\* calling sendErrorResponse.
ParseBidRequestSilent ==
    /\ phase = "received"
    /\ IF header.contentType = "application/json" /\ header.version = "2.1" /\ parses
       THEN /\ phase' = "parsed"
            /\ reqTmax' = ParsedTmax(payload)
       ELSE /\ phase' = "idle"
            /\ UNCHANGED reqTmax
    /\ UNCHANGED <<header, payload, parses, timeAvailable, auction, response>>

\* OpenRTBExchangeConnector::parseBidRequest: content type, presence and
\* value of x-openrtb-version, then the parser; fromOpenRtb copies tmax.
ParseBidRequest ==
    /\ phase = "received"
    /\ IF header.contentType = "application/json" /\ header.version = "2.1" /\ parses
       THEN /\ phase' = "parsed"
            /\ reqTmax' = ParsedTmax(payload)
            /\ UNCHANGED response
       ELSE /\ phase' = "responded"
            /\ response' = ErrorResponse
            /\ UNCHANGED reqTmax
    /\ UNCHANGED <<header, payload, parses, timeAvailable, auction>>

\* OpenRTBExchangeConnector::getTimeAvailableMs.
GetTimeAvailableMs ==
    /\ phase = "parsed"
    /\ timeAvailable' = getTimeAvailableMs(payload)
    /\ phase' = "auction"
    /\ UNCHANGED <<header, payload, parses, reqTmax, auction, response>>

\* The router runs the auction (outside this tree) and it ends with data.
Auction ==
    /\ phase = "auction"
    /\ \E d \in AuctionDatas : auction' = d
    /\ phase' = "decided"
    /\ UNCHANGED <<header, payload, parses, reqTmax, timeAvailable, response>>

\* The auction is dropped: getDroppedAuctionResponse, 204 "{}".
DropAuction ==
    /\ phase = "auction"
    /\ response' = [code |-> 204, seatbid |-> <<>>]
    /\ phase' = "responded"
    /\ UNCHANGED <<header, payload, parses, reqTmax, timeAvailable, auction>>

\* OpenRTBExchangeConnector::getResponse.
GetResponse ==
    /\ phase = "decided"
    /\ response' = getResponse(auction)
    /\ phase' = "responded"
    /\ UNCHANGED <<header, payload, parses, reqTmax, timeAvailable, auction>>

Handle == ParseBidRequest \/ GetTimeAvailableMs \/ GetResponse

Next == Receive \/ Handle \/ Auction \/ DropAuction

\* A request being handled is handled to the end, and the router always
\* ends an auction, by a decision or by dropping it on its deadline.
Spec == Init /\ [][Next]_vars /\ WF_vars(Handle) /\ WF_vars(Auction \/ DropAuction)

-----------------------------------------------------------------------------
Bids == [id: {AuctionId} \X ToSet(ImpIds), impid: ToSet(ImpIds),
         cid: Agents, price: Prices]

TypeOK ==
    /\ phase \in {"idle", "received", "parsed", "auction", "decided", "responded"}
    /\ header \in Headers
    /\ payload \in Payloads \cup {<<>>}
    /\ parses \in BOOLEAN
    /\ reqTmax \in Nat
    /\ timeAvailable \in Nat
    /\ auction \in AuctionDatas
    /\ response \in [code: {0, 200, 204, 400}, seatbid: Seq(Seq(Bids))]

\* The spots with a valid response, in order.
Winners(data) == SelectSeq([i \in 1..Len(ImpIds) |-> i],
                           LAMBDA spot : data.responses[spot] # NoBid)

\* getResponse answering a decided auction.
Answers == phase = "decided" /\ phase' = "responded"

\* getResponse sends 204 exactly when the auction has no error and no spot
\* with a valid response (spec 4.4: zero winners give "no content", never
\* an empty structure); the test is on the seat bids that setSeatBid built.
NoContentIffNoWinner ==
    [][Answers => (response'.code = 204 <=>
                   ~auction.hasError /\ Winners(auction) = <<>>)]_vars

\* A 200 response of getResponse carries one seat whose bids answer the
\* winning spots in order, each with the impression id of its spot, the
\* winning agent and the price (spec 4.4: one seat grouping, one bid entry
\* per winning impression).
OneBidPerWinner ==
    [][Answers /\ response'.code = 200 =>
         /\ Len(response'.seatbid) = 1
         /\ LET bids == response'.seatbid[1] IN
            /\ Len(bids) = Len(Winners(auction))
            /\ \A k \in 1..Len(bids) :
                 LET spot == Winners(auction)[k] IN
                 /\ bids[k].impid = ImpIds[spot]
                 /\ bids[k].cid = auction.responses[spot].agent
                 /\ bids[k].price = auction.responses[spot].price]_vars

\* Every request the connector receives is answered: the header checks and
\* a failed parse send an error response, a dropped auction a 204, and a
\* decided one the result of getResponse.
EveryRequestAnswered == phase = "received" ~> phase = "responded"

\* The bids of one response have distinct ids (Bid.id, "bidder's bid ID to
\* identify bid", openrtb.h), as built by setSeatBid from the auction id
\* and an impression id.
BidIdsUnique ==
    \A s \in 1..Len(response.seatbid) :
        IsInjective([k \in 1..Len(response.seatbid[s]) |-> response.seatbid[s][k].id])

\* The time available to the auction is the tmax of the request it parsed
\* (spec 4.3: time-available is copied from the request), whenever the
\* request has one: getTimeAvailableMs's text scan agrees with the parse.
TimeAvailableMatchesTmax ==
    phase \in {"auction", "decided"} /\ reqTmax # 0 => timeAvailable = reqTmax
=============================================================================
