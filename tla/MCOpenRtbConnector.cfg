CONSTANTS
    a1 = a1
    a2 = a2
    NoAgent = NoAgent
    AuctionId = AuctionId
    Headers <- MCHeaders
    Payloads <- MCPayloads
    ImpIds <- MCImpIds
    Agents <- MCAgents
    Prices = {1}
SPECIFICATION Spec
INVARIANT TypeOK
PROPERTY NoContentIffNoWinner
PROPERTY OneBidPerWinner
PROPERTY EveryRequestAnswered
