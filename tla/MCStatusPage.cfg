SPECIFICATION FairSpec
CONSTANTS
    None = None
    Failed = Failed
    w1 = w1
    Accounts <- MCWatchers
    ContractIds = {}
    TxHashes = {}
    MaxSafe = 10
    MaxDate = 10
    RoundLength = 1
    Null = Null
    Refused = Refused
    Watchers <- MCWatchers
    Threshold = 1
    MaxRound = 1
CHECK_DEADLOCK FALSE
INVARIANTS
    PollingAlive
    RoundIsOne
    OfferIsGrounded
    OwnSettlementClosesOffer
PROPERTIES
    PageCatchesUp
