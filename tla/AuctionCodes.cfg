CONSTANTS
    Creator = creator
    Acceptors = {buyer1, buyer2}
    Expirers = {sweeper}
    Bids = {offer, listPrice}
    Fallbacks = {listPrice}
    NoBid = NoBid
    NoOne = NoOne
    TTL = 2
    MaxTime = 3
    UnreportedMints = FALSE
    StraddlingReads = FALSE
SPECIFICATION Spec
INVARIANTS AtMostOneLiveCode CodeMatchesStamp
CHECK_DEADLOCK FALSE
SYMMETRY Buyers
