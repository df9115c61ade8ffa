CONSTANTS
    Creator = creator
    Acceptors = {buyer1, buyer2}
    Expirers = {sweeper}
    Bids = {offer, listPrice}
    Fallbacks = {listPrice}
    NoBid = NoBid
    NoOne = NoOne
    TTL = 2
    MaxTime = 3
    UnreportedMints = TRUE
    StraddlingReads = FALSE
SPECIFICATION Spec
INVARIANT AtMostOneLiveCode
CHECK_DEADLOCK FALSE
SYMMETRY Buyers
