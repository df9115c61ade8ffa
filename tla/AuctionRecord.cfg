CONSTANTS
    Creator = creator
    Acceptors = {buyer1, buyer2}
    Expirers = {sweeper}
    Bids = {offer, listPrice}
    Fallbacks = {listPrice}
    NoBid = NoBid
    NoOne = NoOne
    TTL = 2
    MaxTime = 3
    UnreportedMints = TRUE
    StraddlingReads = TRUE
SPECIFICATION Spec
INVARIANTS TypeOK OneOutcome AcceptedAfterClosed NoWedge
PROPERTIES LifecycleKept
CHECK_DEADLOCK FALSE
SYMMETRY Buyers
