CONSTANTS
    Auctions = {a1, a2, a3}
    Names = {"accept", "exit:closed"}
    Tokens = {"bid"}
    Capacity = 2
    TTL = 1
    MaxTime = 2
SPECIFICATION Spec
INVARIANTS Bounded AbsenceTruthful
PROPERTIES StoreKept MintingProtected
CHECK_DEADLOCK FALSE
SYMMETRY Interchangeable
