SPECIFICATION Spec
CONSTANTS
    l1 = l1
    l2 = l2
    r1 = r1
    Events <- MCEvents
    IdOf <- MCIdOf
    Frail <- MCFrail
    Library = {l1, l2}
    Reckless = {r1}
    Chunk = 1
    MaxSends = 3
    MaxOutages = 1
INVARIANTS TypeOK ChainIntact CommitsInSeqOrder WalkMissesNothing VerdictTrue AnswersTrue ForkedByReckless
PROPERTIES IsEventLog EveryAppendAnswered
