CONSTANTS
    CHUNK_SIZES <- MCChunkSizes
    Cases <- MCCases
SPECIFICATION FairSpec
INVARIANT TypeOK
INVARIANT ConsumedExact
INVARIANT OutcomeStable
INVARIANT SizesCovered
PROPERTY CaseTerminates
