CONSTANTS
    CHUNK_SIZES <- MCChunkSizes
    Cases <- MCOracleCases
SPECIFICATION Spec
INVARIANT BlockExpectationSound
