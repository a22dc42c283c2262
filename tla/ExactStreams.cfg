SPECIFICATION Spec
CONSTANTS
    NoValue = NoValue
    NonFinite = 3
    MaxResults = {1, 2}
    MaxOffset = 2
    Offsets <- MCOffsets
    Scores = {1, 2}
    RefineBatch = 1
    InternalBatch = 2
    Terms <- MCTerms
    QueryWeight <- MCQueryWeight
    Impacts <- SignedImpacts
    BatchWidth = 2
    Segments <- MCSegments
    Contents <- MCContents
    BatchSize = 2
    Shards <- MCShards
    Streams <- MCStreams
    RefillSize = 2
INVARIANTS
    EnvelopeIsAdmissible
PROPERTIES
    ImplementsExactStream
