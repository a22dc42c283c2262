SPECIFICATION SessionSpec
CONSTANTS
    Points = {1, 2}
    Sources <- ThreeSources
    Weight <- ThreeWeights
    RrfK = 1
    MaxRank = 2
    Quotient <- MCQuotient
    Fuse <- MCFuse
    MaxTopK = 2
    MaxBatch = 1
    Scheduler = "CompetitorCostAware"
    SourceCost <- ThreeCosts
    Fairness = 1
    WarmupInterval = 3
    DrainBudget = 2
    MinInterval = 2
    MaxInterval = 3
    PauseTargets <- ThreeTargets
    MaxCalls = 2
INVARIANTS
    AnswersAreExact
    AnswersAreNested
    SomeSourceToAdvance
    BoundedWait
PROPERTIES
    ImplementsDynamicRrf
    CallsReturn
