SPECIFICATION FairSpec
CONSTANTS
    p1 = p1
    p2 = p2
    c1 = c1
    c2 = c2
    Producers <- TwoProducers
    Consumers <- TwoConsumers
    Items = {1, 2}
    N = 2
    IntMax = 10
    MaxInserts = 5
INVARIANTS MutualExclusion SemaphoresCount LoadedIndexIsCurrent
PROPERTIES ImplementsFIFO EveryItemRemoved
\* the consumers of an empty buffer wait, and the inserts are bounded
CHECK_DEADLOCK FALSE
