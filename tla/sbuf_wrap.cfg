SPECIFICATION Spec
CONSTANTS
    p1 = p1
    p2 = p2
    c1 = c1
    c2 = c2
    Producers <- OneProducer
    Consumers <- TwoConsumers
    Items = {1}
    N = 2
    IntMax = 3
    MaxInserts = 20
INVARIANT IndicesSelectCells
CHECK_DEADLOCK FALSE
