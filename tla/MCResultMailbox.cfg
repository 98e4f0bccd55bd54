SPECIFICATION FairSpec
CONSTANTS
    Publishers = {p1, p2}
    Takers = {t1, t2}
    Results = {r1, r2}
    NoResult = NoResult
    MaxPublished = 3
INVARIANTS HandoffInOrder
PROPERTIES ImplementsHandoff CallsReturn TakenUnlessStopped
