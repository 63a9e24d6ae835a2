CONSTANTS
    Lens <- SomeLens
    HaveGetrandom = {TRUE, FALSE}
SPECIFICATION Spec
INVARIANTS TypeOK OkMeansRandom
PROPERTY Returns
CHECK_DEADLOCK FALSE
