CONSTANTS
    Requests = {r1}
    w1 = w1
    w2 = w2
    Workers = {w1, w2}
    Inputs <- SmallInputs
    HasScorer = TRUE
    HasAudit = TRUE
    HasPublisher = TRUE
SPECIFICATION Spec
PROPERTIES
    FailOpenOnlyWhenDown
