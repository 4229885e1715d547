CONSTANTS
    Requests = {r1}
    w1 = w1
    w2 = w2
    Workers = {w1, w2}
    Inputs <- BigInputs
    HasScorer = TRUE
    HasAudit = TRUE
    HasPublisher = TRUE
SPECIFICATION FairSpec
PROPERTIES
    SendEnds
