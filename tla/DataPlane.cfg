CONSTANTS
    Requests = {r1, r2}
    w1 = w1
    w2 = w2
    Workers = {w1, w2}
    Inputs <- MCInputs
    HasScorer = TRUE
    HasAudit = TRUE
    HasPublisher = TRUE
SPECIFICATION Spec
SYMMETRY Sym
INVARIANTS
    TypeOK
    FailClosed
    DenialOnRecord
    StatusHonoured
    AuditTruthful
PROPERTIES
    ImplementsGate
