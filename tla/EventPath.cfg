\* Channels of one event, so that they overflow; two connections of the agent.
\* No symmetry.
CONSTANTS
    Events = {e1, e2}
    Sessions = {s1, s2}
    Cap = 1
    Nobody = nobody
SPECIFICATION FairSpec
INVARIANTS
    TypeOK
    NoSendOnClosed
    CountedOnce
    InOrder
    NoSilentLoss
PROPERTIES
    EventuallyCounted
