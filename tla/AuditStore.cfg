\* Five events in a ring of two: the cursor wraps round twice.  No symmetry.
CONSTANTS
    MaxSize = 2
    MaxEvents = 5
    Writers = {a1, a2}
    HasFile = TRUE
    Nobody = nobody
SPECIFICATION FairSpec
INVARIANTS
    TypeOK
    RetainsNewest
    FileComplete
    LinesIntact
PROPERTIES
    RecordReturns
