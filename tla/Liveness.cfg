\* The bounds of the parts are in the module; no symmetry.
CONSTANTS
    r1 = r1
    r2 = r2
    w1 = w1
    w2 = w2
SPECIFICATION FairSpec
PROPERTIES
    EveryRequestDecided
    HealthFollows
    TermStops
CHECK_DEADLOCK FALSE
