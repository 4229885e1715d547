\* The bounds of the parts are in MCRequestPath.
CONSTANTS
    c1 = c1
    n1 = n1
    n2 = n2
    BucketSetup <- MCBucket
    FleetSetup <- MCFleet
    ScoreSetup <- MCScores
    RateSetup <- MCRates
    LearningSetup <- MCLearning
    ChainSetup <- MCChain
    PolicySetup <- MCPolicy
    QuerySetup <- MCQuery
    PoolSetup <- MCPool
SYMMETRY Sym
SPECIFICATION Spec
INVARIANTS
    TypeOK
    LimitHonoured
    WindowBounded
    ScoresJustified
    LearningSound
    InspectionSound
    QueryFaithful
    PoolSound
CHECK_DEADLOCK FALSE
