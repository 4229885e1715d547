\* A window of four ticks, cleaned up every two, and two events to block.
CONSTANTS
    IPs = {ip1, ip2}
    Nobody = nobody
    Threshold = 2
    Half = 2
    MaxTime = 8
    MaxEvents = 4
SPECIFICATION Spec
SYMMETRY Sym
INVARIANTS
    TypeOK
    TrackerExact
    ForgetsQuiet
PROPERTIES
    WindowExact
