\* ufw, one address and one call.
CONSTANTS
    Backend = "ufw"
    IPs = {"10.0.0.1"}
    ManagedPorts = {}
    BlockList = {}
    DefaultIn = "accept"
    MaxRules = 2
    Calls = {c1}
    TTL = 1
    MaxTime = 3
SPECIFICATION Spec
INVARIANTS
    ExpiredIsLifted
