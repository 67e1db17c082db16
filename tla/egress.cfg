SPECIFICATION FairSpec
CONSTANTS
    p1 = p1
    p2 = p2
    h1 = h1
    h2 = h2
    Pkgs = {p1, p2}
    Keys = {h1, h2}
    Protocols = {"TLS", "HTTP"}
    Wants <- MCWants
    MaxEdits = 1
    MaxTroubles = 1
    MaxLate = 1
CHECK_DEADLOCK FALSE
INVARIANTS
    OneProtocol
    LivePackagesHaveEgress
    NothingLeftOver

    
