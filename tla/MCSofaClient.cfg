SPECIFICATION Spec
CONSTANTS
    Callers = {c1, c2}
    Proxies = {"none", "rotating"}
    Base = 1
    Longest = 2
    Cooloff = 1
    RunCap = 2
    Faults <- Budget
INVARIANTS
    TypeOK
    OpenMeansQuiet
    KeptOnRow
    RouteIsBanked
PROPERTIES
    StandsDown
    Recovers
