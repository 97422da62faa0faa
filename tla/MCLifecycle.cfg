\* Starts, kills and drained stops with three connections and two hosts.
CONSTANTS
    Conns = {c1, c2, c3}
    Hosts = {a, b}
    NoHost = NoHost
    MaxLeaves = 3
    MaxPairs = 3
SPECIFICATION LifeSpec
INVARIANTS
    LifeTypeOK
    PairMatches
    LeafTrusted
    OneLeafOnceSettled
PROPERTIES
    ShutdownEnds
