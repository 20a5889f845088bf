SPECIFICATION Spec
CONSTANTS
    Readers = {r1, r2, r3}
    Writers = {r1, r2, r3}
    Fallback = Fallback
    NoEntry = NoEntry
    Absent = Absent
    Ttl = 2
    MaxFlight = 1
    MaxVersion = 2
    MaxClock = 4
    Sizes = {0, 1, 2}
SYMMETRY Symmetry
INVARIANTS
    LogBounded
    LogOrdered
    KeepsLatest
PROPERTIES
    NoStaleList
