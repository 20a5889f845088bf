SPECIFICATION Spec
CONSTANTS
    Procs = {p1, p2, p3}
    Profiles = {default, work}
    Default = default
    Ports = {port1, port2}
    NoPort = NoPort
    NoProc = NoProc
SYMMETRY Symmetry
INVARIANTS
    OneInstance
    Findable
    StatusTruthful
