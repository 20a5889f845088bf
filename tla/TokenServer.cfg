SPECIFICATION ServerSpec
CONSTANTS
    Callers = {c1, c2}
    Tasks = {t1}
    Nobody = Nobody
    NoToken = NoToken
    Life = 6
    RefreshAhead = 2
    SoonDelay = 1
    IdleDelay = 3
    MaxTime = 14
PROPERTIES
    NeverLapses
CHECK_DEADLOCK FALSE
