SPECIFICATION FairSpec
CONSTANTS
    Callers = {c1, c2}
    Tasks = {t1}
    Nobody = Nobody
    NoToken = NoToken
    Life = 2
    RefreshAhead = 1
    SoonDelay = 1
    IdleDelay = 1
    MaxTime = 2
PROPERTIES
    NoRedundantExchange
    NeverOlder
    CallsReturn
    CancelledTaskStops
