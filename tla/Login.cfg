SPECIFICATION FairSpec
CONSTANTS
    None = None
    Interval = 1
    SlowDown = 1
    ExpiresIn = 3
    Prompt = 1
    Late = 1
    MaxCommands = 3
INVARIANTS
    PollsPolitely
    ServesLatest
    LogoutErases
    LoginKept
    InstanceFindable
PROPERTIES
    CommandsEnd
