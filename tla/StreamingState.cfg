SPECIFICATION FairSpec
CONSTANTS
    Tools = {t1, t2}
    NoTool = NoTool
    NoReason = NoReason
    MaxInput = 8
    Interleaving = FALSE
INVARIANTS
    TruncatedNeverSent
    LogMatchesWire
PROPERTIES
    AnthropicProtocol
    ReleasedWhenComplete
    EveryCallResolved
    StreamEnds
