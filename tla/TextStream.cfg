SPECIFICATION FairSpec
CONSTANTS
    Tools = {t1, t2, t3}
    Wrapped = {t1, t2}
    NoTool = NoTool
    NoReason = NoReason
    Nothing = Nothing
    Text = Text
    Empty = Empty
    MaxInput = 4
INVARIANTS
    WholeOrNothing
    LogMatchesWire
PROPERTIES
    AnthropicProtocol
    StreamEnds
