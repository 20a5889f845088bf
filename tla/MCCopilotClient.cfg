SPECIFICATION Spec
CONSTANTS
    Bodies <- MCBodies
    MaxRetries = 2
    Statuses <- MCStatuses
    ErrorBodies <- MCErrorBodies
    RetryAfter = {0, 7}
    None = None
INVARIANTS
    RetriesJustified
    StatusTellsWhose
    CutIndependent
