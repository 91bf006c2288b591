SPECIFICATION LiveSpec
CONSTANTS
    before = before
    after = after
    first = first
    second = second
    Inputs <- MCInputs
    Salts <- MCSalts
    NumArtifacts = 2
    Modes = {"sequential", "parallel"}
    NoFile = NoFile
    Damaged = Damaged
    MaxDisturbances = 2
    MaxEdits = 2
INVARIANTS
    CompletionVouches
    CompletedUnderOneConfiguration
PROPERTIES
    VerdictMatchesDisk
    ValidCompletionKept
    RefinesPublishedResult
    EventuallyCompleted
