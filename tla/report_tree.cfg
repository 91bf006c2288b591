SPECIFICATION LiveSpec
CONSTANTS
    NoTree = NoTree
    Partial = Partial
    MaxVersions = 2
    MaxMishaps = 2
INVARIANTS
    ExportSurvivesOneMishap
PROPERTIES
    ExportedAsRendered
    EventuallyPublished
