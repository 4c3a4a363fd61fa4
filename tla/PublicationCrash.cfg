SPECIFICATION Spec
CONSTANTS
    Group = 2
    Foreign <- AnyTaken
    Fails = {TRUE}
    Renames = {TRUE}
    MaxRestarts = 3
INVARIANTS
    DataAlwaysNamed
    ManifestVouches
    PublicationSound
PROPERTIES
    FinalNamesKept
CHECK_DEADLOCK FALSE
