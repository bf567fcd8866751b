\* Two paths, of which each may be missing, unreadable, empty, damaged or longer
\* than its channel; options of every kind.
SPECIFICATION FairManifestSpec
CONSTANTS
    NumPaths = 2
    BufferSize = 1
    Files <- MCFiles
    OptionSets <- MCOptionSets
    Modes <- MCModes
    Members = {"known"}
    Resources <- MCResources
    DayLength = 3
    Bad = Bad
    Nil = Nil
INVARIANTS
    PrintsInOrder
PROPERTIES
    PrintsEverything
\* The command ends.
CHECK_DEADLOCK FALSE
