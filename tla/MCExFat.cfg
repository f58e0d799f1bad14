CONSTANTS
    BlockSize = 128
    NumBlocks = 20
    Volumes <- AllVolumes
    Garbage <- Overwritten
    MaxLines = 7
    SizeMod = 2048
    MaxReads = 2
    Paths <- SomePaths
    Names <- SomeNames
    ReadSizes = {4, 256, 300}
SPECIFICATION Spec
INVARIANTS
    TypeOK
    TreeIsPart
    WalkStaysInDirectories
PROPERTIES
    TreeIsWhole
    LsAnswers
    CommandsEnd
CHECK_DEADLOCK FALSE
