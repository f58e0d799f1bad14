CONSTANTS
    Chunks = {c1, c2, c3, c4}
    ChunkSizes = {16, 17, 18, 19, 20, 22, 23, 33}
    LargeAsked <- SomeLarge
    SmallAsked <- SomeSmall
    SizeMod = 16
    CharMod = 16
    ShortMod = 64
    IntMod = 512
    LongMod = 1024
    Width = 10
    Memories <- SmallMemories
    Texts <- ShortTexts
    Numbers <- SomeNumbers
    Rates <- SomeRates
    Pieces <- SomePieces
SYMMETRY AnyChunks
SPECIFICATION Spec
INVARIANTS
    BestFitFound
    FunctionsRight
CHECK_DEADLOCK FALSE
