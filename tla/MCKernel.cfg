SPECIFICATION Spec
CONSTANTS
    Batches <- MCBatches
    Cap = 8
    Lines <- MCLines
    MaxLines = 3
    Behind <- MCBehind
    SizeMod = 256
    Width = 7
    Height = 6
    box_w = 2
    box_h = 1
    Start = 2
    Step = 2
    Shift = 1
    NR_syscalls = 443
    FirstCall = 442
    CallStep = 53
VIEW View
INVARIANTS
    TestsAddUp
    WordsAreLine
    DirectoryIsAsked
    NoTrail
CHECK_DEADLOCK FALSE
