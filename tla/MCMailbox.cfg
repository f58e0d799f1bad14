CONSTANTS
    Buffers = {"b1", "b2", "odd"}
    Misaligned = {"odd"}
    Requests <- OneRequest
    Inputs = {"in"}
    Capacity = 2
    MaxForeign = 1
SPECIFICATION FairSpec
INVARIANTS TypeOK LentWhileWaiting AnswerIsOwn
PROPERTY EveryCallReturns
CHECK_DEADLOCK FALSE
