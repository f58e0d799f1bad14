CONSTANTS
    Ticks = 12
    Usecs <- MCUsecs
    PollGap = 2
SPECIFICATION FairSpec
INVARIANTS TypeOK NeverEarly Prompt
PROPERTY PlainWaitEnds
