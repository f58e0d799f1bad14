CONSTANTS
    Calls <- AllCalls
    Blocks = {1, 2, 3}
    MaxBlocks = 2
    MaxFaults = 2
    MaxLate = 0
    MaxRemovals = 1
SPECIFICATION FairSpec
INVARIANTS TypeOK AllBlocksMoved
PROPERTIES ImplementsContract RemovalStopsCommands
