CONSTANTS
    CardKinds <- NoSwitching
    Requests = {"one", "many"}
    SwitchResults = {TRUE}
    MaxFaults = 1
    MaxSwaps = 1
    MaxBusy = 0
SPECIFICATION FairSpec
PROPERTY Recovers
