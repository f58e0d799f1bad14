CONSTANTS
    CardKinds <- NoSwitching
    Requests = {"one", "many"}
    SwitchResults = {TRUE}
    MaxFaults = 1
    MaxSwaps = 0
    MaxBusy = 0
SPECIFICATION Spec
INVARIANT DeviceKept
