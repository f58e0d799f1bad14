CONSTANTS
    CardKinds <- AllKinds
    Requests = {"short", "one", "many", "huge", "ragged_huge"}
    SwitchResults = {TRUE, FALSE}
    MaxFaults = 2
    MaxSwaps = 1
    MaxBusy = 1
SPECIFICATION Spec
INVARIANTS TypeOK TransferStateFirst ReadyIsComplete WidthNegotiated
PROPERTY SwapNoticed
