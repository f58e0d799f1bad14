CONSTANTS
    Screen <- SmallScreen
    Boot <- SomeBoot
    Longest = 2
    LastRow = 5
    Colors = {"plain", "red"}
SPECIFICATION Spec
INVARIANTS TypeOK StaysInside RowsBelow
PROPERTY ShowsLastLines
