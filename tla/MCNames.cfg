SPECIFICATION Spec
CONSTANTS
    Upper <- MCUpper
    Invalid <- MCInvalid
    Unfit <- MCUnfit
    BaseSize = 4
    ExtSize = 2
    Capacity = 8
    Radix = 2
    Cases <- MCCases
    MaxErrors = 2
    Part = 2
    NameBuffer = 6
    MaxOrder = 3
    LongNames <- MCLongNames
    Shorts <- MCShorts
    Checksum <- MCChecksum
    DiskCells <- MCDiskCells
    MaxRun = 3
INVARIANTS
    ChosenRight
    NamesReadBack
PROPERTIES
    SearchEnds
