SPECIFICATION Spec
CONSTANTS
    Pages <- MCPages
    Images <- MCImages
    ModeLists <- MCModeLists
    MaxAttempts = 2
    MaxEvents = 2
    Machines <- MCMachines
    Limit = 41
    RsdpSize = 2
    Rsdp2Size = 3
    HeaderSize = 2
    MadtSize = 3
    EntrySize = 2
    IoApicSize = 3
    MaxScan = 4
    BusCount = 2
    BusValues = 4
    DeviceCount = 2
    FunctionCount = 3
    Topologies <- MCTopologies
INVARIANTS
    Handover
    FindsHardware
PROPERTIES
    StartupEnds
CHECK_DEADLOCK FALSE
