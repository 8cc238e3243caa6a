SPECIFICATION Spec
CONSTANTS
    s1 = s1
    s2 = s2
    Buses = {0, 1}
    PciSlots = {s1, s2}
    Ports = {0}
    DevicePaths <- MCDevicePaths
    Topologies <- MCTopologies
    MaxHops = 2
    NoBus = 255
    AddressSpace = 2
    Buffers = {b1, bh}
    HighBuffers = {bh}
    Data = {d1, d2}
    Blank = d1
    MaxCount = 2
    None = None
INVARIANTS
    BindsBootDisk
    TransfersDone
PROPERTIES
    StoreSpec
    DiskAnswers
CHECK_DEADLOCK FALSE
