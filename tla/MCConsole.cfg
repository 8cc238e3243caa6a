SPECIFICATION Spec
CONSTANTS
    Chars = {"a", "b"}
    Geometries <- MCGeometries
    Firmware <- MCFirmware
    Capacity = 7
INVARIANTS
    ScreenRight
