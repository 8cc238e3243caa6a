SPECIFICATION Spec
CONSTANTS
    Keys <- MCKeys
    Translate <- MCTranslate
    Bytes = {"b", "CR", "DEL"}
    Capacity = 2
    MaxKeyEvents = 3
    MaxBytes = 1
INVARIANTS
    KeysInOrder
PROPERTIES
    InputServed
