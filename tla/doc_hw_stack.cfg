SPECIFICATION Spec
CONSTANTS
    Depth = 3
    PC_max = 4
PROPERTIES
    ReturnsToCaller
