SPECIFICATION Spec
CONSTANTS
    Byte = 3
    PC_size = 2
    PC_max = 9
    Ram = {7, 8, 0, 1, 2}
    Stores = {1}
    Targets = {0, 8}
PROPERTIES
    KeepsStackPromise
