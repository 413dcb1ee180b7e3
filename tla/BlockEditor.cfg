SPECIFICATION Spec
CONSTANTS
    Blocks = {b1, b2, b3}
    NoBlock = NoBlock
    NUM_BUFFERS = 2
    Values = {v0, v1}
    Zero = v0
    Clients = {c1, c2}
    Nobody = Nobody
    MaxTicks = 0
    MaxStores = 1
    MaxCrashes = 0
SYMMETRY Symmetry
PROPERTIES
    EscSaves
CHECK_DEADLOCK FALSE
