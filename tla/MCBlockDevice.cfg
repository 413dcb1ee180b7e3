SPECIFICATION Spec
CONSTANTS
    Blocks = {b1, b2, b3}
    NoBlock = NoBlock
    NUM_BUFFERS = 2
    Values = {v0, v1}
    Zero = v0
    Clients = {c1, c2}
    Nobody = Nobody
    MaxTicks = 1
    MaxStores = 1
    MaxCrashes = 1
SYMMETRY Symmetry
INVARIANTS
    NoDuplicate
    PromiseKept
    TornDetected
PROPERTIES
    RecentEvictedOnlyOnTie
    EditorSaves
    ImplementsStore
CHECK_DEADLOCK FALSE
