SPECIFICATION Spec
CONSTANTS
    DATA_STACK_SIZE = 3
    RETURN_STACK_SIZE = 2
    Width = 12
    DICT_VIRT_BASE = 100
    First31 <- Cut
    Length <- NameLengths
    Numerals <- Digits
    NoWord = NoWord
    Line = Line
    Cost <- Costs
    MaxFrames = 4
    DICT_SIZE = 30
    Primitives <- BranchWords
    Names = {"A"}
    BlockText <- NoBlocks
    MaxTyped = 18
    MaxTasks = 1
INVARIANT NextJumps
CHECK_DEADLOCK FALSE
