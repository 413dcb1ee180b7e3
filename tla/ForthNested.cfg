SPECIFICATION Spec
CONSTANTS
    DATA_STACK_SIZE = 3
    RETURN_STACK_SIZE = 3
    Width = 12
    DICT_VIRT_BASE = 100
    First31 <- Cut
    Length <- NameLengths
    Numerals <- Digits
    NoWord = NoWord
    Line = Line
    Cost <- Costs
    MaxFrames = 4
    DICT_SIZE = 70
    Primitives <- CallWords
    Names = {"A", "B", "C"}
    BlockText <- Prelude
    MaxTyped = 10
    MaxTasks = 1
INVARIANT IpInWord
CHECK_DEADLOCK FALSE
