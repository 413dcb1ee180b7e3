SPECIFICATION Spec
CONSTANTS
    DATA_STACK_SIZE = 3
    RETURN_STACK_SIZE = 3
    Width = 12
    DICT_VIRT_BASE = 100
    First31 <- Cut
    Length <- NameLengths
    Numerals <- Digits
    NoWord = NoWord
    Line = Line
    Cost <- Costs
    MaxFrames = 4
    DICT_SIZE = 140
    Primitives <- AllWords
    Names = {"A", "B", "C", "B+"}
    BlockText <- Prelude
    MaxTyped = 11
    MaxTasks = 2
INVARIANTS PromptClean ThreadedMeaning VisibleTerminated
    FindsItsName PrintedReadsBack
PROPERTY MeaningStable
CHECK_DEADLOCK FALSE
