SPECIFICATION TerminalSpec
CONSTANTS
    KBD_BUFFER_SIZE = 3
    INPUT_BUF_SIZE = 2
    Editors = {ed}
    Repl = repl
    MaxSwitches = 1
    NoChar = NoChar
    Keys = {"letter", "enter"}
    VGA_WIDTH = 4
    VGA_HEIGHT = 3
    MaxSent = 1
    MaxEvents = 8
INVARIANTS GetNeverWaits ByteIsNoticed EchoShowsLine
PROPERTIES DeliversInOrder KeysAreRead ImplementsKeyboard
