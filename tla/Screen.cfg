SPECIFICATION Spec
CONSTANTS
    MAX_ROWS = 3
    MAX_COLS = 3
    Byte = 8
    Second = 2
    StackSize = 2
INVARIANTS TypeOK AttemptMarked
PROPERTY ScreenIsTerminal
\* PANIC stops the machine.
CHECK_DEADLOCK FALSE
