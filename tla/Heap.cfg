SPECIFICATION Spec
CONSTANTS
    PGSIZE = 512
    Header = 3
    Requests <- UniformRequests
    MaxPages = 6
    WordMod = 536870912
INVARIANTS TypeOK BlocksDisjoint FreeListExact
\* A page fault stops the machine.
CHECK_DEADLOCK FALSE
