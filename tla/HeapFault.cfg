SPECIFICATION Spec
CONSTANTS
    PGSIZE = 512
    Header = 3
    Requests <- KernelRequests
    MaxPages = 6
    WordMod = 536870912
INVARIANT NoFault
\* A page fault stops the machine.
CHECK_DEADLOCK FALSE
