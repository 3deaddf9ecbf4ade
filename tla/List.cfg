SPECIFICATION Spec
CONSTANTS
    t1 = t1
    t2 = t2
    t3 = t3
    PANIC = PANIC
    Data <- Pointers
    Fresh <- ZeroedMemory
    Ops <- QueueOrStack
    MaxElems = 5
INVARIANTS TypeOK Linked HeapHeaderIntact
PROPERTY ListIsQueue
\* PANIC stops the machine.
CHECK_DEADLOCK FALSE
