SPECIFICATION Spec
CONSTANTS
    MAX_PHYS_PAGES = 16
    LastFrame = 44
    Maps <- PcMaps
    KernelPages = 3
    VideoFrame = 14
    PtSpan = 6
    KernBase = 60
    PagesCount = 8
    TablesFrame = 28
    KernTables = 37
    WordSize = 4
    PoolPages = 3
    LowMemory <- ZeroWord
    MaxHeap = 9
    NONE = NONE
INVARIANTS TypeOK InUseIntact Mapped OnlyExhaustionStops LowHalfIsHeap
PROPERTY NeverRegranted
\* PANIC stops the machine.
CHECK_DEADLOCK FALSE
