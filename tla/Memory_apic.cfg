\* The processor that boots has an APIC id other than 0.
SPECIFICATION Spec
CONSTANTS
    PAGE_SIZE = 4
    ENTRY_COUNT = 4
    MaxPage = 63
    Boots <- MCBoots
    BootMapped <- MCBootMapped
    BootTables <- MCBootTables
    VGA = 44
    TMP_PAGE = 50
    HEAP_START = 160
    HEAP_SIZE = 8
    CODE_PTR = 8
    STACK_PTR = 24
    STACK_SIZE = 4
    USER_HEAP_PTR = 48
    USER_HEAP_SIZE = 4
    CPUS = 2
    None = None
INVARIANTS
    KeysReachTheKernel
CHECK_DEADLOCK FALSE
