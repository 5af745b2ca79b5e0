\* Two clients; the callbacks calloc of gpio_init may fail.
SPECIFICATION Spec
CONSTANTS
    Clients = {c1, c2}
    NumLines = 2
    FdNums = {1, 2, 3}
    InitFaults = {"callbacks"}
    WaitTimeoutMs = 100
    NoOwner = NoOwner
INVARIANT NoNullDeref
