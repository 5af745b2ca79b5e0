\* One client, every allocation succeeds, poll timeout 100 ms.
SPECIFICATION Spec
CONSTANTS
    Clients = {c1}
    NumLines = 2
    FdNums = {1, 2, 3}
    InitFaults = {}
    WaitTimeoutMs = 100
    NoOwner = NoOwner
PROPERTIES CleanupEventuallyReturns
