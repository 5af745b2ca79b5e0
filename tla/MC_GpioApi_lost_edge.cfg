\* One client; edges raised and callbacks registered in any order.
SPECIFICATION Spec
CONSTANTS
    Clients = {c1}
    NumLines = 2
    FdNums = {1, 2, 3}
    InitFaults = {}
    WaitTimeoutMs = 100
    NoOwner = NoOwner
PROPERTY EdgeEventuallyDelivered
