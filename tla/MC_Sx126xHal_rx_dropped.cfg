\* No fault; a downlink may be sent while a received packet waits to be read.
CONSTANTS
    MaxPkts = 2
    Faults = {}
    TxEnable = TRUE
    CntBits = 3
    PollWait = 2
    TcxoUs = 0
    TxOffsets = {1}
    Freqs = {868100}
    Bandwidths = {4}
    Coderates = {1}
    Datarates = {7}
SPECIFICATION Spec
PROPERTY PacketEventuallyReported
