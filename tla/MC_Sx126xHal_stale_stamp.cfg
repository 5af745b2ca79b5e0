\* The DIO1 handler sets irq_fired before it reads the counter.
CONSTANTS
    MaxPkts = 2
    Faults = {}
    TxEnable = TRUE
    CntBits = 3
    PollWait = 2
    TcxoUs = 0
    TxOffsets = {1, 3}
    Freqs = {868100}
    Bandwidths = {4}
    Coderates = {1}
    Datarates = {7}
SPECIFICATION Spec
INVARIANT RxStampNotBeforePacket
