\* An SPI read may fail silently: the IRQ status read over it is garbage.
CONSTANTS
    MaxPkts = 2
    Faults = {"spi_read"}
    TxEnable = TRUE
    CntBits = 3
    PollWait = 2
    TcxoUs = 0
    TxOffsets = {1, 3}
    Freqs = {868100}
    Bandwidths = {4}
    Coderates = {1}
    Datarates = {7}
SPECIFICATION Spec
INVARIANT NoDuplicateReport
