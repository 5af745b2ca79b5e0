\* configure_tx may refuse a downlink; no SPI fault; sub-GHz and 2.4 GHz frequencies and bandwidths, some of which start refuses.
CONSTANTS
    MaxPkts = 2
    Faults = {"configure_tx"}
    TxEnable = TRUE
    CntBits = 3
    PollWait = 2
    TcxoUs = 0
    TxOffsets = {1, 3}
    Freqs = {868100, 2400000}
    Bandwidths = {4, 13, 14}
    Coderates = {1}
    Datarates = {6, 7}
SPECIFICATION Spec
INVARIANT RxListensAsConfigured
PROPERTY TxEndsBeforeReturn
PROPERTY RadioEventuallyListens
