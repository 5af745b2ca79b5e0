\* The NRESET and DIO1 requests may fail on any connect; BUSY and NSS are always granted.
CONSTANT FlakyLines = {"rst", "dio1"}
SPECIFICATION Spec
INVARIANT TypeOK
PROPERTY BusSpec
PROPERTY HalCallReturns
