\* Relay codec on a little-endian host: the bytes on the wire.
CONSTANTS
    HostBigEndian = FALSE
    NULL = NULL
    FAIL = FAIL
SPECIFICATION Spec
INVARIANTS
    WireMatchesSpec
