\* Relay codec on a big-endian host.
CONSTANTS
    HostBigEndian = TRUE
    NULL = NULL
    FAIL = FAIL
SPECIFICATION Spec
INVARIANTS
    RoundTrip
    WireMatchesSpec
    DecodeSound
