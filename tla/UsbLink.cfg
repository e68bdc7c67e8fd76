\* A full-speed device, with payloads that Kconfig allows and that fill the buffers.
CONSTANTS
    Lengths <- MCLengths
    REQ_PAYLOAD_MAX_SIZE = 184
    RESP_PAYLOAD_MAX_SIZE = 188
    SerialLen = 188
    MPS = 64
    IFACE_REQ_HDR_SIZE = 8
    IFACE_RESP_HDR_SIZE = 4
SPECIFICATION FairSpec
INVARIANTS TypeOK ApiAgrees
PROPERTIES ImplementsLink Recovers
