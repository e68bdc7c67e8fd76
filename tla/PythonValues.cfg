\* The default sizes of Kconfig, with requests of one packet.
CONSTANTS
    Lengths = {0, 1, 8}
    REQ_PAYLOAD_MAX_SIZE = 128
    RESP_PAYLOAD_MAX_SIZE = 128
    SerialLen = 5
    MPS = 64
    IFACE_REQ_HDR_SIZE = 8
    IFACE_RESP_HDR_SIZE = 4
SPECIFICATION FairSpec
INVARIANT PythonMeansIt
