SPECIFICATION FairSystem
CONSTANTS
    FaultKinds = {}
    MaxFaults = 0
    MaxSessions = 1
    Files = {"A", "B"}
    FileDevice <- MCFileDevice
    ERASE_DELAY = 3
    VALIDATION_TIMEOUT = 10
    BLOCK = 8
    INFO = 8
    MAX_FW_LENGTH = 32
    AREA = 40
    DEFAULT_TIMEOUT = 5
    PACKET_BUFFER_LENGTH = 8
    RX_CAPACITY = 7
    SectorStart <- MCSectors
    Images = {"A", "B", "U"}
    Signed = {"A", "B"}
    ForDevice = {"A", "B", "U"}
    ImageLength <- MCImageLength
    HostPackets <- MCHostPackets
    TornErasures <- MCTornErasures
PROPERTY
    AnyLastChunkInstalls
CHECK_DEADLOCK FALSE
