SPECIFICATION FairSystem
CONSTANTS
    FaultKinds = {"damage"}
    MaxFaults = 1
    MaxSessions = 1
    Files = {"A"}
    FileDevice <- MCFileDevice
    ERASE_DELAY = 3
    VALIDATION_TIMEOUT = 10
    BLOCK = 8
    INFO = 8
    MAX_FW_LENGTH = 32
    AREA = 40
    DEFAULT_TIMEOUT = 5
    PACKET_BUFFER_LENGTH = 8
    RX_CAPACITY = 7
    SectorStart <- MCSectors
    Images = {"A", "U"}
    Signed = {"A"}
    ForDevice = {"A", "U"}
    ImageLength <- MCImageLength
    HostPackets <- MCHostPackets
    TornErasures <- MCTornErasures
PROPERTY
    DamageIsRepaired
CHECK_DEADLOCK FALSE
