SPECIFICATION SystemSpec
CONSTANTS
    FaultKinds = {"damage", "loss", "power"}
    MaxFaults = 2
    MaxSessions = 3
    Files = {"A", "C"}
    FileDevice <- MCFileDevice
    ERASE_DELAY = 1
    VALIDATION_TIMEOUT = 4
    BLOCK = 8
    INFO = 8
    MAX_FW_LENGTH = 32
    AREA = 40
    DEFAULT_TIMEOUT = 2
    PACKET_BUFFER_LENGTH = 8
    RX_CAPACITY = 7
    SectorStart <- MCSectors
    Images = {"A", "C"}
    Signed = {"A", "C"}
    ForDevice = {"A", "C"}
    ImageLength <- MCImageLength
    HostPackets <- MCHostPackets
    TornErasures <- MCTornErasures
INVARIANTS
    SuccessMeansInstalled
    BufferNeverFull
CHECK_DEADLOCK FALSE
