SPECIFICATION FairSystem
CONSTANTS
    FaultKinds = {"damage", "loss", "power"}
    MaxFaults = 1
    MaxSessions = 3
    Files = {"A"}
    FileDevice <- MCFileDevice
    ERASE_DELAY = 1
    VALIDATION_TIMEOUT = 4
    BLOCK = 8
    INFO = 8
    MAX_FW_LENGTH = 32
    AREA = 40
    DEFAULT_TIMEOUT = 2
    PACKET_BUFFER_LENGTH = 8
    RX_CAPACITY = 7
    SectorStart <- MCSectors
    Images = {"A", "U"}
    Signed = {"A"}
    ForDevice = {"A", "U"}
    ImageLength <- MCImageLength
    HostPackets <- MCHostPackets
    TornErasures <- MCTornErasures
PROPERTIES
    BootloaderSteps
    UpdaterEnds
    UpdateCompletes
CHECK_DEADLOCK FALSE
