SPECIFICATION MCSpec
CONSTANTS
    MaxMishaps = 1
    Stream <- MCStream
    BLOCK = 8
    INFO = 8
    MAX_FW_LENGTH = 32
    AREA = 40
    DEFAULT_TIMEOUT = 1
    PACKET_BUFFER_LENGTH = 2
    RX_CAPACITY = 1
    SectorStart <- MCSectors
    Images <- MCImages
    Signed <- MCSigned
    ForDevice <- MCImages
    ImageLength <- MCImageLength
    HostPackets <- MCHostPackets
    TornErasures <- MCTornErasures
INVARIANTS
    TypeOK
    OnlyIntactImagesRun
    SuccessMeansBootable
    ChunksLandOnErasedFlash
    WritesStayInArea
PROPERTIES
    ImageLostOnlyByErase
    ImplementsUpdateSlot
    SessionsEnd
    BootsWhenLeftAlone
CHECK_DEADLOCK FALSE
