SPECIFICATION Spec
CONSTANTS
    PACKET_BUFFER_LENGTH = 4
    BurstBits = 7
    FewBursts = {1, 73}
    Reads = {1, 18, 19, 40}
    Lines <- MCLines
    Replies <- MCReplies
INVARIANTS
    TypeOK
    NothingByChance
    NothingInvented
    StoredInOrder
PROPERTIES
    PacketSteps
    OnDataSteps
CHECK_DEADLOCK FALSE
