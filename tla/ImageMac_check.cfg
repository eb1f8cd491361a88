SPECIFICATION FairCbcSpec
CONSTANTS
    BLOCK = 4
    INFO = 8
    AREA = 28
    Lengths = {17, 18, 19, 20, 25}
    Values <- MCValues
    Flashed <- MCFlashed
    secrete_key <- MCKey
INVARIANTS
    TypeOK
    PaddedImagesAccepted
    OnlySignedAccepted
    ReadsEndWithImage
    KeysExpanded
    DecidesAsIdeal
    MacDecides
PROPERTIES
    Decides
    DecryptionInverts
CHECK_DEADLOCK FALSE
