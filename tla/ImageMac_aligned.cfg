SPECIFICATION CbcSpec
CONSTANTS
    BLOCK = 4
    INFO = 8
    AREA = 28
    Lengths = {17, 20, 24}
    Values <- MCValues
    Flashed <- MCFlashed
    secrete_key <- MCKey
INVARIANT
    SignedImagesAccepted
CHECK_DEADLOCK FALSE
