CONSTANTS
    MaxDevices = 2
    Order <- MCOrder
    VidPid <- MCVidPid
    Ids = {1, 2, 3}
    MaxUrbs = 2
    MaxHandles = 4
SPECIFICATION Spec
INVARIANT TypeOK
