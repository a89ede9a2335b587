CONSTANTS
    Drivers <- MCDrivers
    Values <- MCValues
    Digits = {8}
    Counts = {2}
    MaxPPD = 2
    MaxBitmap = 3
    MaxField = 2
    MaxDots = 12
    MaxPages = 2
    MaxBody = 22
    CommandBytes = 1
SPECIFICATION Spec
INVARIANT TypeOK
INVARIANT DecodedAsDrawn
INVARIANT SamePicture
INVARIANT FieldsFit
