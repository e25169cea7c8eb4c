SPECIFICATION CaptureSpec
CONSTANTS
    Sensors <- MCSensors
    Extents = {0, 400, 1200}
    Rates = {0, 15, 60}
    Offsets <- MCOffsets
    Smallest = 64
    Largest = 1000
    Word = 65536
CONSTRAINT
    TableSound
INVARIANTS
    WindowOnSensor
    ChainAgrees
