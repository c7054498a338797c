SPECIFICATION Spec
CONSTANTS
    Producers = {mothership, epaper}
    Nobody = Nobody
    MaxStarts = 2
    MaxLost = 0
PROPERTY OccupiedSlotKept
CHECK_DEADLOCK FALSE
