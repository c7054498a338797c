SPECIFICATION FairSpec
CONSTANTS
    Producers = {mothership, epaper}
    Nobody = Nobody
    MaxStarts = 3
    MaxLost = 1
INVARIANTS TypeOK NoStatusWithoutResponse
PROPERTIES ReadFollowsCommand AckContinues RequestsShakeHands
CHECK_DEADLOCK FALSE
