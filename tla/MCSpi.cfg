SPECIFICATION FairSpec
CONSTANTS
    Producers = {w25, epaper}
    Nobody = Nobody
    BufferSize = 4
    Units = {1, 2}
    Limits = {0, 8}
    Sizes = {0, 2}
    InboxSize = 2
    OneAtATime = TRUE
    MaxReads = 3
    MaxWrites = 1
    MaxBytes = 6
    MaxErrors = 1
INVARIANTS TypeOK IngestFaithful
PROPERTIES AckMatchesWire NothingLeftBehind WriteReported WritesShakeHands ReadsShakeHands
CHECK_DEADLOCK FALSE
