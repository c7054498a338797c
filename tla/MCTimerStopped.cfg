SPECIFICATION FairSpec
CONSTANTS
    spi = spi
    app = app
    screen = screen
    dma = dma
    NoKey = NoKey
    Keys = {spi, app, screen}
    NullTime = 40
    ThreadKeys = {app}
    SlotCount = 2
    Period = 3
    Modulus = 64
    Timeouts = {1, 5}
    Handlers = {dma}
    Threads = {thread}
    thread = thread
    MaxCalls = 3
    MaxLag = 1
    LastCall = 5
    Horizon = 24
INVARIANT PendingMeansRunning
CHECK_DEADLOCK FALSE
