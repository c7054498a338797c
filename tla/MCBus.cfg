SPECIFICATION FairSpec
CONSTANTS
    high = high
    spi = spi
    w25 = w25
    e1 = e1
    e2 = e2
    e3 = e3
    c1 = c1
    c2 = c2
    NoActor = NoActor
    NoEvent = NoEvent
    NoThread = NoThread
    Start = Start
    Alarm = Alarm
    Wild = Wild
    Reschedule = Reschedule
    Catchup = Catchup
    Threads <- MCThreads
    Actors <- MCActors
    Events <- MCEvents
    Callers = {c1, c2}
    TickIndexes = {"high"}
    QueueSize <- MCQueueSize
    TickIndex <- MCTickIndex
    CatchupThread <- MCCatchupThread
    Listeners <- MCListeners
    Target <- MCTarget
    Consumer <- MCConsumer
    Subscribed <- MCSubscribed
    Answers <- MCAnswers
    OwnDelays <- MCOwnDelays
    CallerDelays <- MCCallerDelays
    MaxSleep = 1
    Horizon = 0
    MaxLag = 0
    MaxDeferred = 2
    LastCall = 9
    MaxCalls = 2
INVARIANTS TypeOK NoStrandedEvent NoEventLost
PROPERTIES ImplementsBus SettledInTheEnd
CHECK_DEADLOCK FALSE
