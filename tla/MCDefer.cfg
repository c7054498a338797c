SPECIFICATION FairSpec
CONSTANTS
    input = input
    catchup = catchup
    spi = spi
    e1 = e1
    e2 = e2
    c1 = c1
    c2 = c2
    NoActor = NoActor
    NoEvent = NoEvent
    NoThread = NoThread
    Start = Start
    Alarm = Alarm
    Wild = Wild
    Reschedule = Reschedule
    Catchup = Catchup
    Threads <- MCThreads
    Actors <- MCActors
    Events <- MCEvents
    Callers = {c1, c2}
    TickIndexes = {"input"}
    QueueSize <- MCQueueSize
    TickIndex <- MCTickIndex
    CatchupThread <- MCCatchupThread
    Listeners <- MCListeners
    Target <- MCTarget
    Consumer <- MCConsumer
    Subscribed <- MCSubscribed
    Answers <- MCAnswers
    OwnDelays <- MCOwnDelays
    CallerDelays = {}
    MaxSleep = 1
    Horizon = 1
    MaxLag = 0
    MaxDeferred = 2
    LastCall = 9
    MaxCalls = 2
INVARIANT NoStrandedEvent
CHECK_DEADLOCK FALSE
