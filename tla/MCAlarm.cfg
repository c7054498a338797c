SPECIFICATION FairSpec
CONSTANTS
    bg = bg
    led = led
    sensor = sensor
    e1 = e1
    c1 = c1
    NoActor = NoActor
    NoEvent = NoEvent
    NoThread = NoThread
    Start = Start
    Alarm = Alarm
    Wild = Wild
    Reschedule = Reschedule
    Catchup = Catchup
    Threads <- MCThreads
    Actors <- MCActors
    Events <- MCEvents
    Callers = {c1}
    TickIndexes = {"bg"}
    QueueSize <- MCQueueSize
    TickIndex <- MCTickIndex
    CatchupThread <- MCCatchupThread
    Listeners <- MCListeners
    Target <- MCTarget
    Consumer <- MCConsumer
    Subscribed <- MCSubscribed
    Answers <- MCAnswers
    OwnDelays <- MCOwnDelays
    CallerDelays <- MCCallerDelays
    MaxSleep = 2
    Horizon = 8
    MaxLag = 1
    MaxDeferred = 2
    LastCall = 3
    MaxCalls = 3
INVARIANT SleepBounded
PROPERTY AlarmGoesOff
CHECK_DEADLOCK FALSE
