SPECIFICATION FairSpec
CONSTANTS
    input = input
    high = high
    Tasks = {input, high}
    Idle = Idle
    Priority <- MCPriority
    Values = {event}
    None = None
    Modulus = 5
    Waits = {0, 1, 3}
    Masked = TRUE
    MaxPended = 2
INVARIANTS TypeOK NoLostWakeUp HighestRuns ListsMatchTime
PROPERTIES EverySleepEnds WakesInTime
