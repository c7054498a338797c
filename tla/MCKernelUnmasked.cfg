SPECIFICATION Spec
CONSTANTS
    input = input
    high = high
    Tasks = {input, high}
    Idle = Idle
    Priority <- MCPriority
    Values = {event}
    None = None
    Modulus = 4
    Waits = {0, 1, 2}
    Masked = FALSE
    MaxPended = 2
INVARIANT NoLostWakeUp
