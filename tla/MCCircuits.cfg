SPECIFICATION FairSpec
CONSTANTS
    high = high
    low = low
    lamp = lamp
    pump = pump
    psu = psu
    mains = mains
    NoSupply = NoSupply
    Circuits <- MCCircuits
    Supply <- MCSupply
    Threads = {high, low}
    Priority <- MCPriority
    Duties = {0, 1}
    Counts = {0, 2}
    Modulus = 5
    MaxWrites = 4
INVARIANTS TypeOK ConsumersCounted
PROPERTIES NeverCutOff PowerFollows
CHECK_DEADLOCK FALSE
