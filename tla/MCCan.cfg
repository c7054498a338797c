SPECIFICATION FairSpec
CONSTANTS
    input = input
    high = high
    Empty = Empty
    Done = Done
    Size = 3
    Sync = {1}
    Senders = {input, high}
    Priority <- TwoPriorities
    Owner <- TwoOwners
    MailboxCount = 2
    CountModulus = 16
    MaxSends = 5
    MaxClears = 1
INVARIANTS TypeOK NoMessageLost ServedIfAlone
PROPERTY SentInTheEnd
CHECK_DEADLOCK FALSE
