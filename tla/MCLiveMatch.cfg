CONSTANTS
    ann = ann
    pad = pad
    bot = bot
    key = key
    NoOne = NoOne
    Pages = {tab}
    OtherClient = other
    NoPage = NoPage
    Nobody = nobody
    MaxSockets = 2
    MaxQueue = 2
    MaxFaults = 2
SPECIFICATION AnySpec
CHECK_DEADLOCK FALSE
INVARIANTS SeatsAreTrue SeatIsPlayed
