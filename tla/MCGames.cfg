CONSTANTS
    Missing = Missing
    NoMove = NoMove
    NoPart = NoPart
    AgentControllers = {bot}
    Human = pad
    NoOne = NoOne
    Lease = 2
    Planning = 1
    Patience = 1
    MaxReviews = 2
    MaxMoves = 1
    MaxHandoffs = 1
    MaxUpsets = 1
    MaxNotes = 1
SPECIFICATION AnySpec
CONSTRAINT NotesApart
CHECK_DEADLOCK FALSE
INVARIANTS RulesAreKept LeasesAreKept
PROPERTIES StrategiesAreCurrent
