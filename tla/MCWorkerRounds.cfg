CONSTANTS
  s1 = s1
  s2 = s2
  ann = ann
  bob = bob
  pad = pad
  bot = bot
  key = key
  Actor <- ActorOf
  Owner = ann
  NoOne = NoOne
  Seats = {s1}
  Controllers = {pad, bot}
  Realtime = TRUE
  LateJoin = FALSE
  MinSeats = 1
  Policies = {"automatic", "owner"}
  MaxRounds = 2
  Kinds = {"hold", "win"}
  Faults = {"write", "answer", "takeover", "crash", "throw", "create", "overrun"}
  MaxFaults = 1
  MaxSessions = 1
  MaxActions = 1
  MaxRequests = 2
  Idles = TRUE
  MaxVersion = 3
SPECIFICATION FairSpec
CHECK_DEADLOCK FALSE
INVARIANTS HoldIsCurrent RecordMakesSense
PROPERTIES SavedGoesForward UnattendedEnds
