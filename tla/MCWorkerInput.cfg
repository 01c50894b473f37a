CONSTANTS
  s1 = s1
  s2 = s2
  ann = ann
  bob = bob
  pad = pad
  bot = bot
  key = key
  Actor <- ActorOf
  Owner = ann
  NoOne = NoOne
  Seats = {s1}
  Controllers = {bot}
  Realtime = FALSE
  LateJoin = FALSE
  MinSeats = 1
  Policies = {"automatic"}
  MaxRounds = 1
  Kinds = {"hold"}
  Faults = {}
  MaxFaults = 0
  MaxSessions = 1
  MaxActions = 1
  MaxRequests = 2
  Idles = FALSE
  MaxVersion = 4
SPECIFICATION Spec
CHECK_DEADLOCK FALSE
INVARIANT InputIsReleased
