CONSTANTS
  s1 = s1
  s2 = s2
  ann = ann
  bob = bob
  NoOne = NoOne
  Seats = {s1, s2}
  Players = {ann, bob}
  Driver = "none"
  Faults = {"receipt", "close"}
  MaxFaults = 2
  MaxMoves = 2
SPECIFICATION Spec
CHECK_DEADLOCK FALSE
INVARIANT RetryCanSucceed

