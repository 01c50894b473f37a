CONSTANTS
  s1 = s1
  s2 = s2
  ann = ann
  bob = bob
  NoOne = NoOne
  r1 = r1
  r2 = r2
  a1 = a1
  a2 = a2
  a3 = a3
  NoObject = NoObject
  Seats = {s1, s2}
  Players = {ann, bob}
  Driver = "clock"
  Faults = {"rpc", "receipt", "disk", "crash", "close"}
  MaxFaults = 3
  MaxMoves = 3
SPECIFICATION AnySpec
CHECK_DEADLOCK FALSE
INVARIANTS AllTypesOK AcknowledgedActionsSurvive DealtOnlyLocked PaymentsAreTrue
PROPERTIES RecordGoesForward PaidMatchEnds
