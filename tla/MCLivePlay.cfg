CONSTANTS
  w1 = w1
  w2 = w2
  s1 = s1
  drive = drive
  steer = steer
  t1 = t1
  t2 = t2
  t3 = t3
SPECIFICATION Spec
CHECK_DEADLOCK FALSE
INVARIANTS TypeOK DiagnosticsArrive KeysAreTheAgents StrategiesAreAsShown StreamIsTrue TablesAreFreed
PROPERTY LivePlayComesToRest
