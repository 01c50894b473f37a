CONSTANTS
    a1 = a1
    a2 = a2
    r1 = r1
    r2 = r2
    ann = ann
    bob = bob
    pay1 = pay1
    pay2 = pay2
    pay3 = pay3
    nobody = nobody
    Callers = {a1, a2}
    Owner = ann
    Members = {bob}
    Docs = {1, 2}
    Permissions = {{}, {"comment"}, {"edit"}}
    MaxRequests = 4
    MaxCrashes = 1
SPECIFICATION AnySpec
CHECK_DEADLOCK FALSE
SYMMETRY Alike
INVARIANTS AllTypesOK HistoryIsKept ChangesAreSafe RecordsAgree
PROPERTIES SavesAreSafe ConversationIsKept StrategiesTakeTurns
