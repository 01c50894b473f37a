CONSTANTS
  m1 = m1
  m2 = m2
  s1 = s1
  s2 = s2
  gov = gov
  ann = ann
  bob = bob
  usd = usd
  n1 = n1
  NoOne = NoOne
  Matches = {m1}
  Seats = {s1, s2}
  Accounts = {gov, ann, bob}
  TokenIds = {usd}
  Nonces = {}
  Hashes = {"hash"}
  Governor = gov
  TermsChoices <- poolTerms
  Amounts = {10}
  Officers = {gov}
  Keys = {}
  MaxTime = 2
  MaxDuration = 2
  MaxPool = 30
SPECIFICATION Spec
ACTION_CONSTRAINT QuietGovernance
INVARIANTS TypeOK Solvent EveryShareIsCovered PayoutIsExhausted LockedIsFullyPaid
PROPERTY DecisionIsFinal
