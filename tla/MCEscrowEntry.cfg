CONSTANTS
  m1 = m1
  m2 = m2
  s1 = s1
  s2 = s2
  gov = gov
  ann = ann
  bob = bob
  usd = usd
  n1 = n1
  NoOne = NoOne
  Matches = {m1, m2}
  Seats = {s1, s2}
  Accounts = {gov, ann}
  TokenIds = {usd}
  Nonces = {n1}
  Hashes = {"hash"}
  Governor = gov
  TermsChoices <- entryTerms
  Amounts = {7, 10}
  Officers = {gov}
  Keys = {}
  MaxTime = 1
  MaxDuration = 2
  MaxPool = 20
SPECIFICATION Spec
ACTION_CONSTRAINT QuietGovernance
INVARIANTS Solvent OneSeatEach
PROPERTY EachMatchAsPromised
