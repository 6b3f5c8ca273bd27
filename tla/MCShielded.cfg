SPECIFICATION Spec
CONSTANTS
  m1 = m1
  m2 = m2
  m3 = m3
  u1 = u1
  u2 = u2
  bad = bad
  alice = alice
  night = night
  MaxTime = 4
  Com = {m1, m2, m3}
  Nul = {u1, u2}
  TreeSize = 2
  Address = {alice}
  NIGHT = night
  TokenType = {night}
  DustKey = {}
  NoKey = NoKey
  DustNul = {}
  Contract = {}
  Data = {}
  EntryPoint = {}
  MaxCounter = 0
  Intent = {bad}
  Body <- MCBody
  Segment = {1, 2}
  Transactions <- MCTransactions
  NoTx = NoTx
  Nonce = {}
  Amount = {}
  Distributions = {}
  CNightNonce = {}
  CNightBatches = {}
  Parameters <- MCParameters
  Genesis <- MCGenesis
  MaxSupply = 1
INVARIANTS FallibleOffersApplicable TreeMatchesSet MapsConsistent FailedLeaveNoTrace
