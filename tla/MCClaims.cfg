SPECIFICATION Spec
CONSTANTS
  alice = alice
  bob = bob
  key1 = key1
  key2 = key2
  n1 = n1
  n2 = n2
  first = first
  second = second
  early = early
  late = late
  MaxTime = 4
  Com = {}
  Nul = {}
  TreeSize = 0
  Address = {alice, bob}
  NIGHT = NIGHT
  TokenType = {NIGHT}
  DustKey = {key1, key2}
  NoKey = NoKey
  DustNul = {}
  Contract = {}
  Data = {}
  EntryPoint = {}
  MaxCounter = 0
  Intent = {first, second, early, late}
  Body <- MCBody
  Segment = {1}
  Transactions <- MCTransactions
  NoTx = NoTx
  Nonce = {n1, n2}
  Amount = {1, 2}
  Distributions <- MCDistributions
  CNightNonce = {}
  CNightBatches = {}
  Parameters <- MCParameters
  Genesis <- MCGenesis
  MaxSupply = 2
PROPERTIES RegisteredNightDecays ClaimsPaidInFull
