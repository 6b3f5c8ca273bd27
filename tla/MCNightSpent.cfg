SPECIFICATION Spec
CONSTANTS
  alice = alice
  bob = bob
  dust_key = dust_key
  dust_nul = dust_nul
  n1 = n1
  n2 = n2
  split = split
  pass = pass
  back = back
  quick = quick
  burn = burn
  lose = lose
  leave = leave
  MaxTime = 3
  Com = {}
  Nul = {}
  TreeSize = 0
  Address = {alice, bob}
  NIGHT = NIGHT
  TokenType = {NIGHT}
  DustKey = {dust_key}
  NoKey = NoKey
  DustNul = {dust_nul}
  Contract = {}
  Data = {}
  EntryPoint = {}
  MaxCounter = 0
  Intent = {split, pass, back, quick, burn, lose, leave}
  Body <- MCBody
  Segment = {1, 2}
  Transactions <- MCTransactions
  NoTx = NoTx
  Nonce = {n1, n2}
  Amount = {2}
  Distributions <- MCDistributions
  CNightNonce = {}
  CNightBatches = {}
  Parameters <- MCParameters
  Genesis <- MCGenesis
  MaxSupply = 2
INVARIANTS SpentNightDecays
