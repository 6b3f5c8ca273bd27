SPECIFICATION Spec
CONSTANTS
  alice = alice
  bob = bob
  dust_key = dust_key
  n1 = n1
  n2 = n2
  cnight = cnight
  NIGHT = NIGHT
  MaxTime = 3
  Com = {}
  Nul = {}
  TreeSize = 0
  Address = {alice, bob}
  TokenType = {NIGHT}
  DustKey = {dust_key}
  NoKey = NoKey
  DustNul = {}
  Contract = {}
  Data = {}
  EntryPoint = {}
  MaxCounter = 0
  Intent = {}
  Body = Body
  Segment = {}
  Transactions = {}
  NoTx = NoTx
  Nonce = {n1, n2}
  Amount <- MCAmount
  Distributions <- MCDistributions
  CNightNonce = {cnight}
  CNightBatches <- MCCNightBatches
  Parameters <- MCParameters
  Genesis <- MCGenesis
  MaxSupply <- MCMaxSupply
INVARIANTS TypeOK SystemTxNeverUnbalanced MapsConsistent IndicesBacked
PROPERTIES BridgeTransfersSplit
