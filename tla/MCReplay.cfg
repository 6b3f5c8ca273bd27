SPECIFICATION Spec
CONSTANTS
  con = con
  d0 = d0
  dep = dep
  mint = mint
  move = move
  alice = alice
  night = night
  tok = tok
  MaxTime = 4
  Com = {}
  Nul = {}
  TreeSize = 0
  Address = {alice}
  NIGHT = night
  TokenType = {night, tok}
  DustKey = {}
  NoKey = NoKey
  DustNul = {}
  Contract = {con}
  Data = {d0}
  EntryPoint = {}
  MaxCounter = 0
  Intent = {dep, mint, move}
  Body <- MCBody
  Segment = {1, 2}
  Transactions <- MCTransactions
  NoTx = NoTx
  Nonce = {}
  Amount = {}
  Distributions = {}
  CNightNonce = {}
  CNightBatches = {}
  Parameters <- MCParameters
  Genesis <- MCGenesis
  MaxSupply = 4
INVARIANTS ReplayInv FreshOutputs NoResurrection
PROPERTIES HistorySpec
