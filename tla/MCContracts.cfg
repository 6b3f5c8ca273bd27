SPECIFICATION Spec
CONSTANTS
  con = con
  d0 = d0
  d1 = d1
  ep = ep
  alice = alice
  night = night
  tok = tok
  n1 = n1
  n2 = n2
  dep = dep
  put = put
  swap = swap
  pay = pay
  keep = keep
  fix = fix
  grab = grab
  half = half
  fake = fake
  MaxTime = 1
  Com = {}
  Nul = {}
  TreeSize = 0
  Address = {alice}
  NIGHT = night
  TokenType = {night, tok}
  DustKey = {}
  NoKey = NoKey
  DustNul = {}
  Contract = {con}
  Data = {d0, d1}
  EntryPoint = {ep}
  MaxCounter = 1
  Intent = {dep, put, swap, keep, pay, grab, fix, half, fake}
  Body <- MCBody
  Segment = {1, 2}
  Transactions <- MCTransactions
  NoTx = NoTx
  Nonce = {n1, n2}
  Amount = {1}
  Distributions <- MCDistributions
  CNightNonce = {}
  CNightBatches = {}
  Parameters <- MCParameters
  Genesis <- MCGenesis
  MaxSupply = 1
INVARIANTS NoInflation BalancedSectionsPass FailedLeaveNoTrace
