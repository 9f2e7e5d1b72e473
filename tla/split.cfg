CONSTANTS
  Tx = {"t1", "t2"}
  Coinbase = {"cb1", "cb2"}
  Block = {"g", "a", "b"}
  Ghost = {"gh"}
  nil = "nil"
  DUMMY_HASH = "gh"
  genesisHash = "g"
  BlockReward = 2
  Now = 5
  Previd <- MCPrevid
  Created <- MCCreated
  PoW <- MCPoW
  Txids <- MCTxids
  Inputs <- MCInputs
  Sig <- MCSig
  Outputs <- MCOutputs
  Height <- MCHeight
  Node = {"A", "B"}
  Stream <- Two
  Seed <- SeedA
  Pooled <- Free
  Settled = {"A", "B"}
  EnoughTips = 0
  MaxFaults = 0
  MaxInFlight = 1
SPECIFICATION Spec
PROPERTIES
  Converged
