CONSTANTS
  Tx = {"t1"}
  Coinbase = {"cb1"}
  Block = {"g", "a"}
  Ghost = {"gh"}
  nil = "nil"
  DUMMY_HASH = "gh"
  genesisHash = "g"
  BlockReward = 2
  Now = 5
  Previd <- MCPrevid
  Created <- MCCreated
  PoW <- MCPoW
  Txids <- MCTxids
  Inputs <- MCInputs
  Sig <- MCSig
  Outputs <- MCOutputs
  Height <- MCHeight
  Node = {"A", "B"}
  Stream <- Two
  Seed <- SeedG
  Pooled <- Free
  Settled = {"A"}
  EnoughTips = 1
  MaxFaults = 0
  MaxInFlight = 1
SPECIFICATION Spec
PROPERTIES
  SyncDone
