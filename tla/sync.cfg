CONSTANTS
  Tx = {"t1", "free"}
  Coinbase = {"cb1"}
  Block = {"g", "a"}
  Ghost = {"gh"}
  nil = "nil"
  DUMMY_HASH = "gh"
  genesisHash = "g"
  BlockReward = 2
  Now = 5
  Previd <- MCPrevid
  Created <- MCCreated
  PoW <- MCPoW
  Txids <- MCTxids
  Inputs <- MCInputs
  Sig <- MCSig
  Outputs <- MCOutputs
  Height <- MCHeight
  Node = {"A", "B"}
  Stream <- Two
  Seed <- SeedG
  Pooled <- Free
  Settled = {"A"}
  EnoughTips = 0
  MaxFaults = 1
  MaxInFlight = 1
SPECIFICATION Spec
INVARIANTS
  TypeOK
  OfferBacked
PROPERTIES
  Converged
  SyncDone
