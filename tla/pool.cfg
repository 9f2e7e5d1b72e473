CONSTANTS
  Tx = {"t1", "t2"}
  Coinbase = {"cb"}
  Block = {"g", "a", "c", "d", "o", "q"}
  Ghost = {"gh"}
  nil = "nil"
  DUMMY_HASH = "gh"
  genesisHash = "g"
  BlockReward = 2
  Now = 5
  Previd <- MCPrevid
  Created <- MCCreated
  PoW <- MCPoW
  Txids <- PoolTxids
  Inputs <- MCInputs
  Sig <- MCSig
  Outputs <- MCOutputs
  Height <- MCHeight
  Peers = {p1}
  Wallet = {}
  Miner = {}
  CrashEnabled = FALSE
SPECIFICATION NodeSpec
INVARIANTS
  MempoolActive
PROPERTIES
  EvictOnlyDead
CHECK_DEADLOCK FALSE
