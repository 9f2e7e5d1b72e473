CONSTANTS
  Tx = {"t1", "t2"}
  Coinbase = {"cb"}
  Block = {"g", "a", "b"}
  Ghost = {"gh"}
  nil = "nil"
  DUMMY_HASH = "gh"
  genesisHash = "g"
  BlockReward = 2
  Now = 5
  Previd <- MCPrevid
  Created <- MCCreated
  PoW <- MCPoW
  Txids <- LineTxids
  Inputs <- MCInputs
  Sig <- MCSig
  Outputs <- MCOutputs
  Height <- MCHeight
  Peers = {p1, p2}
  Wallet = {}
  Miner = {}
  CrashEnabled = FALSE
SPECIFICATION NodeSpec
SYMMETRY Symmetry
INVARIANTS
  MempoolConflictFree
CHECK_DEADLOCK FALSE
