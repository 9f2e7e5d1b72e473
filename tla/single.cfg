CONSTANTS
  Tx = {"t1", "t2", "t3"}
  Coinbase = {"cb"}
  Block = {"g", "a", "b", "c", "d"}
  Ghost = {"gh"}
  nil = "nil"
  DUMMY_HASH = "gh"
  genesisHash = "g"
  BlockReward = 2
  Now = 5
  Previd <- MCPrevid
  Created <- MCCreated
  PoW <- MCPoW
  Txids <- ReorgTxids
  Inputs <- MCInputs
  Sig <- MCSig
  Outputs <- MCOutputs
  Height <- MCHeight
  Peers = {p1}
  Wallet = {}
  Miner = {}
  CrashEnabled = FALSE
SPECIFICATION FairSpec
INVARIANTS
  TipHighest
  NoStranded
  MempoolConflictFree
  SpentCovers
  DiskCovers
  ReorgExact
PROPERTIES
  TipPolicy
  HeaviestAdopted
