CONSTANTS
  Tx = {"t1"}
  Coinbase = {"cb"}
  Block = {"g", "a", "b"}
  Ghost = {"gh"}
  nil = "nil"
  DUMMY_HASH = "gh"
  genesisHash = "g"
  BlockReward = 2
  Now = 5
  Previd <- MCPrevid
  Created <- MCCreated
  PoW <- MCPoW
  Txids <- LineTxids
  Inputs <- MCInputs
  Sig <- MCSig
  Outputs <- MCOutputs
  Height <- MCHeight
  Peers = {p1}
  Wallet = {w}
  Miner = {m}
  CrashEnabled = TRUE
SPECIFICATION NodeSpec
INVARIANTS
  TypeOK
  StoreClosed
  UTXOChained
  TipBacked
  TemplateFresh
PROPERTIES
  UTXOStable
  SerialLedger
