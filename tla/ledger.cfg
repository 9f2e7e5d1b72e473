CONSTANTS
  Coinbase = {"cb", "cb2", "cb3", "cb4"}
  Ghost = {"gh"}
  nil = "nil"
  DUMMY_HASH = "gh"
  genesisHash = "g"
  BlockReward = 2
  Now = 5
  Tx <- MCTx
  Block <- MCBlock
  Previd <- MCPrevid
  Created <- MCCreated
  PoW <- MCPoW
  Txids <- MCTxids
  Inputs <- MCInputs
  Sig <- MCSig
  Outputs <- MCOutputs
  Height <- MCHeight
SPECIFICATION Spec
INVARIANTS
  UTXOExact
  NoDoubleSpend
  SupplyBounded
CHECK_DEADLOCK FALSE
