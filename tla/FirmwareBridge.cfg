CONSTANTS
  ToHostCap = 2
  MaxTx = 3
  MaxRx = 5
SPECIFICATION FairBridge
INVARIANTS BridgeTypeOK OneFrameOutstanding
PROPERTIES TxCompletes ImplementsRadioPort
