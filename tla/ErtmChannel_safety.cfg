CONSTANTS
  Ends = {"x", "y"}
  Sdus <- SmallSdus
  FirstSeq = 10
  MaxLost <- SmallLost
  MaxEarly = 1
  TxWindows = {3, 6}
  Modulo = 12
  link_xmit_quota = 2
  max_transmit = 3
SPECIFICATION Spec
CHECK_DEADLOCK FALSE
INVARIANTS
  TypeOK
  NoBadFrame
  HoldsAfterSrej
  KeepsUnacknowledged
  RecoversFromLoss
PROPERTY Implements
