CONSTANTS
  Handles = {1, 2, 3}
  ConnectionType <- MCConnectionType
  MaxCredits <- MCOneEach
  MaxFragments = 2
  QueueDepth = 1
  MaxPosted = 1
  Disconnecting = {}
  drop_acl_fragment_on_disconnect = TRUE
SPECIFICATION FairSpec
INVARIANT NeverIdle
PROPERTY DataMoves
CHECK_DEADLOCK FALSE
