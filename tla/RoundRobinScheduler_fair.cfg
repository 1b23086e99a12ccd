CONSTANTS
  Handles = {1, 2}
  ConnectionType <- MCConnectionType
  MaxCredits <- MCOneEach
  MaxFragments = 1
  QueueDepth = 2
  MaxPosted = 1
  Disconnecting = {}
  drop_acl_fragment_on_disconnect = TRUE
SPECIFICATION FairSpec
PROPERTY RoundRobin
CHECK_DEADLOCK FALSE
