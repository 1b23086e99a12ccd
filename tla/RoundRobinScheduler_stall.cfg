CONSTANTS
  Handles = {1, 2}
  ConnectionType <- MCConnectionType
  MaxCredits <- MCCredits
  MaxFragments = 2
  QueueDepth = 1
  MaxPosted = 1
  Disconnecting = {1}
  drop_acl_fragment_on_disconnect = TRUE
SPECIFICATION Spec
PROPERTY RestartsAfterReclaim
CHECK_DEADLOCK FALSE
