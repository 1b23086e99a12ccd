CONSTANTS
  Handles = {1, 2, 3}
  ConnectionType <- MCConnectionType
  MaxCredits <- MCCredits
  MaxFragments = 2
  QueueDepth = 1
  MaxPosted = 1
  Disconnecting = {1, 3}
  drop_acl_fragment_on_disconnect = TRUE
SPECIFICATION Spec
INVARIANTS TypeOK CallbacksFindTheirData OnePacketAtATime CreditsAreFreeBuffers
CHECK_DEADLOCK FALSE
