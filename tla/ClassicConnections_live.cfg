CONSTANTS
  Addresses = {"a", "b"}
  Connects = {"a"}
  Names = {"b"}
  Incoming = {"b"}
  MaxRequests = 2
  MaxIncoming = 1
  MaxConnectCancels = 0
  MaxNameCancels = 1
  progress_acl_scheduler_upon_incoming_connection = FALSE
SPECIFICATION FairSpec
CHECK_DEADLOCK FALSE
PROPERTY ComesToRest
