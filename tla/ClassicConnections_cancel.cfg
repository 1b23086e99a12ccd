CONSTANTS
  Addresses = {"a", "b"}
  Connects = {"a"}
  Names = {"a", "b"}
  Incoming = {}
  MaxRequests = 2
  MaxIncoming = 0
  MaxConnectCancels = 0
  MaxNameCancels = 1
  progress_acl_scheduler_upon_incoming_connection = FALSE
SPECIFICATION Spec
CHECK_DEADLOCK FALSE
INVARIANT NameRequestsAreSingle
