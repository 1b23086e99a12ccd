CONSTANTS
  Addresses = {"a", "b"}
  Connects = {"a"}
  Names = {}
  Incoming = {"a"}
  MaxRequests = 2
  MaxIncoming = 1
  MaxConnectCancels = 0
  MaxNameCancels = 0
  progress_acl_scheduler_upon_incoming_connection = FALSE
SPECIFICATION Spec
CHECK_DEADLOCK FALSE
INVARIANT QueueUnblocked
