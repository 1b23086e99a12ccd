CONSTANTS
  Addresses = {"a", "b"}
  Connects = {"a"}
  Names = {"b"}
  Incoming = {"b"}
  MaxRequests = 3
  MaxIncoming = 1
  MaxConnectCancels = 1
  MaxNameCancels = 0
  progress_acl_scheduler_upon_incoming_connection = FALSE
SPECIFICATION Spec
CHECK_DEADLOCK FALSE
INVARIANTS
  TypeOK NeverStalls NoConflict  NameRequestsAreSingle ConnectionsAreKnown QuietMeansIdle QueueUnblocked
