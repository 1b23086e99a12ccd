CONSTANTS
  Devices = {a, b}
  supports_ble_privacy_ = TRUE
  le_impl_ack_pause_disarmed = TRUE
  improve_create_connection_for_already_connecting_device = TRUE
  address_policy = "USE_RESOLVABLE_ADDRESS"
  ClientOrder <- SmallClientOrder
  Bounds <- SmallBounds
  MaxRequests = 3
SPECIFICATION Spec
SYMMETRY Symmetry
CHECK_DEADLOCK FALSE
INVARIANTS
  TypeOK
  CommandsAreThere
  InitiatorTracked
  OneInitiator
  PausesEnd
  CommandsDrain
  AcceptListKept
  KeepsConnecting
  
