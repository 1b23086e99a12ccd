--------------------------- MODULE LeConnections ---------------------------
(***************************************************************************)
(* LE connections, scanning and the address manager together, with the     *)
(* controller they share.                                                  *)
(*                                                                         *)
(* Clients and controller are external.  tasks_["hci"] holds the commands  *)
(* the HCI layer has not delivered; it delivers them in order, and posts   *)
(* the events to the handler in order.                                     *)
(***************************************************************************)
EXTENDS LeAddressManager

CONSTANTS Devices,
          Bounds,       \* how often each of Kinds may happen
          MaxRequests   \* and how many of them altogether

\* What clients, alarms, peers and the controller do at will: clients connect to
\* devices, cancel, start and stop scans and change the resolving list, direct
\* connections time out, the random address is rotated or its IRK changed, peers
\* connect, links go down and the controller refuses or fails to connect.
Kinds == {"connect", "cancel", "scan", "stop", "resolve", "timeout", "rotate",
          "incoming", "disconnect", "refuse"}

ASSUME BoundsAssumption ==
  /\ Bounds \in [Kinds -> Nat]
  /\ MaxRequests \in Nat

VARIABLES
  ctl_initiating,   \* the controller is connecting to the devices of its accept list
  ctl_scanning,
  ctl_accept_list,
  ctl_address,      \* its random address
  ctl_links,
  used, requests    \* history: how often each of Kinds has happened, and all of them

ctlVars == <<ctl_initiating, ctl_scanning, ctl_accept_list, ctl_address, ctl_links>>
countVars == <<used, requests>>
vars == <<tasks_, aborted, am_, le_, scan_, ctlVars, countVars>>

\* One more of these things happens, after the policy has been set.
Use(kind) ==
  /\ am_.address_policy_ # "POLICY_NOT_SET"
  /\ used[kind] < Bounds[kind]
  /\ requests < MaxRequests
  /\ used' = [used EXCEPT ![kind] = @ + 1]
  /\ requests' = requests + 1

\* The policy is set before anything else is asked for.
Init ==
  /\ tasks_ = [acl |-> <<Bound("acl", "SetPrivacyPolicyForInitiatorAddress",
                               address_policy)>>,
               hci |-> <<>>]
  /\ aborted = "none"
  /\ am_ = InitAm
  /\ le_ = InitLe
  /\ scan_ = InitScan
  /\ ctl_initiating = FALSE
  /\ ctl_scanning = FALSE
  /\ ctl_accept_list = {}
  /\ ctl_address = 0
  /\ ctl_links = {}
  /\ used = [kind \in Kinds |-> 0]
  /\ requests = 0
-----------------------------------------------------------------------------
(***************************************************************************)
(* Clients, whose calls of AclManager are posted to its handler, and       *)
(* alarms, which call their function.                                      *)
(***************************************************************************)

Request(cs) ==
  /\ aborted = "none"
  /\ tasks_' = Post(tasks_, cs)
  /\ UNCHANGED <<aborted, am_, le_, scan_, ctlVars>>

CreateLeConnection(a, is_direct) ==
  /\ Use("connect")
  /\ Request((IF is_direct THEN <<>>
              ELSE <<Bound("acl", "add_device_to_background_connection_list", a)>>)
             \o <<Bound("acl", "create_le_connection",
                        [address |-> a, add |-> TRUE, direct |-> is_direct])>>)

CancelLeConnect(a) ==
  /\ Use("cancel")
  /\ Request(<<Bound("acl", "remove_device_from_background_connection_list", a),
               Bound("acl", "cancel_connect", a)>>)

ClearAcceptList ==
  /\ Use("cancel")
  /\ Request(<<Bound("acl", "clear_filter_accept_list", "kEmpty")>>)

ChangeResolvingList(fn) ==
  /\ Use("resolve")
  /\ Request(<<Bound("acl", fn, "kEmpty")>>)

\* A new IRK.
SetPrivacyPolicy ==
  /\ Use("rotate")
  /\ Request(<<Bound("acl", "SetPrivacyPolicyForInitiatorAddress", address_policy)>>)

Scan(start) ==
  /\ Use(IF start THEN "scan" ELSE "stop")
  /\ Called(scan(Host, start))
  /\ UNCHANGED ctlVars

RotationAlarm ==
  /\ am_.address_rotation_alarm_
  /\ Use("rotate")
  /\ Called(prepare_to_rotate(Host))
  /\ UNCHANGED ctlVars

ConnectionAlarm(a) ==
  /\ a \in le_.direct_connections_
  /\ Use("timeout")
  /\ Called(on_create_connection_timeout(Host, a))
  /\ UNCHANGED ctlVars
-----------------------------------------------------------------------------
\* What the closure c of the ACL manager's handler does.
Run(s, c) ==
  CASE c.fn = "SetPrivacyPolicyForInitiatorAddress" ->
         SetPrivacyPolicyForInitiatorAddress(s, c.arg)
    [] c.fn = "prepare_to_update_irk" -> prepare_to_update_irk(s)
    [] c.fn = "enqueue_command" -> PostTo(s, "hci", c.arg.type, c.arg.address)
    [] c.fn = "register_client" -> register_client(s, c.arg)
    [] c.fn = "unregister_client" -> unregister_client(s, c.arg)
    [] c.fn = "ack_pause" -> ack_pause(s, c.arg)
    [] c.fn = "ack_resume" -> ack_resume(s, c.arg)
    [] c.fn = "push_command" -> push_command(s, c.arg)
    [] c.fn = "pause_registered_clients" -> pause_registered_clients(s)
    [] c.fn = "resume_registered_clients" -> resume_registered_clients(s)
    [] c.fn = "handle_next_command" -> handle_next_command(s)
    [] c.fn = "check_cached_commands" -> check_cached_commands(s)
    [] c.fn = "OnCommandComplete" -> OnCommandComplete(s, c.arg.command, c.arg.ok)
    [] c.fn = "add_device_to_background_connection_list" ->
         add_device_to_background_connection_list(s, c.arg)
    [] c.fn = "remove_device_from_background_connection_list" ->
         remove_device_from_background_connection_list(s, c.arg)
    [] c.fn = "create_le_connection" ->
         create_le_connection(s, c.arg.address, c.arg.add, c.arg.direct)
    [] c.fn = "cancel_connect" -> cancel_connect(s, c.arg)
    [] c.fn = "clear_filter_accept_list" -> clear_filter_accept_list(s)
    [] c.fn = "add_device_to_resolving_list" -> add_device_to_resolving_list(s, c.arg)
    [] c.fn = "remove_device_from_resolving_list" ->
         remove_device_from_resolving_list(s, c.arg)
    [] c.fn = "clear_resolving_list" -> ClearResolvingList(s)
    [] c.fn = "arm_connectability" -> arm_connectability(s)
    [] c.fn = "on_create_connection" ->
         update_connectability_state_after_armed(s, c.arg)
    [] c.fn = "on_create_connection_cancel_complete" ->
         on_create_connection_cancel_complete(s, c.arg)
    [] c.fn = "central_connection_complete" ->
         central_connection_complete(s, c.arg.address, c.arg.status)
    [] c.fn = "peripheral_connection_complete" -> peripheral_connection_complete(s, c.arg)
    [] c.fn = "on_le_disconnect" -> on_le_disconnect(s, c.arg)

RunAclManager ==
  /\ aborted = "none"
  /\ tasks_["acl"] # <<>>
  /\ Returns("acl", Run(Host, Front("acl")))
  /\ UNCHANGED <<ctlVars, countVars>>
-----------------------------------------------------------------------------
(***************************************************************************)
(* The controller.                                                         *)
(***************************************************************************)

CommandComplete(command, ok) ==
  <<Bound("acl", "OnCommandComplete", [command |-> command, ok |-> ok])>>

CentralComplete(a, status) ==
  <<Bound("acl", "central_connection_complete", [address |-> a, status |-> status])>>

\* Refused at will, and while another one is under way.
ctl_create_connection ==
  /\ UNCHANGED <<ctl_scanning, ctl_accept_list, ctl_address, ctl_links>>
  /\ \/ /\ ~ctl_initiating
        /\ ctl_initiating' = TRUE
        /\ handle_next_event("hci", <<Bound("acl", "on_create_connection", TRUE)>>)
        /\ UNCHANGED countVars
     \/ /\ IF ctl_initiating THEN UNCHANGED countVars ELSE Use("refuse")
        /\ handle_next_event("hci", <<Bound("acl", "on_create_connection", FALSE)>>)
        /\ UNCHANGED ctl_initiating

\* The Create Connection is completed with UNKNOWN_CONNECTION, if there is one.
ctl_create_connection_cancel ==
  /\ ctl_initiating' = FALSE
  /\ handle_next_event("hci",
       <<Bound("acl", "on_create_connection_cancel_complete", ctl_initiating)>>
       \o (IF ctl_initiating THEN CentralComplete("kEmpty", "UNKNOWN_CONNECTION")
           ELSE <<>>))
  /\ UNCHANGED <<ctl_scanning, ctl_accept_list, ctl_address, ctl_links, countVars>>

\* The accept list cannot be changed while it is in use.
AcceptListAfter(c) ==
  CASE c.fn = "LE_ADD_DEVICE_TO_FILTER_ACCEPT_LIST" -> ctl_accept_list \cup {c.arg}
    [] c.fn = "LE_REMOVE_DEVICE_FROM_FILTER_ACCEPT_LIST" -> ctl_accept_list \ {c.arg}
    [] c.fn = "LE_CLEAR_FILTER_ACCEPT_LIST" -> {}

AcceptListCommands == {"LE_ADD_DEVICE_TO_FILTER_ACCEPT_LIST",
  "LE_REMOVE_DEVICE_FROM_FILTER_ACCEPT_LIST", "LE_CLEAR_FILTER_ACCEPT_LIST"}
ResolvingCommands == {"DISABLE_ADDRESS_RESOLUTION", "ENABLE_ADDRESS_RESOLUTION",
  "LE_ADD_DEVICE_TO_RESOLVING_LIST", "LE_REMOVE_DEVICE_FROM_RESOLVING_LIST",
  "LE_CLEAR_RESOLVING_LIST", "LE_SET_PRIVACY_MODE"}

ctl_change_accept_list(c) ==
  /\ ctl_accept_list' = IF ctl_initiating THEN ctl_accept_list ELSE AcceptListAfter(c)
  /\ handle_next_event("hci", CommandComplete(c.fn, ~ctl_initiating))
  /\ UNCHANGED <<ctl_initiating, ctl_scanning, ctl_address, ctl_links, countVars>>

\* The address, and the resolving list, cannot be changed while they are in use.
InUse == ctl_initiating \/ ctl_scanning

ctl_set_random_address(c) ==
  /\ ctl_address' = IF InUse THEN ctl_address ELSE c.arg
  /\ handle_next_event("hci", CommandComplete(c.fn, ~InUse))
  /\ UNCHANGED <<ctl_initiating, ctl_scanning, ctl_accept_list, ctl_links, countVars>>

ctl_change_resolving_list(c) ==
  /\ handle_next_event("hci", CommandComplete(c.fn, ~InUse))
  /\ UNCHANGED <<ctlVars, countVars>>

ctl_set_scan_enable(c) ==
  /\ ctl_scanning' = c.arg
  /\ handle_next_event("hci", <<>>)
  /\ UNCHANGED <<ctl_initiating, ctl_accept_list, ctl_address, ctl_links, countVars>>

\* The controller takes the next command.
ctl_command ==
  LET c == Front("hci")
  IN  /\ aborted = "none"
      /\ tasks_["hci"] # <<>>
      /\ \/ c.fn = "LE_CREATE_CONNECTION" /\ ctl_create_connection
         \/ c.fn = "LE_CREATE_CONNECTION_CANCEL" /\ ctl_create_connection_cancel
         \/ c.fn \in AcceptListCommands /\ ctl_change_accept_list(c)
         \/ c.fn \in ResolvingCommands /\ ctl_change_resolving_list(c)
         \/ c.fn = "LE_SET_RANDOM_ADDRESS" /\ ctl_set_random_address(c)
         \/ c.fn = "LE_SET_SCAN_ENABLE" /\ ctl_set_scan_enable(c)
      /\ UNCHANGED <<am_, le_, scan_>>

ctl_event(cs) ==
  /\ aborted = "none"
  /\ tasks_' = Post(tasks_, cs)
  /\ UNCHANGED <<aborted, am_, le_, scan_, ctl_scanning, ctl_accept_list, ctl_address>>

\* A device of the accept list is connected to, or the attempt fails.
ctl_connected(a, status) ==
  /\ ctl_initiating
  /\ a \in ctl_accept_list \ ctl_links
  /\ ctl_initiating' = FALSE
  /\ IF status = "SUCCESS"
     THEN ctl_links' = ctl_links \cup {a} /\ UNCHANGED countVars
     ELSE UNCHANGED ctl_links /\ Use("refuse")
  /\ ctl_event(CentralComplete(a, status))

\* A peer connects to us.
ctl_incoming(a) ==
  /\ a \notin ctl_links
  /\ Use("incoming")
  /\ ctl_links' = ctl_links \cup {a}
  /\ ctl_event(<<Bound("acl", "peripheral_connection_complete", a)>>)
  /\ UNCHANGED ctl_initiating

ctl_disconnect(a) ==
  /\ a \in ctl_links
  /\ Use("disconnect")
  /\ ctl_links' = ctl_links \ {a}
  /\ ctl_event(<<Bound("acl", "on_le_disconnect", a)>>)
  /\ UNCHANGED ctl_initiating
-----------------------------------------------------------------------------
ResolvingListCalls == {"add_device_to_resolving_list",
  "remove_device_from_resolving_list", "clear_resolving_list"}

Next ==
  \/ \E a \in Devices, is_direct \in BOOLEAN : CreateLeConnection(a, is_direct)
  \/ \E a \in Devices : CancelLeConnect(a)
  \/ ClearAcceptList
  \/ \E fn \in ResolvingListCalls : ChangeResolvingList(fn)
  \/ SetPrivacyPolicy
  \/ \E start \in BOOLEAN : Scan(start)
  \/ RotationAlarm
  \/ \E a \in Devices : ConnectionAlarm(a)
  \/ RunAclManager
  \/ ctl_command
  \/ \E a \in Devices : \/ \E status \in {"SUCCESS", "CONNECTION_FAILED"} :
                             ctl_connected(a, status)
                        \/ ctl_incoming(a)
                        \/ ctl_disconnect(a)

Spec == Init /\ [][Next]_vars

-----------------------------------------------------------------------------
\* Nothing is left to do: no closure and no command.
Quiet == aborted = "none" /\ tasks_["acl"] = <<>> /\ tasks_["hci"] = <<>>

ClientStates == {"RESUMED", "PAUSED", "WAITING_FOR_PAUSE", "WAITING_FOR_RESUME"}

\* The objects hold what their members are declared to hold; the lists of le_impl
\* hold devices that somebody asked to connect to, the empty address is never one.
TypeOK ==
  /\ am_.address_policy_ \in {"POLICY_NOT_SET", address_policy}
  /\ DOMAIN am_.registered_clients_ \subseteq {"le", "scan"}
  /\ \A c \in DOMAIN am_.registered_clients_ : am_.registered_clients_[c] \in ClientStates
  /\ am_.le_address_ <= am_.cached_address_
  /\ le_.connectability_state_ \in {"DISARMED", "ARMING", "ARMED", "DISARMING"}
  /\ \A l \in {le_.accept_list, le_.connecting_le_, le_.direct_connections_,
               le_.background_connections_, le_.connections} : l \subseteq Devices
  /\ \A flag \in {le_.address_manager_registered, le_.ready_to_unregister,
                  le_.pause_connection, le_.arm_on_resume_, le_.arm_on_disarm_,
                  le_.disarmed_while_arming_, scan_.is_scanning_, scan_.scan_on_resume_,
                  scan_.paused_, scan_.address_manager_registered_} : flag \in BOOLEAN
  /\ ctl_accept_list \subseteq Devices
  /\ ctl_links \subseteq Devices
  /\ ctl_address <= am_.cached_address_

\* No assertion of the address manager fails: in whatever order completions, posted
\* continuations and new requests come, handle_next_command is only reached with a
\* command to take, and an address is only generated under a rotating policy.
CommandsAreThere == aborted = "none"

\* connectability_state_ tells the truth about the controller: once nothing is
\* pending, it is initiating exactly if le_impl believes the initiator is ARMED,
\* however connections, cancellations, timeouts and pauses have crossed.
InitiatorTracked == Quiet => (ctl_initiating <=> le_.connectability_state_ = "ARMED")

\* A Create Connection never reaches a controller that is already initiating: the
\* state machine of arm_connectability and disarm_connectability allows one.
OneInitiator ==
  tasks_["hci"] # <<>> /\ Front("hci").fn = "LE_CREATE_CONNECTION" => ~ctl_initiating

\* Clients unregister with the address manager when scanning is stopped, when the
\* last link is gone and when connecting has failed.
NoneUnregisters == \A kind \in {"stop", "disconnect", "refuse"} : used[kind] = 0

\* Every pause ends: unless a scan is stopped, a client that has been told to pause
\* is resumed by the time nothing is pending, whatever acknowledgements crossed.
PausesEnd ==
  used["stop"] = 0 /\ Quiet =>
    \A c \in DOMAIN am_.registered_clients_ : am_.registered_clients_[c] = "RESUMED"

\* No cached command is forgotten: commands that wait for the clients to pause have
\* been sent by the time nothing is pending.  Excepted are clients that unregister,
\* and the resolving list: ClearResolvingList without a client pauses nobody and sends
\* nothing, and AddDeviceToResolvingList posts handle_next_command if no client is
\* registered, which then finds the one whose register_client was posted before it.
CommandsDrain ==
  NoneUnregisters /\ used["resolve"] = 0 /\ Quiet => am_.cached_commands_ = <<>>

\* The controller's list follows le_impl's copy of it, accept_list: no change of it
\* reaches the controller while the initiator is using the list and would be refused.
\* This is what pausing is for.  Excepted are clients that unregister; timeouts of
\* direct connections, after which a posted arm_connectability may start the initiator
\* although le_impl has acknowledged a pause; changes of the address, of which two may
\* complete for one pause, so that an ack_resume already posted ends the next one; and
\* connections: a cancellation that a connection has overtaken is refused later, and
\* on_create_connection_cancel_complete takes that for the end of the next initiator.
AcceptListKept ==
  /\ NoneUnregisters
  /\ used["timeout"] = 0
  /\ used["rotate"] = 0
  /\ le_.connections = {}
  /\ Quiet
  => ctl_accept_list = le_.accept_list

\* As long as a device is to be connected to, the initiator is armed: no order of
\* pauses, timeouts, cancellations and connections leaves it disarmed for good.
KeepsConnecting == NoneUnregisters /\ Quiet /\ le_.accept_list # {} => ctl_initiating

=============================================================================
