------------------------------- MODULE LeImpl -------------------------------
(***************************************************************************)
(* LE connections: the part of le_impl (system/gd/hci/acl_manager/         *)
(* le_impl.h) that connects to the devices of the filter accept list.  The *)
(* initiator is armed and disarmed with Create Connection and its          *)
(* cancellation; as a client of LeAddressManager le_impl disarms it before *)
(* the address or a list of the controller is changed.                     *)
(*                                                                         *)
(* Addresses stand for AddressWithType, "kEmpty" for the empty one.        *)
(***************************************************************************)
EXTENDS LeAddressManagerApi

CONSTANTS le_impl_ack_pause_disarmed,                            \* flags
          improve_create_connection_for_already_connecting_device

ASSUME LeFlagAssumption ==
  /\ le_impl_ack_pause_disarmed \in BOOLEAN
  /\ improve_create_connection_for_already_connecting_device \in BOOLEAN

\* direct_connections_ stands for create_connection_timeout_alarms_ as well: an
\* address has an alarm exactly as long as it is there.
InitLe ==
  [connectability_state_ |-> "DISARMED", accept_list |-> {}, connecting_le_ |-> {},
   direct_connections_ |-> {}, background_connections_ |-> {}, connections |-> {},
   address_manager_registered |-> FALSE, ready_to_unregister |-> FALSE,
   pause_connection |-> FALSE, arm_on_resume_ |-> FALSE, arm_on_disarm_ |-> FALSE,
   disarmed_while_arming_ |-> FALSE]

set_connectability_state(s, state) ==
  LET t == [s EXCEPT !.le.connectability_state_ = state]
  IN  IF /\ le_impl_ack_pause_disarmed
         /\ state = "DISARMED"
         /\ s.le.pause_connection
      THEN AckPause(t, "le") ELSE t

\* Nothing is commanded while a Create Connection has no status yet.
disarm_connectability(s) ==
  CASE s.le.connectability_state_ = "ARMED" ->
         PostTo(set_connectability_state(s, "DISARMING"),
                "hci", "LE_CREATE_CONNECTION_CANCEL", "kEmpty")
    [] s.le.connectability_state_ = "ARMING" ->
         [s EXCEPT !.le.disarmed_while_arming_ = TRUE]
    [] OTHER -> s

arm_connectabilityAgain(s) ==
  IF s.le.accept_list = {} THEN s
  ELSE PostTo([set_connectability_state(s, "ARMING")
                 EXCEPT !.le.connecting_le_ = s.le.accept_list],
              "hci", "LE_CREATE_CONNECTION", "kEmpty")

arm_connectability(s) ==
  IF s.le.connectability_state_ # "DISARMED" \/ s.le.accept_list = {} THEN s
  ELSE PostTo([set_connectability_state(s, "ARMING")
                 EXCEPT !.le.connecting_le_ = s.le.accept_list],
              "hci", "LE_CREATE_CONNECTION", "kEmpty")

update_connectability_state_after_armedAlways(s, ok) ==
  LET t == set_connectability_state(s, "ARMED")
  IN  IF s.le.connectability_state_ # "ARMING" THEN s
      ELSE IF ~s.le.disarmed_while_arming_ THEN t
      ELSE disarm_connectability([t EXCEPT !.le.disarmed_while_arming_ = FALSE])

\* The status of Create Connection.
update_connectability_state_after_armed(s, ok) ==
  LET t == set_connectability_state(s, IF ok THEN "ARMED" ELSE "DISARMED")
  IN  IF s.le.connectability_state_ # "ARMING" THEN s
      ELSE IF ~s.le.disarmed_while_arming_ THEN t
      ELSE disarm_connectability([t EXCEPT !.le.disarmed_while_arming_ = FALSE])

\* The command complete of Create Connection Cancel.
on_create_connection_cancel_complete(s, ok) ==
  IF ~ok /\ s.le.pause_connection THEN AckPause(s, "le") ELSE s
-----------------------------------------------------------------------------
register_with_address_manager(s) ==
  IF s.le.address_manager_registered THEN s
  ELSE [Register(s, "le") EXCEPT !.le.address_manager_registered = TRUE,
                                 !.le.pause_connection = TRUE]

add_device_to_accept_list(s, a) ==
  IF a \in s.le.connections \cup s.le.accept_list THEN s
  ELSE AddDeviceToFilterAcceptList(
         register_with_address_manager([s EXCEPT !.le.accept_list = @ \cup {a}]), a)

remove_device_from_accept_list(s, a) ==
  IF a \notin s.le.accept_list THEN s
  ELSE RemoveDeviceFromFilterAcceptList(
         register_with_address_manager([s EXCEPT !.le.accept_list = @ \ {a},
                                                 !.le.connecting_le_ = @ \ {a}]), a)

clear_filter_accept_list(s) ==
  ClearFilterAcceptList(
    register_with_address_manager([s EXCEPT !.le.accept_list = {}]))

add_device_to_resolving_list(s, a) ==
  AddDeviceToResolvingList(register_with_address_manager(s), a)

remove_device_from_resolving_list(s, a) ==
  RemoveDeviceFromResolvingList(register_with_address_manager(s), a)

add_device_to_background_connection_list(s, a) ==
  [s EXCEPT !.le.background_connections_ = @ \cup {a}]
remove_device_from_background_connection_list(s, a) ==
  [s EXCEPT !.le.background_connections_ = @ \ {a}]

direct_connect_add(s, a) == [s EXCEPT !.le.direct_connections_ = @ \cup {a}]
direct_connect_remove(s, a) == [s EXCEPT !.le.direct_connections_ = @ \ {a}]

\* Registers with the address manager, and pauses until the random address is set.
RegisterToConnect(s) ==
  IF s.le.address_manager_registered THEN s
  ELSE [Register(s, "le") EXCEPT !.le.address_manager_registered = TRUE,
                                 !.le.pause_connection = @ \/ RotatingAddress(s)]

create_le_connection(s, a, add_to_accept_list, is_direct) ==
  LET already == a \in s.le.accept_list
      stop == /\ add_to_accept_list
              /\ improve_create_connection_for_already_connecting_device
              /\ already
              /\ a \in s.le.direct_connections_ \/ ~is_direct
      added == IF add_to_accept_list THEN add_device_to_accept_list(s, a) ELSE s
      direct == IF add_to_accept_list /\ is_direct
                THEN direct_connect_add(added, a) ELSE added
      t == RegisterToConnect(direct)
      armed == t.le.connectability_state_ \in {"ARMED", "ARMING"}
  IN  CASE a \in s.le.connections \/ stop -> s
        [] t.le.pause_connection -> [t EXCEPT !.le.arm_on_resume_ = TRUE]
        [] armed /\ already ->
             disarm_connectability([t EXCEPT !.le.arm_on_disarm_ = TRUE])
        [] armed /\ ~already -> t
        [] ~armed /\ add_to_accept_list -> [t EXCEPT !.le.arm_on_resume_ = TRUE]
        [] OTHER -> PostTo(t, "acl", "arm_connectability", "kEmpty")

on_create_connection_timeout(s, a) ==
  LET t == direct_connect_remove(s, a)
  IN  IF a \in s.le.background_connections_
      THEN disarm_connectability(t) ELSE remove_device_from_accept_list(t, a)

cancel_connect(s, a) == remove_device_from_accept_list(direct_connect_remove(s, a), a)
-----------------------------------------------------------------------------
on_le_connection_canceled_on_pause(s) ==
  LET t == set_connectability_state([s EXCEPT !.le.arm_on_resume_ = TRUE], "DISARMED")
  IN  IF le_impl_ack_pause_disarmed THEN t ELSE AckPause(t, "le")

on_common_le_connection_complete(s, a) ==
  direct_connect_remove([s EXCEPT !.le.connecting_le_ = {}], a)

add_connection(s, a) == [s EXCEPT !.le.connections = @ \cup {a}]

\* Connection Complete as a central.  UNKNOWN_CONNECTION: the initiator was disarmed.
central_connection_complete(s, a, status) ==
  LET disarmed == set_connectability_state(s, "DISARMED")
      unknown == status = "UNKNOWN_CONNECTION"
      over == on_common_le_connection_complete(disarmed, a)
      removed == remove_device_from_accept_list(
                   [over EXCEPT !.le.arm_on_resume_ = FALSE,
                                !.le.ready_to_unregister = TRUE], a)
      rearmed == IF removed.le.accept_list = {} THEN removed
                 ELSE PostTo(removed, "acl", "create_le_connection",
                             [address |-> "kEmpty", add |-> FALSE, direct |-> FALSE])
  IN  CASE unknown /\ s.le.pause_connection -> on_le_connection_canceled_on_pause(disarmed)
        [] unknown /\ ~s.le.pause_connection /\ s.le.arm_on_disarm_ ->
             arm_connectability([disarmed EXCEPT !.le.arm_on_disarm_ = FALSE])
        [] unknown /\ ~s.le.pause_connection /\ ~s.le.arm_on_disarm_ ->
             create_le_connection(over, a, FALSE, FALSE)
        [] OTHER -> IF status = "SUCCESS" THEN add_connection(rearmed, a) ELSE rearmed

\* Connection Complete as a peripheral: no more need to connect to the device.
peripheral_connection_complete(s, a) ==
  add_connection(
    IF a \in s.le.accept_list
    THEN remove_device_from_accept_list(direct_connect_remove(s, a), a) ELSE s, a)

on_le_disconnect(s, a) ==
  LET t == [s EXCEPT !.le.connections = @ \ {a}]
  IN  IF a \in s.le.background_connections_
      THEN add_device_to_accept_list([t EXCEPT !.le.arm_on_resume_ = TRUE], a) ELSE t

check_for_unregister(s) ==
  IF /\ s.le.connections = {}
     /\ s.le.connecting_le_ = {}
     /\ s.le.address_manager_registered
     /\ s.le.ready_to_unregister
  THEN [Unregister(s, "le") EXCEPT !.le.address_manager_registered = FALSE,
                                   !.le.pause_connection = FALSE,
                                   !.le.ready_to_unregister = FALSE]
  ELSE s

LeOnPause(s) ==
  LET t == [s EXCEPT !.le.pause_connection = TRUE]
  IN  CASE ~s.le.address_manager_registered -> s
        [] s.le.address_manager_registered /\ s.le.connectability_state_ = "DISARMED" ->
             AckPause(t, "le")
        [] OTHER -> disarm_connectability(
                      [t EXCEPT !.le.arm_on_resume_ = (s.le.connecting_le_ # {})])

LeOnResumeSilent(s) ==
  LET t == [s EXCEPT !.le.pause_connection = FALSE]
      armed == IF s.le.arm_on_resume_ THEN arm_connectability(t) ELSE t
  IN  IF ~s.le.address_manager_registered THEN s
      ELSE check_for_unregister([armed EXCEPT !.le.arm_on_resume_ = FALSE])

LeOnResumeDisarmed(s) ==
  LET t == [s EXCEPT !.le.pause_connection = FALSE]
  IN  IF ~s.le.address_manager_registered THEN s
      ELSE check_for_unregister(AckResume([t EXCEPT !.le.arm_on_resume_ = FALSE], "le"))

LeOnResume(s) ==
  LET t == [s EXCEPT !.le.pause_connection = FALSE]
      armed == IF s.le.arm_on_resume_ THEN arm_connectability(t) ELSE t
  IN  IF ~s.le.address_manager_registered THEN s
      ELSE check_for_unregister(
             AckResume([armed EXCEPT !.le.arm_on_resume_ = FALSE], "le"))
=============================================================================
