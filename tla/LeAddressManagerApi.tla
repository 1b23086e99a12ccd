------------------------ MODULE LeAddressManagerApi ------------------------
(***************************************************************************)
(* What the clients of LeAddressManager (system/gd/hci/                    *)
(* le_address_manager.cc) call.  Nearly every call is posted to the        *)
(* handler that the manager shares with le_impl, "acl".                    *)
(*                                                                         *)
(* Functions call each other and then return, so each one is an operator   *)
(* on the state of the three objects: am (the manager), le (le_impl),      *)
(* scan (the scanning manager), the closures posted so far and the         *)
(* assertion that failed, if one did.                                      *)
(***************************************************************************)
EXTENDS Handlers, Naturals

CONSTANT supports_ble_privacy_

VARIABLES am_, le_, scan_

\* A closure: the function fn bound to its argument.  Commands are closures of "hci".
Bound(handler, fn, arg) == [handler |-> handler, fn |-> fn, arg |-> arg]

Host == [am |-> am_, le |-> le_, scan |-> scan_, posted |-> <<>>, failed |-> "none"]

PostTo(s, handler, fn, arg) ==
  [s EXCEPT !.posted = Append(@, Bound(handler, fn, arg))]

\* The objects are as a function has left them in s.
Leaves(s) == am_' = s.am /\ le_' = s.le /\ scan_' = s.scan

\* The closure of h that runs now has returned s.
Returns(h, s) ==
  /\ Leaves(s)
  /\ IF s.failed = "none" THEN handle_next_event(h, s.posted)
                          ELSE AssertionFails(h, s.failed)

\* A function that no closure of "acl" has called has returned s.
Called(s) ==
  /\ aborted = "none"
  /\ Leaves(s)
  /\ tasks_' = Post(tasks_, s.posted)
  /\ aborted' = s.failed

Register(s, client) == PostTo(s, "acl", "register_client", client)
Unregister(s, client) == PostTo(s, "acl", "unregister_client", client)
AckPause(s, client) == PostTo(s, "acl", "ack_pause", client)
AckResume(s, client) == PostTo(s, "acl", "ack_resume", client)

RotatingAddress(s) ==
  s.am.address_policy_ \in {"USE_RESOLVABLE_ADDRESS", "USE_NON_RESOLVABLE_ADDRESS"}

\* A command of cached_commands_, about a device where it has one.
Command(type, address) == [type |-> type, address |-> address]

AddDeviceToFilterAcceptList(s, a) ==
  PostTo(s, "acl", "push_command", Command("LE_ADD_DEVICE_TO_FILTER_ACCEPT_LIST", a))
RemoveDeviceFromFilterAcceptList(s, a) ==
  PostTo(s, "acl", "push_command",
         Command("LE_REMOVE_DEVICE_FROM_FILTER_ACCEPT_LIST", a))
ClearFilterAcceptList(s) ==
  PostTo(s, "acl", "push_command", Command("LE_CLEAR_FILTER_ACCEPT_LIST", "kEmpty"))

\* The resolving list can only be changed while address resolution is disabled.
\* These commands are cached before anything is posted.
Resolving(s, commands) ==
  [s EXCEPT !.am.cached_commands_ =
     @ \o <<Command("DISABLE_ADDRESS_RESOLUTION", "kEmpty")>> \o commands
       \o <<Command("ENABLE_ADDRESS_RESOLUTION", "kEmpty")>>]

\* The manager goes on by itself if it has no client.
PauseOrHandle(s) ==
  IF DOMAIN s.am.registered_clients_ = {}
  THEN PostTo(s, "acl", "handle_next_command", "kEmpty")
  ELSE PostTo(s, "acl", "pause_registered_clients", "kEmpty")

AddDeviceToResolvingList(s, a) ==
  IF ~supports_ble_privacy_ THEN s
  ELSE PauseOrHandle(Resolving(s, <<Command("LE_ADD_DEVICE_TO_RESOLVING_LIST", a),
                                    Command("LE_SET_PRIVACY_MODE", a)>>))

RemoveDeviceFromResolvingList(s, a) ==
  IF ~supports_ble_privacy_ THEN s
  ELSE PauseOrHandle(
         Resolving(s, <<Command("LE_REMOVE_DEVICE_FROM_RESOLVING_LIST", a)>>))

ClearResolvingList(s) ==
  IF ~supports_ble_privacy_ THEN s
  ELSE PostTo(Resolving(s, <<Command("LE_CLEAR_RESOLVING_LIST", "kEmpty")>>),
              "acl", "pause_registered_clients", "kEmpty")
=============================================================================
