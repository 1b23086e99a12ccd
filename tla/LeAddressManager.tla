-------------------------- MODULE LeAddressManager --------------------------
(***************************************************************************)
(* LeAddressManager (system/gd/hci/le_address_manager.cc): the commands    *)
(* that change the random address, the filter accept list or the resolving *)
(* list wait until every client has stopped using them, then are sent one  *)
(* after the other, and the clients go on.                                 *)
(*                                                                         *)
(* The controller does not generate resolvable addresses itself.  Random   *)
(* addresses are numbered; 0 is the one the stack starts with.             *)
(***************************************************************************)
EXTENDS LeImpl, LeScanning, Sequences, FiniteSets

CONSTANTS address_policy,  \* the policy that is set when the stack starts
          ClientOrder      \* the order of the clients in the map of pointers

ASSUME ManagerAssumption ==
  /\ address_policy \in {"USE_PUBLIC_ADDRESS", "USE_STATIC_ADDRESS",
                         "USE_NON_RESOLVABLE_ADDRESS", "USE_RESOLVABLE_ADDRESS"}
  /\ ClientOrder \in {<<"le", "scan">>, <<"scan", "le">>}
  /\ supports_ble_privacy_ \in BOOLEAN

NoClients == [c \in {} |-> "RESUMED"]

InitAm ==
  [address_policy_ |-> "POLICY_NOT_SET", registered_clients_ |-> NoClients,
   cached_commands_ |-> <<>>, le_address_ |-> 0, cached_address_ |-> 0,
   address_rotation_alarm_ |-> FALSE]

OnPause(s, client) == IF client = "le" THEN LeOnPause(s) ELSE ScanOnPause(s)
OnResume(s, client) == IF client = "le" THEN LeOnResume(s) ELSE ScanOnResume(s)

ClientsOf(s) == DOMAIN s.am.registered_clients_
StateOf(s, client) == s.am.registered_clients_[client]
SetState(s, client, state) ==
  [s EXCEPT !.am.registered_clients_ = [@ EXCEPT ![client] = state]]

AllPaused(s) == \A c \in ClientsOf(s) : StateOf(s, c) = "PAUSED"

PauseClient(s, client) ==
  IF \/ client \notin ClientsOf(s)
     \/ StateOf(s, client) \in {"PAUSED", "WAITING_FOR_PAUSE"}
  THEN s ELSE OnPause(SetState(s, client, "WAITING_FOR_PAUSE"), client)

pause_registered_clients(s) ==
  PauseClient(PauseClient(s, ClientOrder[1]), ClientOrder[2])

push_commandUnpaused(s, command) ==
  [s EXCEPT !.am.cached_commands_ = Append(@, command)]

push_command(s, command) ==
  [pause_registered_clients(s) EXCEPT !.am.cached_commands_ = Append(@, command)]

schedule_rotate_random_address(s) == [s EXCEPT !.am.address_rotation_alarm_ = TRUE]

set_random_addressUncached(s) ==
  IF RotatingAddress(s)
  THEN PostTo(s, "hci", "LE_SET_RANDOM_ADDRESS", s.am.cached_address_ + 1)
  ELSE [s EXCEPT !.failed = "Invalid address policy!"]

set_random_address(s) ==
  LET t == [s EXCEPT !.am.cached_address_ = @ + 1]
  IN  IF RotatingAddress(s)
      THEN PostTo(t, "hci", "LE_SET_RANDOM_ADDRESS", t.am.cached_address_)
      ELSE [s EXCEPT !.failed = "Invalid address policy!"]

\* rotate_random_address, update_irk or the command itself.  No client has an
\* advertising set whose address update_irk would change.
RunCommand(s, command) ==
  CASE command.type = "ROTATE_RANDOM_ADDRESS" ->
         set_random_address(schedule_rotate_random_address(s))
    [] command.type = "UPDATE_IRK" -> set_random_address(s)
    [] OTHER -> PostTo(s, "hci", command.type, command.address)

handle_next_command(s) ==
  CASE ~AllPaused(s) -> s
    [] AllPaused(s) /\ s.am.cached_commands_ = <<>> ->
         [s EXCEPT !.failed = "!cached_commands_.empty()"]
    [] OTHER -> RunCommand([s EXCEPT !.am.cached_commands_ = Tail(@)],
                           Head(s.am.cached_commands_))

ResumeClient(s, client) ==
  IF client \notin ClientsOf(s) THEN s
  ELSE OnResume(SetState(s, client, "WAITING_FOR_RESUME"), client)

resume_registered_clients(s) ==
  IF s.am.cached_commands_ # <<>> THEN handle_next_command(s)
  ELSE ResumeClient(ResumeClient(s, ClientOrder[1]), ClientOrder[2])

check_cached_commandsUnchecked(s) ==
  IF AllPaused(s) THEN handle_next_command(s) ELSE pause_registered_clients(s)

check_cached_commands(s) ==
  IF s.am.cached_commands_ = <<>> THEN resume_registered_clients(s)
  ELSE IF AllPaused(s) THEN handle_next_command(s) ELSE pause_registered_clients(s)

ack_pauseIdle(s, client) ==
  IF client \in ClientsOf(s) THEN SetState(s, client, "PAUSED") ELSE s

\* The first client of the map that is not paused holds the commands up.  If it
\* was not told to pause it is told so, but its state is changed in a copy only.
ack_pause(s, client) ==
  LET t == SetState(s, client, "PAUSED")
      awake == {n \in DOMAIN ClientOrder :
                  /\ ClientOrder[n] \in ClientsOf(t)
                  /\ StateOf(t, ClientOrder[n]) # "PAUSED"}
      first == ClientOrder[CHOOSE n \in awake : \A m \in awake : n <= m]
  IN  CASE client \notin ClientsOf(s) -> s
        [] client \in ClientsOf(s) /\ awake = {} ->
             IF s.am.address_policy_ = "POLICY_NOT_SET" THEN t
             ELSE check_cached_commands(t)
        [] OTHER -> IF StateOf(t, first) = "WAITING_FOR_PAUSE" THEN t
                    ELSE OnPause(t, first)

ack_resume(s, client) ==
  IF client \in ClientsOf(s) THEN SetState(s, client, "RESUMED") ELSE s

register_client(s, client) ==
  LET t == [s EXCEPT !.am.registered_clients_ =
              [c \in DOMAIN @ \cup {client} |-> IF c \in DOMAIN @ THEN @[c] ELSE "RESUMED"]]
  IN  CASE s.am.address_policy_ = "POLICY_NOT_SET" -> pause_registered_clients(t)
        [] RotatingAddress(s) /\ Cardinality(ClientsOf(t)) = 1 ->
             schedule_rotate_random_address(t)
        [] OTHER -> t

unregister_client(s, client) ==
  LET t == CASE client \notin ClientsOf(s) -> s
             [] client \in ClientsOf(s) /\ StateOf(s, client) = "WAITING_FOR_PAUSE" ->
                  ack_pause(s, client)
             [] OTHER -> s
      u == [t EXCEPT !.am.registered_clients_ =
              [c \in DOMAIN @ \ {client} |-> @[c]]]
  IN  IF ClientsOf(u) # {} THEN u ELSE [u EXCEPT !.am.address_rotation_alarm_ = FALSE]

\* The alarm.
prepare_to_rotate(s) ==
  pause_registered_clients(
    [s EXCEPT !.am.address_rotation_alarm_ = FALSE,
              !.am.cached_commands_ =
                Append(@, Command("ROTATE_RANDOM_ADDRESS", "kEmpty"))])

prepare_to_update_irk(s) ==
  LET t == [s EXCEPT !.am.cached_commands_ = Append(@, Command("UPDATE_IRK", "kEmpty"))]
  IN  IF ClientsOf(s) = {} THEN handle_next_command(t) ELSE pause_registered_clients(t)

\* Called when the stack starts, and again for every new IRK.
SetPrivacyPolicyForInitiatorAddress(s, policy) ==
  LET t == [s EXCEPT !.am.address_policy_ = policy]
  IN  CASE s.am.address_policy_ # "POLICY_NOT_SET" ->
             IF supports_ble_privacy_
             THEN PostTo(s, "acl", "prepare_to_update_irk", "kEmpty") ELSE s
        [] s.am.address_policy_ = "POLICY_NOT_SET" /\ ClientsOf(s) # {} ->
             [s EXCEPT !.failed = "Policy must be set before clients are registered."]
        [] OTHER ->
             CASE policy = "USE_PUBLIC_ADDRESS" ->
                    PostTo(t, "acl", "resume_registered_clients", "kEmpty")
               [] policy = "USE_STATIC_ADDRESS" ->
                    PostTo(t, "acl", "enqueue_command",
                           Command("LE_SET_RANDOM_ADDRESS", 0))
               [] OTHER -> set_random_address(t)


\* Whatever the command and its status were, the next one is looked for, unless a
\* static address was set.
OnCommandComplete(s, command, ok) ==
  LET random == command = "LE_SET_RANDOM_ADDRESS"
      t == IF random /\ ok THEN [s EXCEPT !.am.le_address_ = s.am.cached_address_] ELSE s
  IN  IF random /\ s.am.address_policy_ = "USE_STATIC_ADDRESS" THEN s
      ELSE PostTo(t, "acl", "check_cached_commands", "kEmpty")
=============================================================================
