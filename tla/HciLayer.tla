------------------------------ MODULE HciLayer ------------------------------
(***************************************************************************)
(* The command path of the HCI layer (system/gd/hci/hci_layer.cc): the     *)
(* command queue, the one-outstanding-command flow control, the response   *)
(* timeout with its delayed abort, and the life cycle of the module.       *)
(*                                                                         *)
(* Everything in HciLayer::impl runs on the module's handler, one closure  *)
(* at a time, so each handler is one action.  The HAL and the controller   *)
(* are external: hal_tx and hal_rx are the two FIFO directions of the      *)
(* transport and ctl_pending the commands the controller has received and  *)
(* not answered.  The controller is assumed to answer commands in order,   *)
(* once each, with the event the command calls for, at any time or never.  *)
(***************************************************************************)
EXTENDS Naturals, Sequences

CONSTANTS Requests,               \* what callers enqueue: <<op code, overload>>
          NONE,                   \* OpCode::NONE (0x0000)
          RESET,                  \* OpCode::RESET, enqueued by Start
          CONTROLLER_DEBUG_INFO,  \* enqueued by on_hci_timeout
          Ogf,                    \* the OGF field (bits 10..15) of an op code
          MaxCommands,            \* bound: commands enqueued by callers
          MaxCredits,             \* bound: Num_HCI_Command_Packets
          MaxStarts               \* bound: times the module is started

Status == {"SUCCESS", "UNKNOWN_HCI_COMMAND"}
WaitingFor == {"STATUS", "COMPLETE", "STATUS_OR_COMPLETE"}

OpCodes == {r[1] : r \in Requests}
AllOpCodes == OpCodes \cup {RESET, CONTROLLER_DEBUG_INFO}

\* No caller but on_hci_timeout enqueues CONTROLLER_DEBUG_INFO; OGF 0 is the one
\* of NONE alone.
ASSUME OpCodeAssumption ==
  /\ \A r \in Requests : r[2] \in WaitingFor
  /\ NONE \notin AllOpCodes
  /\ CONTROLLER_DEBUG_INFO \notin OpCodes \cup {RESET}
  /\ Ogf \in [AllOpCodes -> 1..63]

ASSUME BoundAssumption ==
  /\ MaxCommands \in Nat \ {0}
  /\ MaxCredits \in Nat \ {0}
  /\ MaxStarts \in Nat \ {0}

VARIABLES
  life,               \* life_cycle_stopped, and whether the process aborted
  abort_reason,       \* which assertion or log::fatal ended the process
  command_queue_, waiting_command_, command_credits_,
  hci_timeout_alarm_, hci_abort_alarm_,
  reset_result,       \* the posted callback of the Reset that Start enqueues
  hal_tx, hal_rx,     \* commands and events in transit
  ctl_pending,        \* commands received by the controller, not answered
  ctl_allowance,      \* commands the controller can still accept
  next_id,            \* history: number of the next command
  delivered,          \* history: <<command, command answered>> per callback
  timed_out,          \* history: on_hci_timeout has run since Start
  starts              \* history: times started

hostVars == <<command_queue_, waiting_command_, command_credits_,
              hci_timeout_alarm_, hci_abort_alarm_>>
ctlVars == <<hal_tx, hal_rx, ctl_pending, ctl_allowance>>
vars == <<life, abort_reason, hostVars, reset_result, ctlVars, next_id,
          delivered, timed_out, starts>>

\* CommandQueueEntry, with a number that tells commands apart and the owner of
\* its callback: a caller, Start (fail_if_reset_complete_not_success) or
\* on_hci_timeout (a callback that does nothing).
Command == [id : Nat \ {0}, op : AllOpCodes, waiting_for_ : WaitingFor,
            owner : {"caller", "Start", "on_hci_timeout"}]

\* id is the command answered; 0 for a flow control event (op code NONE) and
\* for events that answer no command.
Event == [code : {"complete", "status", "root_inflammation", "hardware_error"},
          op : AllOpCodes \cup {NONE}, id : Nat,
          credits : 0..MaxCredits, status : Status]

AssertReasons == {"no_waiting_command", "wrong_opcode", "unexpected_event_kind"}
AbortReasons == AssertReasons \cup {"none", "reset_failed", "hci_timeout",
                                    "root_inflammation", "hardware_error"}
-----------------------------------------------------------------------------
(***************************************************************************)
(* What the handlers share.                                                *)
(***************************************************************************)

\* The entry of a command that is enqueued now.
CommandQueueEntry(op, waiting_for_, owner) ==
  [id |-> next_id, op |-> op, waiting_for_ |-> waiting_for_, owner |-> owner]

\* The early returns of send_next_command, and two ways to get them wrong.
IgnoresWaiting(q, w, c) == c # 0 /\ q # <<>>
IgnoresCredits(q, w, c) == w = NONE /\ q # <<>>
may_send(q, w, c) == c # 0 /\ w = NONE /\ q # <<>>

\* The timeout alarm a is scheduled, if it exists.
Schedule(a) == IF a = "null" THEN "null" ELSE "armed"

\* send_next_command, run on the queue q, waiting command w, credits c and
\* timeout alarm a that the calling handler has left.
send_next_command(q, w, c, a) ==
  /\ command_queue_' = q
  /\ IF may_send(q, w, c)
     THEN /\ hal_tx' = Append(hal_tx, Head(q))
          /\ waiting_command_' = Head(q).op
          /\ command_credits_' = 0
          /\ hci_timeout_alarm_' = Schedule(a)
     ELSE /\ waiting_command_' = w
          /\ command_credits_' = c
          /\ hci_timeout_alarm_' = a
          /\ UNCHANGED hal_tx

\* Alarm::Cancel of an alarm that exists.
NotCancelled(a) == a
Cancel(a) == "idle"

\* hci_abort_alarm_ is scheduled, unless it already is.
NoAbort == UNCHANGED hci_abort_alarm_
schedule_abort == hci_abort_alarm_' = "armed"

\* The credits a response leaves: the latest number replaces the older one.
AccumulatedCredits(e) == command_credits_ + e.credits
GetNumHciCommandPackets(e) == e.credits

\* static_cast<int>(op_code) & (0x3f << 10): any bit of the OGF field is set.
is_vendor_specific(op) == Ogf[op] # 0

\* impl and its alarms are deleted, and the HAL drops what is in transit.
Teardown ==
  /\ command_queue_' = <<>>
  /\ waiting_command_' = NONE
  /\ command_credits_' = 1
  /\ hci_timeout_alarm_' = "null"
  /\ hci_abort_alarm_' = "null"
  /\ reset_result' = "none"
  /\ hal_tx' = <<>>
  /\ hal_rx' = <<>>
  /\ ctl_pending' = <<>>
  /\ ctl_allowance' = 1
  /\ timed_out' = FALSE
  /\ UNCHANGED <<next_id, delivered, starts>>

\* A failed assertion or log::fatal: the process is gone.
Abort(reason) ==
  /\ life' = "aborted"
  /\ abort_reason' = reason
  /\ Teardown

\* The callback of command c is run with the response e; the one of Start's
\* Reset is posted to this same handler.
Deliver(c, e) ==
  /\ delivered' = Append(delivered, <<c.id, e.id>>)
  /\ reset_result' = IF c.owner = "Start" THEN e.status ELSE reset_result
-----------------------------------------------------------------------------
(***************************************************************************)
(* Life cycle.                                                             *)
(***************************************************************************)

Init ==
  /\ life = "stopped"
  /\ abort_reason = "none"
  /\ command_queue_ = <<>>
  /\ waiting_command_ = NONE
  /\ command_credits_ = 1
  /\ hci_timeout_alarm_ = "null"
  /\ hci_abort_alarm_ = "null"
  /\ reset_result = "none"
  /\ hal_tx = <<>>
  /\ hal_rx = <<>>
  /\ ctl_pending = <<>>
  /\ ctl_allowance = 1
  /\ next_id = 1
  /\ delivered = <<>>
  /\ timed_out = FALSE
  /\ starts = 0

\* HciLayer::Start: a new impl, and Reset as its first command.
Start ==
  /\ life = "stopped"
  /\ starts < MaxStarts
  /\ life' = "running"
  /\ starts' = starts + 1
  /\ hci_abort_alarm_' = "null"
  /\ send_next_command(<<CommandQueueEntry(RESET, "COMPLETE", "Start")>>, NONE, 1,
                       "idle")
  /\ reset_result' = "none"
  /\ next_id' = next_id + 1
  /\ UNCHANGED <<abort_reason, hal_rx, ctl_pending, ctl_allowance, delivered,
                 timed_out>>

\* HciLayer::Stop, after ModuleRegistry::StopAll has cleared the handler.
Stop ==
  /\ life = "running"
  /\ life' = "stopped"
  /\ Teardown
  /\ UNCHANGED abort_reason
-----------------------------------------------------------------------------
(***************************************************************************)
(* Handlers of the host.                                                   *)
(***************************************************************************)

\* HciLayer::EnqueueCommand and impl::enqueue_command, for each overload.
enqueue_command(r) ==
  /\ life = "running"
  /\ next_id <= MaxCommands
  /\ next_id' = next_id + 1
  /\ send_next_command(
       Append(command_queue_, CommandQueueEntry(r[1], r[2], "caller")),
       waiting_command_, command_credits_, hci_timeout_alarm_)
  /\ UNCHANGED <<life, abort_reason, hci_abort_alarm_, reset_result, hal_rx,
                 ctl_pending, ctl_allowance, delivered, timed_out, starts>>

\* The event is one that the waiting command c accepts.  The status of an
\* unknown vendor command is passed on as an empty command complete.
accepts(c, e) ==
  \/ /\ is_vendor_specific(e.op)
     /\ e.code = "status" /\ c.waiting_for_ = "COMPLETE"
     /\ e.status = "UNKNOWN_HCI_COMMAND"
  \/ c.waiting_for_ = "STATUS_OR_COMPLETE"
  \/ (c.waiting_for_ = "STATUS") <=> (e.code = "status")

\* No response is taken for a late one.
NeverLate(e) == FALSE

\* A response that came after its command timed out.
is_late(e) ==
  waiting_command_ = CONTROLLER_DEBUG_INFO /\ e.op # CONTROLLER_DEBUG_INFO

\* Discarded, but its credits have been taken.
discard_late_response(e) ==
  /\ command_credits_' = GetNumHciCommandPackets(e)
  /\ UNCHANGED <<command_queue_, waiting_command_, hci_timeout_alarm_, hal_tx,
                 reset_result, delivered>>

\* The callback is run and the command popped; the next one is sent only
\* while the timeout alarm exists.
answer_waiting_command(e) ==
  /\ Deliver(Head(command_queue_), e)
  /\ IF hci_timeout_alarm_ # "null"
     THEN send_next_command(Tail(command_queue_), NONE,
                            GetNumHciCommandPackets(e), Cancel(hci_timeout_alarm_))
     ELSE /\ command_queue_' = Tail(command_queue_)
          /\ waiting_command_' = NONE
          /\ command_credits_' = GetNumHciCommandPackets(e)
          /\ UNCHANGED <<hci_timeout_alarm_, hal_tx>>

\* The assertions of on_hci_event and handle_command_response on a command
\* response, in the order they are made; "none" if all of them hold.
failed_assertion(e) ==
  IF e.op = NONE THEN "none"
  ELSE IF command_queue_ = <<>> THEN "no_waiting_command"
  ELSE IF is_late(e) THEN "none"
  ELSE IF waiting_command_ # e.op THEN "wrong_opcode"
  ELSE IF ~accepts(Head(command_queue_), e) THEN "unexpected_event_kind"
  ELSE "none"

\* on_command_status, on_command_complete.
handle_command_response(e) ==
  /\ failed_assertion(e) = "none"
  /\ hal_rx' = Tail(hal_rx)
  /\ \/ /\ e.op = NONE
        /\ send_next_command(command_queue_, waiting_command_,
                             GetNumHciCommandPackets(e), hci_timeout_alarm_)
        /\ UNCHANGED <<reset_result, delivered>>
     \/ /\ e.op # NONE /\ is_late(e)
        /\ discard_late_response(e)
     \/ /\ e.op # NONE /\ ~is_late(e)
        /\ answer_waiting_command(e)
  /\ UNCHANGED <<life, abort_reason, hci_abort_alarm_, ctl_pending,
                 ctl_allowance, next_id, timed_out, starts>>

\* The timeout alarm is deleted and the process will abort later.
handle_root_inflammation ==
  /\ hal_rx' = Tail(hal_rx)
  /\ hci_timeout_alarm_' = "null"
  /\ schedule_abort
  /\ UNCHANGED <<life, abort_reason, command_queue_, waiting_command_,
                 command_credits_, reset_result, hal_tx, ctl_pending,
                 ctl_allowance, next_id, delivered, timed_out, starts>>

\* The next event from the HAL.
on_hci_event ==
  /\ life = "running"
  /\ hal_rx # <<>>
  /\ LET e == Head(hal_rx)
     IN  \/ /\ e.code \in {"complete", "status"}
            /\ \/ handle_command_response(e)
               \/ /\ failed_assertion(e) # "none"
                  /\ Abort(failed_assertion(e))
         \/ e.code = "root_inflammation" /\ handle_root_inflammation
         \/ e.code = "hardware_error" /\ Abort("hardware_error")

\* The timeout alarm fires: the queue is flushed, the controller is asked for
\* debug information without a timeout, and the process will abort later.
on_hci_timeout ==
  /\ life = "running"
  /\ hci_timeout_alarm_ = "armed"
  /\ send_next_command(
       <<CommandQueueEntry(CONTROLLER_DEBUG_INFO, "COMPLETE", "on_hci_timeout")>>,
       NONE, 1, "null")
  /\ schedule_abort
  /\ next_id' = next_id + 1
  /\ timed_out' = TRUE
  /\ UNCHANGED <<life, abort_reason, reset_result, hal_rx, ctl_pending,
                 ctl_allowance, delivered, starts>>

\* abort_after_time_out, or abort_after_root_inflammation.
on_hci_abort ==
  /\ life = "running"
  /\ hci_abort_alarm_ = "armed"
  /\ Abort(IF timed_out THEN "hci_timeout" ELSE "root_inflammation")

\* The posted callback of Start's Reset.
fail_if_reset_complete_not_success ==
  /\ life = "running"
  /\ \/ /\ reset_result = "SUCCESS"
        /\ reset_result' = "none"
        /\ UNCHANGED <<life, abort_reason, hostVars, ctlVars, next_id, delivered,
                       timed_out, starts>>
     \/ /\ reset_result = "UNKNOWN_HCI_COMMAND"
        /\ Abort("reset_failed")
-----------------------------------------------------------------------------
(***************************************************************************)
(* The controller.                                                         *)
(***************************************************************************)

ctlUnchanged == UNCHANGED <<life, abort_reason, hostVars, reset_result, next_id,
                            delivered, timed_out, starts>>

\* A command arrives and takes one of the places the controller offered.
ctl_receive ==
  /\ life = "running"
  /\ hal_tx # <<>>
  /\ hal_tx' = Tail(hal_tx)
  /\ ctl_pending' = Append(ctl_pending, Head(hal_tx))
  /\ ctl_allowance' = IF ctl_allowance = 0 THEN 0 ELSE ctl_allowance - 1
  /\ UNCHANGED hal_rx
  /\ ctlUnchanged

\* The events that answer command c, with the status codes that the host tells
\* apart: an error in a command complete, or an unknown command's status.
Answers(c) ==
  IF c.waiting_for_ = "STATUS" THEN {<<"status", "SUCCESS">>}
  ELSE IF c.waiting_for_ = "COMPLETE"
  THEN ({"complete"} \X Status) \cup {<<"status", "UNKNOWN_HCI_COMMAND">>}
  ELSE {"complete", "status"} \X {"SUCCESS"}

\* Commands are answered in the order they came.  An event never takes back
\* places the controller has offered.
ctl_respond ==
  /\ life = "running"
  /\ ctl_pending # <<>>
  /\ ctl_pending' = Tail(ctl_pending)
  /\ \E a \in Answers(Head(ctl_pending)), n \in ctl_allowance..MaxCredits :
       /\ ctl_allowance' = n
       /\ hal_rx' = Append(hal_rx,
            [code |-> a[1], op |-> Head(ctl_pending).op, id |-> Head(ctl_pending).id,
             credits |-> n, status |-> a[2]])
  /\ UNCHANGED hal_tx
  /\ ctlUnchanged

\* A flow control event: more places, and no command answered.  The host makes
\* no difference between a command complete and a command status here.
ctl_flow_control ==
  /\ life = "running"
  /\ \E n \in (ctl_allowance + 1)..MaxCredits :
       /\ ctl_allowance' = n
       /\ hal_rx' = Append(hal_rx, [code |-> "complete", op |-> NONE, id |-> 0,
                                    credits |-> n, status |-> "SUCCESS"])
  /\ UNCHANGED <<hal_tx, ctl_pending>>
  /\ ctlUnchanged

\* A root inflammation or hardware error event; one at a time in flight.
ctl_failure ==
  /\ life = "running"
  /\ \A i \in DOMAIN hal_rx : hal_rx[i].code \in {"complete", "status"}
  /\ \E code \in {"root_inflammation", "hardware_error"} :
       hal_rx' = Append(hal_rx, [code |-> code, op |-> NONE, id |-> 0,
                                 credits |-> 0, status |-> "SUCCESS"])
  /\ UNCHANGED <<hal_tx, ctl_pending, ctl_allowance>>
  /\ ctlUnchanged
-----------------------------------------------------------------------------
Next ==
  \/ Start
  \/ Stop
  \/ \E r \in Requests : enqueue_command(r)
  \/ on_hci_event
  \/ on_hci_timeout
  \/ on_hci_abort
  \/ fail_if_reset_complete_not_success
  \/ ctl_receive
  \/ ctl_respond
  \/ ctl_flow_control
  \/ ctl_failure

Spec == Init /\ [][Next]_vars

\* The handler runs what is posted to it and the alarms fire.  Of the
\* controller only this is assumed: it offers a place again after it has
\* taken the last one back.  It may leave any command unanswered.
Fairness ==
  /\ WF_vars(on_hci_event)
  /\ WF_vars(on_hci_timeout)
  /\ WF_vars(on_hci_abort)
  /\ WF_vars(ctl_allowance = 0 /\ ctl_flow_control)

FairSpec == Spec /\ Fairness
-----------------------------------------------------------------------------
(***************************************************************************)
(* Properties.                                                             *)
(***************************************************************************)

\* The types of the state of HciLayer::impl and of the transport.
TypeOK ==
  /\ life \in {"stopped", "running", "aborted"}
  /\ abort_reason \in AbortReasons
  /\ command_queue_ \in Seq(Command)
  /\ waiting_command_ \in AllOpCodes \cup {NONE}
  /\ command_credits_ \in 0..MaxCredits
  /\ hci_timeout_alarm_ \in {"null", "idle", "armed"}
  /\ hci_abort_alarm_ \in {"null", "armed"}
  /\ reset_result \in Status \cup {"none"}
  /\ hal_tx \in Seq(Command)
  /\ hal_rx \in Seq(Event)
  /\ ctl_pending \in Seq(Command)
  /\ ctl_allowance \in 0..MaxCredits
  /\ next_id \in Nat \ {0}
  /\ delivered \in Seq(Nat \X Nat)
  /\ timed_out \in BOOLEAN
  /\ starts \in 0..MaxStarts

\* With a controller that keeps to the protocol, no assertion on a command
\* response in on_hci_event or handle_command_response ever fails: not when the
\* answer races the timeout, not after the queue was flushed, not when flow
\* control events come in between.
NoUnexpectedResponse == abort_reason \notin AssertReasons

\* A callback is only ever run with the response to its own command, at most
\* once, in the order of the queue, although handle_command_response matches
\* nothing but the op code and late answers may be under way.
AnsweredInOrder ==
  \A i \in DOMAIN delivered :
    /\ delivered[i][1] = delivered[i][2]
    /\ \A j \in DOMAIN delivered : i < j => delivered[i][1] < delivered[j][1]

\* Until a timeout forces a command through, the host never has more commands
\* under way than the controller has offered places for: a credit read from
\* an event that was sent before the last command was received is never
\* spent (send_next_command, "Only allow one outstanding command").
WithinAllowance ==
  life = "running" /\ ~timed_out => Len(hal_tx) <= ctl_allowance

\* The timeout alarm runs exactly while a command is outstanding, as long as
\* the alarm exists: no command waits unguarded, and no answered command can
\* still time out.
TimerGuardsOutstanding ==
  hci_timeout_alarm_ # "null" =>
    (hci_timeout_alarm_ = "armed" <=> waiting_command_ # NONE)

\* Every command of the queue is answered, or the process aborts or the module is
\* stopped: the queue never stalls silently, even if the controller stops answering,
\* in the first run of the module or after a restart.
CommandsResolve ==
  \A id \in 1..MaxCommands :
    (\E i \in DOMAIN command_queue_ : command_queue_[i].id = id) ~>
      (life # "running" \/ \E i \in DOMAIN delivered : delivered[i][1] = id)
=============================================================================
