--------------------------- MODULE HciLayerProofs ---------------------------
(***************************************************************************)
(* Proofs of the safety invariants of HciLayer, for every set of requests  *)
(* and every bound.                                                        *)
(*                                                                         *)
(* The argument is about the commands under way: those in hal_tx, in       *)
(* ctl_pending and, as responses, in hal_rx.  One of them has the op code  *)
(* of waiting_command_; it is the head of the queue, there is at most one, *)
(* and nothing follows it.  Any other is a command that timed out, and     *)
(* then the host waits for CONTROLLER_DEBUG_INFO.                          *)
(***************************************************************************)
EXTENDS HciLayer, TLAPS

(***************************************************************************)
(* The invariant of the command flow, as operators on a queue q, a waiting *)
(* command w, credits c and a timeout alarm a of the host, the commands tx *)
(* and events rx in transit, the commands pend and the places allow of the *)
(* controller, and to, whether a timeout happened.                         *)
(***************************************************************************)

\* The host waits for the head of its queue.  The queue holds
\* CONTROLLER_DEBUG_INFO only after a timeout, which deletes the alarm.
WaitsForHead(q, w, a, to) ==
  /\ w # NONE => q # <<>> /\ q[1].op = w
  /\ \A i \in DOMAIN q : q[i].op = CONTROLLER_DEBUG_INFO => a = "null" /\ to
  /\ a # "null" => (a = "armed" <=> w # NONE)

\* A command under way is the head of the queue, or it timed out.
CommandUnderWay(q, w, x) ==
  IF x.op = w THEN x = q[1] ELSE w = CONTROLLER_DEBUG_INFO

\* A response under way answers the head of the queue as it expects, or it came
\* too late.  Other events have the op code NONE.
EventUnderWay(q, w, e) ==
  \/ e.op = NONE
  \/ /\ e.op = w /\ e.id = q[1].id /\ accepts(q[1], e)
     /\ e.code \in {"complete", "status"}
  \/ /\ e.op # w /\ w = CONTROLLER_DEBUG_INFO
     /\ e.code \in {"complete", "status"}

UnderWay(q, w, tx, pend, rx) ==
  /\ \A i \in DOMAIN tx : CommandUnderWay(q, w, tx[i])
  /\ \A i \in DOMAIN pend : CommandUnderWay(q, w, pend[i])
  /\ \A i \in DOMAIN rx : EventUnderWay(q, w, rx[i])

\* Nothing follows the command the host waits for.
NothingFollows(w, tx, pend, rx) ==
  /\ \A i \in DOMAIN tx : tx[i].op = w => i = Len(tx)
  /\ \A i \in DOMAIN pend : pend[i].op = w => i = Len(pend) /\ tx = <<>>
  /\ \A i \in DOMAIN rx : rx[i].op = w /\ w # NONE =>
       /\ \A j \in DOMAIN rx : i < j => rx[j].op = NONE
       /\ pend = <<>> /\ tx = <<>>

\* Before a timeout, credits that the host may spend next are covered by the
\* controller's places: its own when it waits for nothing, and those of a
\* response and of the events after it.
Covered(w, c, tx, rx, allow, to) ==
  ~to =>
    /\ w = NONE => c <= allow /\ \A i \in DOMAIN rx : rx[i].credits <= allow
    /\ \A i, j \in DOMAIN rx : rx[i].op # NONE /\ i <= j => rx[j].credits <= allow
    /\ tx # <<>> => allow > 0

Flow(q, w, c, a, tx, pend, rx, allow, to) ==
  /\ WaitsForHead(q, w, a, to)
  /\ UnderWay(q, w, tx, pend, rx)
  /\ NothingFollows(w, tx, pend, rx)
  /\ Covered(w, c, tx, rx, allow, to)

\* Commands are numbered below n in the order of the queue q, and those answered,
\* in d, with their own responses, came before those that still wait.
Numbered(q, n, d) ==
  /\ \A i \in DOMAIN q : q[i].id < n
  /\ \A i, j \in DOMAIN q : i < j => q[i].id < q[j].id
  /\ \A i \in DOMAIN d :
       /\ d[i][1] = d[i][2]
       /\ d[i][1] < n
       /\ \A j \in DOMAIN q : d[i][1] < q[j].id
       /\ \A j \in DOMAIN d : i < j => d[i][1] < d[j][1]

\* Without a running module there is nothing in the queue or under way.
NothingWhenStopped ==
  life # "running" =>
    /\ command_queue_ = <<>> /\ waiting_command_ = NONE
    /\ hal_tx = <<>> /\ hal_rx = <<>> /\ ctl_pending = <<>>
    /\ ctl_allowance = 1 /\ ~timed_out

FlowOK ==
  Flow(command_queue_, waiting_command_, command_credits_, hci_timeout_alarm_,
       hal_tx, ctl_pending, hal_rx, ctl_allowance, timed_out)

\* The inductive invariant.
IInv ==
  /\ TypeOK
  /\ NoUnexpectedResponse
  /\ NothingWhenStopped
  /\ FlowOK
  /\ Numbered(command_queue_, next_id, delivered)
-----------------------------------------------------------------------------
(***************************************************************************)
(* Type correctness.                                                       *)
(***************************************************************************)

\* The first item of a sequence.
LEMMA FirstItem ==
  ASSUME NEW S, NEW s \in Seq(S), s # <<>>
  PROVE  1 \in DOMAIN s /\ Head(s) = s[1] /\ s[1] \in S
  OBVIOUS

\* A sequence of length 0 is empty.
LEMMA NoItem ==
  ASSUME NEW S, NEW s \in Seq(S), Len(s) = 0
  PROVE  s = <<>>
  OBVIOUS

\* A sequence of one item has no tail.
LEMMA OnlyItem ==
  ASSUME NEW S, NEW s \in Seq(S), Len(s) = 1
  PROVE  Tail(s) = <<>>
  <1>1. s # <<>>
    OBVIOUS
  <1>2. Tail(s) \in Seq(S) /\ Len(Tail(s)) = 0
    BY <1>1
  <1> QED BY <1>2, NoItem, Zenon

\* r is the sequence s of elements of S with x appended.
Appended(S, r, s, x) ==
  /\ r \in Seq(S)
  /\ Len(r) = Len(s) + 1
  /\ \A i \in DOMAIN r : IF i = Len(r) THEN r[i] = x
                         ELSE i \in DOMAIN s /\ r[i] = s[i] /\ i < Len(r)

\* The items of a sequence to which one is appended.
LEMMA AppendedItems ==
  ASSUME NEW S, NEW s \in Seq(S), NEW x \in S
  PROVE  Appended(S, Append(s, x), s, x)
  BY DEF Appended

\* What send_next_command leaves has the right types.
LEMMA SendNextType ==
  ASSUME NEW q \in Seq(Command), NEW w \in AllOpCodes \cup {NONE},
         NEW c \in 0..MaxCredits, NEW a \in {"null", "idle", "armed"},
         hal_tx \in Seq(Command), send_next_command(q, w, c, a)
  PROVE  /\ command_queue_' \in Seq(Command)
         /\ waiting_command_' \in AllOpCodes \cup {NONE}
         /\ command_credits_' \in 0..MaxCredits
         /\ hci_timeout_alarm_' \in {"null", "idle", "armed"}
         /\ hal_tx' \in Seq(Command)
  <1>1. CASE may_send(q, w, c)
    <2>1. Head(q) \in Command
      BY <1>1 DEF may_send
    <2>2. Head(q).op \in AllOpCodes
      BY <2>1 DEF Command
    <2>3. command_credits_' \in 0..MaxCredits
      BY <1>1, BoundAssumption DEF send_next_command
    <2>4. hal_tx' \in Seq(Command)
      <3>1. hal_tx' = Append(hal_tx, Head(q))
        BY <1>1 DEF send_next_command
      <3>2. Appended(Command, Append(hal_tx, Head(q)), hal_tx, Head(q))
        BY <2>1, AppendedItems, Zenon
      <3> QED BY <3>1, <3>2, Zenon DEF Appended
    <2> QED BY <1>1, <2>2, <2>3, <2>4 DEF send_next_command, Schedule
  <1>2. CASE ~may_send(q, w, c)
    BY <1>2 DEF send_next_command
  <1> QED BY <1>1, <1>2

\* A failed assertion or a stop leaves the right types.
LEMMA TeardownType ==
  ASSUME TypeOK, Teardown, life' \in {"stopped", "running", "aborted"},
         abort_reason' \in AbortReasons
  PROVE  TypeOK'
  <1>1. command_credits_' \in 0..MaxCredits /\ ctl_allowance' \in 0..MaxCredits
    BY BoundAssumption DEF Teardown
  <1>2. delivered' \in Seq(Nat \X Nat)
    BY DEF TypeOK, Teardown
  <1>3. /\ command_queue_' \in Seq(Command) /\ hal_tx' \in Seq(Command)
        /\ ctl_pending' \in Seq(Command) /\ hal_rx' \in Seq(Event)
    BY DEF Teardown
  <1> QED BY <1>1, <1>2, <1>3 DEF TypeOK, Teardown

\* A command that the module or a caller enqueues is a Command.
LEMMA EntryType ==
  ASSUME TypeOK, NEW op \in AllOpCodes, NEW k \in WaitingFor,
         NEW o \in {"caller", "Start", "on_hci_timeout"}
  PROVE  CommandQueueEntry(op, k, o) \in Command
  BY DEF TypeOK, Command, CommandQueueEntry

\* Every step keeps the types.
LEMMA TypeStep == TypeOK /\ [Next]_vars => TypeOK'
  <1> SUFFICES ASSUME TypeOK, [Next]_vars PROVE TypeOK'
    OBVIOUS
  <1> USE OpCodeAssumption, BoundAssumption
  <1>1. CASE Start
    <2> DEFINE c == CommandQueueEntry(RESET, "COMPLETE", "Start")
    <2>1. c \in Command
      BY EntryType DEF AllOpCodes, WaitingFor
    <2>2. send_next_command(<<c>>, NONE, 1, "idle")
      BY <1>1 DEF Start
    <2> HIDE DEF c
    <2>3. <<c>> \in Seq(Command) /\ Head(<<c>>) = c /\ c.op \in AllOpCodes
      BY <2>1 DEF Command
    <2>4. /\ command_queue_' \in Seq(Command)
          /\ waiting_command_' \in AllOpCodes \cup {NONE}
          /\ hci_timeout_alarm_' \in {"null", "idle", "armed"}
      BY <2>2, <2>3 DEF send_next_command, Schedule
    <2>5. command_credits_' \in 0..MaxCredits
      BY <2>2 DEF send_next_command
    <2>6. hal_tx' = hal_tx \/ hal_tx' = Append(hal_tx, c)
      BY <2>2, <2>3 DEF send_next_command
    <2>7. hal_tx \in Seq(Command) /\ Append(hal_tx, c) \in Seq(Command)
      BY <2>1 DEF TypeOK
    <2>8. hal_tx' \in Seq(Command)
      BY <2>6, <2>7
    <2> QED BY <1>1, <2>4, <2>5, <2>8 DEF Start, TypeOK
  <1>2. CASE Stop
    BY <1>2, TeardownType DEF Stop, TypeOK
  <1>3. CASE \E r \in Requests : enqueue_command(r)
    <2>1. PICK r \in Requests : enqueue_command(r)
      BY <1>3
    <2> DEFINE q == Append(command_queue_, CommandQueueEntry(r[1], r[2], "caller"))
    <2>2. r[1] \in AllOpCodes /\ r[2] \in WaitingFor
      BY DEF AllOpCodes, OpCodes
    <2>3. q \in Seq(Command)
      BY <2>2, EntryType DEF TypeOK
    <2>4. send_next_command(q, waiting_command_, command_credits_, hci_timeout_alarm_)
      BY <2>1 DEF enqueue_command
    <2> HIDE DEF q
    <2>5. /\ command_queue_' \in Seq(Command)
          /\ waiting_command_' \in AllOpCodes \cup {NONE}
          /\ command_credits_' \in 0..MaxCredits
          /\ hci_timeout_alarm_' \in {"null", "idle", "armed"}
          /\ hal_tx' \in Seq(Command)
      BY <2>3, <2>4, SendNextType DEF TypeOK
    <2> QED BY <2>1, <2>5 DEF enqueue_command, TypeOK
  <1>4. CASE on_hci_event
    <2> DEFINE e == Head(hal_rx)
    <2>1. e \in Event /\ hal_rx # <<>> /\ Tail(hal_rx) \in Seq(Event)
      BY <1>4 DEF on_hci_event, TypeOK
    <2>2. /\ e.credits \in 0..MaxCredits
          /\ e.id \in Nat
          /\ e.status \in Status
      BY <2>1 DEF Event
    <2>3. CASE handle_command_response(e)
      <3>1. CASE e.op = NONE /\ send_next_command(command_queue_, waiting_command_,
                       GetNumHciCommandPackets(e), hci_timeout_alarm_)
                 /\ UNCHANGED <<reset_result, delivered>>
        <4>1. /\ command_queue_' \in Seq(Command)
              /\ waiting_command_' \in AllOpCodes \cup {NONE}
              /\ command_credits_' \in 0..MaxCredits
              /\ hci_timeout_alarm_' \in {"null", "idle", "armed"}
              /\ hal_tx' \in Seq(Command)
          BY <3>1, <2>2, SendNextType DEF TypeOK, GetNumHciCommandPackets
        <4> QED BY <4>1, <3>1, <2>1, <2>3 DEF TypeOK, handle_command_response
      <3>2. CASE discard_late_response(e)
        BY <3>2, <2>1, <2>2, <2>3
        DEF TypeOK, handle_command_response, discard_late_response,
            GetNumHciCommandPackets
      <3>3. CASE e.op # NONE /\ ~is_late(e) /\ answer_waiting_command(e)
        <4>1. command_queue_ # <<>>
          BY <3>3, <2>3 DEF handle_command_response, failed_assertion
        <4>2. /\ Head(command_queue_) \in Command
              /\ Tail(command_queue_) \in Seq(Command)
          BY <4>1 DEF TypeOK
        <4>5. Head(command_queue_).id \in Nat
          BY <4>2 DEF Command
        <4>6. <<Head(command_queue_).id, e.id>> \in Nat \X Nat
          BY <4>5, <2>2
        <4>7. /\ delivered' = Append(delivered, <<Head(command_queue_).id, e.id>>)
              /\ reset_result' = e.status \/ reset_result' = reset_result
          BY <3>3 DEF answer_waiting_command, Deliver
        <4>8. delivered \in Seq(Nat \X Nat) /\ reset_result \in Status \cup {"none"}
          BY DEF TypeOK
        <4> HIDE DEF e
        <4>3. /\ delivered' \in Seq(Nat \X Nat)
              /\ reset_result' \in Status \cup {"none"}
          BY <4>6, <4>7, <4>8, <2>2
        <4>4. /\ command_queue_' \in Seq(Command)
              /\ waiting_command_' \in AllOpCodes \cup {NONE}
              /\ command_credits_' \in 0..MaxCredits
              /\ hci_timeout_alarm_' \in {"null", "idle", "armed"}
              /\ hal_tx' \in Seq(Command)
          BY <4>2, <3>3, <2>2, SendNextType
          DEF TypeOK, answer_waiting_command, GetNumHciCommandPackets, Cancel
        <4> QED BY <4>3, <4>4, <2>1, <2>3 DEF TypeOK, handle_command_response
      <3> QED BY <2>3, <3>1, <3>2, <3>3 DEF handle_command_response
    <2>4. CASE failed_assertion(e) # "none" /\ Abort(failed_assertion(e))
      <3>1. failed_assertion(e) \in AbortReasons
        BY DEF failed_assertion, AbortReasons, AssertReasons
      <3> QED BY <3>1, <2>4, TeardownType DEF Abort
    <2>5. CASE handle_root_inflammation
      BY <2>1, <2>5 DEF handle_root_inflammation, schedule_abort, TypeOK
    <2>6. CASE Abort("hardware_error")
      BY <2>6, TeardownType DEF Abort, AbortReasons
    <2> QED BY <1>4, <2>3, <2>4, <2>5, <2>6 DEF on_hci_event
  <1>5. CASE on_hci_timeout
    <2> DEFINE c == CommandQueueEntry(CONTROLLER_DEBUG_INFO, "COMPLETE", "on_hci_timeout")
    <2>1. c \in Command
      BY EntryType DEF AllOpCodes, WaitingFor
    <2>2. send_next_command(<<c>>, NONE, 1, "null")
      BY <1>5 DEF on_hci_timeout
    <2> HIDE DEF c
    <2>3. <<c>> \in Seq(Command) /\ Head(<<c>>) = c /\ c.op \in AllOpCodes
      BY <2>1 DEF Command
    <2>4. /\ command_queue_' \in Seq(Command)
          /\ waiting_command_' \in AllOpCodes \cup {NONE}
          /\ hci_timeout_alarm_' \in {"null", "idle", "armed"}
      BY <2>2, <2>3 DEF send_next_command, Schedule
    <2>5. command_credits_' \in 0..MaxCredits
      BY <2>2 DEF send_next_command
    <2>6. hal_tx' = hal_tx \/ hal_tx' = Append(hal_tx, c)
      BY <2>2, <2>3 DEF send_next_command
    <2>7. hal_tx \in Seq(Command) /\ Append(hal_tx, c) \in Seq(Command)
      BY <2>1 DEF TypeOK
    <2>8. hal_tx' \in Seq(Command)
      BY <2>6, <2>7
    <2> QED BY <1>5, <2>4, <2>5, <2>8 DEF on_hci_timeout, schedule_abort, TypeOK
  <1>6. CASE on_hci_abort
    BY <1>6, TeardownType DEF on_hci_abort, Abort, AbortReasons
  <1>7. CASE fail_if_reset_complete_not_success
    <2>1. CASE Abort("reset_failed")
      BY <2>1, TeardownType DEF Abort, AbortReasons
    <2> QED BY <1>7, <2>1
        DEF fail_if_reset_complete_not_success, hostVars, ctlVars, TypeOK
  <1>8. CASE ctl_receive
    BY <1>8 DEF ctl_receive, ctlUnchanged, hostVars, TypeOK
  <1>9. CASE ctl_respond
    <2>1. Head(ctl_pending) \in Command /\ Tail(ctl_pending) \in Seq(Command)
      BY <1>9 DEF ctl_respond, TypeOK
    <2>2. PICK a \in Answers(Head(ctl_pending)), n \in ctl_allowance..MaxCredits :
            /\ ctl_allowance' = n
            /\ hal_rx' = Append(hal_rx,
                 [code |-> a[1], op |-> Head(ctl_pending).op,
                  id |-> Head(ctl_pending).id, credits |-> n, status |-> a[2]])
      BY <1>9 DEF ctl_respond
    <2>3. a[1] \in {"complete", "status"} /\ a[2] \in Status
      BY DEF Answers, Status
    <2>4. n \in 0..MaxCredits
      BY DEF TypeOK
    <2>5. [code |-> a[1], op |-> Head(ctl_pending).op, id |-> Head(ctl_pending).id,
           credits |-> n, status |-> a[2]] \in Event
      BY <2>1, <2>3, <2>4 DEF Event, Command
    <2> QED BY <1>9, <2>1, <2>2, <2>4, <2>5
        DEF ctl_respond, ctlUnchanged, hostVars, TypeOK
  <1>10. CASE ctl_flow_control
    <2>1. PICK n \in (ctl_allowance + 1)..MaxCredits :
            /\ ctl_allowance' = n
            /\ hal_rx' = Append(hal_rx, [code |-> "complete", op |-> NONE, id |-> 0,
                                         credits |-> n, status |-> "SUCCESS"])
      BY <1>10 DEF ctl_flow_control
    <2>2. n \in 0..MaxCredits
      BY DEF TypeOK
    <2>3. [code |-> "complete", op |-> NONE, id |-> 0, credits |-> n,
           status |-> "SUCCESS"] \in Event
      BY <2>2 DEF Event, Status
    <2> QED BY <1>10, <2>1, <2>2, <2>3
        DEF ctl_flow_control, ctlUnchanged, hostVars, TypeOK
  <1>11. CASE ctl_failure
    <2>1. PICK code \in {"root_inflammation", "hardware_error"} :
            hal_rx' = Append(hal_rx, [code |-> code, op |-> NONE, id |-> 0,
                                      credits |-> 0, status |-> "SUCCESS"])
      BY <1>11 DEF ctl_failure
    <2>2. [code |-> code, op |-> NONE, id |-> 0, credits |-> 0,
           status |-> "SUCCESS"] \in Event
      BY DEF Event, Status
    <2> QED BY <1>11, <2>1, <2>2 DEF ctl_failure, ctlUnchanged, hostVars, TypeOK
  <1>12. CASE UNCHANGED vars
    BY <1>12 DEF vars, hostVars, ctlVars, TypeOK
  <1> QED BY <1>1, <1>2, <1>3, <1>4, <1>5, <1>6, <1>7, <1>8, <1>9, <1>10, <1>11,
             <1>12 DEF Next

\* The initial state has the types.
LEMMA TypeInit == Init => TypeOK
  <1> SUFFICES ASSUME Init PROVE TypeOK
    OBVIOUS
  <1>1. command_credits_ \in 0..MaxCredits /\ ctl_allowance \in 0..MaxCredits
    BY BoundAssumption DEF Init
  <1>2. /\ command_queue_ \in Seq(Command) /\ hal_tx \in Seq(Command)
        /\ ctl_pending \in Seq(Command) /\ hal_rx \in Seq(Event)
        /\ delivered \in Seq(Nat \X Nat)
    BY DEF Init
  <1>3. starts \in 0..MaxStarts /\ next_id \in Nat \ {0}
    BY BoundAssumption DEF Init
  <1> QED BY <1>1, <1>2, <1>3 DEF Init, TypeOK, AbortReasons

\* The state of HciLayer::impl and of the transport always has its types.
THEOREM TypeCorrect == Spec => []TypeOK
  BY TypeInit, TypeStep, PTL DEF Spec
-----------------------------------------------------------------------------
(***************************************************************************)
(* How the steps of the handlers and of the controller move the flow.      *)
(***************************************************************************)

\* The next event is under way.
LEMMA HeadUnderWay ==
  ASSUME NEW q, NEW w, NEW tx, NEW pend, NEW rx \in Seq(Event), rx # <<>>,
         UnderWay(q, w, tx, pend, rx)
  PROVE  EventUnderWay(q, w, Head(rx))
  <1>1. 1 \in DOMAIN rx /\ Head(rx) = rx[1]
    BY FirstItem
  <1> QED BY <1>1 DEF UnderWay

\* The host waits for the debug information only after a timeout.
LEMMA NoDebugBeforeTimeout ==
  ASSUME NEW q \in Seq(Command), NEW w, NEW a, NEW to, ~to,
         WaitsForHead(q, w, a, to)
  PROVE  w # CONTROLLER_DEBUG_INFO
  <1> SUFFICES ASSUME w = CONTROLLER_DEBUG_INFO PROVE FALSE
    OBVIOUS
  <1>1. w # NONE
    BY OpCodeAssumption DEF AllOpCodes
  <1>2. q # <<>> /\ q[1].op = CONTROLLER_DEBUG_INFO
    BY <1>1 DEF WaitsForHead
  <1>3. 1 \in DOMAIN q
    BY <1>2, FirstItem
  <1> QED BY <1>2, <1>3 DEF WaitsForHead

\* While the host waits for nothing, nothing is under way.
LEMMA NothingUnderWay ==
  ASSUME NEW q, NEW tx \in Seq(Command), NEW pend \in Seq(Command),
         NEW rx \in Seq(Event), UnderWay(q, NONE, tx, pend, rx)
  PROVE  tx = <<>> /\ pend = <<>> /\ \A i \in DOMAIN rx : rx[i].op = NONE
  <1>1. NONE \notin AllOpCodes /\ NONE # CONTROLLER_DEBUG_INFO
    BY OpCodeAssumption DEF AllOpCodes
  <1>2. ASSUME NEW x \in Command PROVE ~CommandUnderWay(q, NONE, x)
    BY <1>1 DEF CommandUnderWay, Command
  <1>3. (tx # <<>> => 1 \in DOMAIN tx /\ tx[1] \in Command)
        /\ (pend # <<>> => 1 \in DOMAIN pend /\ pend[1] \in Command)
    OBVIOUS
  <1>4. tx = <<>> /\ pend = <<>>
    BY <1>2, <1>3 DEF UnderWay
  <1>5. ASSUME NEW i \in DOMAIN rx PROVE rx[i].op = NONE
    BY <1>1, <1>5 DEF UnderWay, EventUnderWay
  <1> QED BY <1>4, <1>5

\* send_next_command sends the head of the queue.
LEMMA FlowSend ==
  ASSUME NEW q \in Seq(Command), NEW w \in AllOpCodes \cup {NONE},
         NEW c \in 0..MaxCredits, NEW a \in {"null", "idle", "armed"},
         NEW tx \in Seq(Command), NEW pend \in Seq(Command), NEW rx \in Seq(Event),
         NEW allow \in 0..MaxCredits, NEW to,
         Flow(q, w, c, a, tx, pend, rx, allow, to), may_send(q, w, c)
  PROVE  Flow(q, Head(q).op, 0, Schedule(a),
              Append(tx, Head(q)), pend, rx, allow, to)
  <1>1. w = NONE /\ q # <<>> /\ c > 0 /\ Head(q) = q[1] /\ q[1] \in Command
    BY DEF may_send
  <1>2. tx = <<>> /\ pend = <<>> /\ \A i \in DOMAIN rx : rx[i].op = NONE
    BY <1>1, NothingUnderWay DEF Flow
  <1>3. q[1].op \in AllOpCodes /\ q[1].op # NONE
    BY <1>1, OpCodeAssumption DEF Command
  <1>4. Append(tx, Head(q)) = <<q[1]>>
    BY <1>1, <1>2
  <1>5. WaitsForHead(q, q[1].op, Schedule(a), to)
    BY <1>1, <1>3 DEF Flow, WaitsForHead, Schedule
  <1>6. UnderWay(q, q[1].op, <<q[1]>>, pend, rx)
    BY <1>1, <1>2, <1>3 DEF UnderWay, CommandUnderWay, EventUnderWay
  <1>7. NothingFollows(q[1].op, <<q[1]>>, pend, rx)
    BY <1>1, <1>2, <1>3 DEF NothingFollows
  <1>8. Covered(q[1].op, 0, <<q[1]>>, rx, allow, to)
    BY <1>1, <1>2, <1>3 DEF Flow, Covered
  <1> QED BY <1>1, <1>4, <1>5, <1>6, <1>7, <1>8 DEF Flow

\* A command is appended to the queue.
LEMMA FlowEnqueue ==
  ASSUME NEW q \in Seq(Command), NEW w \in AllOpCodes \cup {NONE},
         NEW c \in 0..MaxCredits, NEW a \in {"null", "idle", "armed"},
         NEW tx \in Seq(Command), NEW pend \in Seq(Command), NEW rx \in Seq(Event),
         NEW allow \in 0..MaxCredits, NEW to,
         Flow(q, w, c, a, tx, pend, rx, allow, to),
         NEW x \in Command, x.op # CONTROLLER_DEBUG_INFO
  PROVE  Flow(Append(q, x), w, c, a, tx, pend, rx, allow, to)
  <1> DEFINE p == Append(q, x)
  <1>1. w # NONE => q # <<>> /\ p # <<>> /\ p[1] = q[1]
    BY DEF Flow, WaitsForHead
  <1>2. WaitsForHead(p, w, a, to)
    BY <1>1 DEF Flow, WaitsForHead
  <1> HIDE DEF p
  <1>3. UnderWay(p, w, tx, pend, rx)
    <2>1. ASSUME NEW y \in Command, CommandUnderWay(q, w, y)
          PROVE  CommandUnderWay(p, w, y)
      BY <1>1, <2>1, OpCodeAssumption DEF CommandUnderWay, Command
    <2>2. ASSUME NEW e, EventUnderWay(q, w, e)
          PROVE  EventUnderWay(p, w, e)
      BY <1>1, <2>2 DEF EventUnderWay
    <2> QED BY <2>1, <2>2 DEF Flow, UnderWay
  <1> QED BY <1>2, <1>3 DEF Flow, p

\* An event that answers no command the host waits for is taken, with its credits.
LEMMA FlowPass ==
  ASSUME NEW q \in Seq(Command), NEW w \in AllOpCodes \cup {NONE},
         NEW c \in 0..MaxCredits, NEW a \in {"null", "idle", "armed"},
         NEW tx \in Seq(Command), NEW pend \in Seq(Command), NEW rx \in Seq(Event),
         NEW allow \in 0..MaxCredits, NEW to,
         Flow(q, w, c, a, tx, pend, rx, allow, to), rx # <<>>,
         Head(rx).op = NONE \/ w = CONTROLLER_DEBUG_INFO
  PROVE  /\ Flow(q, w, Head(rx).credits, a, tx, pend, Tail(rx), allow, to)
         /\ Flow(q, w, c, a, tx, pend, Tail(rx), allow, to)
  <1> DEFINE t == Tail(rx)
  <1>1. /\ t \in Seq(Event) /\ Len(t) = Len(rx) - 1 /\ Head(rx) = rx[1]
        /\ \A i \in DOMAIN t : t[i] = rx[i + 1] /\ i + 1 \in DOMAIN rx
        /\ 1 \in DOMAIN rx
    OBVIOUS
  <1> HIDE DEF t
  <1>2. UnderWay(q, w, tx, pend, t)
    BY <1>1 DEF Flow, UnderWay
  <1>3. NothingFollows(w, tx, pend, t)
    <2>1. ASSUME NEW i \in DOMAIN t, t[i].op = w, w # NONE
          PROVE  /\ \A j \in DOMAIN t : i < j => t[j].op = NONE
                 /\ pend = <<>> /\ tx = <<>>
      <3>1. /\ \A j \in DOMAIN rx : i + 1 < j => rx[j].op = NONE
            /\ pend = <<>> /\ tx = <<>>
        BY <1>1, <2>1 DEF Flow, NothingFollows
      <3>2. ASSUME NEW j \in DOMAIN t, i < j PROVE i + 1 < j + 1
        BY <1>1, <3>2
      <3> QED BY <1>1, <3>1, <3>2
    <2> QED BY <2>1 DEF Flow, NothingFollows
  <1>4. Covered(w, c, tx, rx, allow, to)
    BY DEF Flow
  <1>5. Covered(w, c, tx, t, allow, to)
    <2> SUFFICES ASSUME ~to PROVE Covered(w, c, tx, t, allow, to)
      BY DEF Covered
    <2>1. w = NONE => c <= allow /\ \A i \in DOMAIN t : t[i].credits <= allow
      BY <1>1, <1>4 DEF Covered
    <2>2. ASSUME NEW i \in DOMAIN t, NEW j \in DOMAIN t, t[i].op # NONE, i <= j
          PROVE  t[j].credits <= allow
      <3>1. /\ i + 1 \in DOMAIN rx /\ j + 1 \in DOMAIN rx /\ i + 1 <= j + 1
            /\ t[i] = rx[i + 1] /\ t[j] = rx[j + 1]
        BY <1>1, <2>2
      <3> QED BY <1>4, <2>2, <3>1 DEF Covered
    <2>3. tx # <<>> => allow > 0
      BY <1>4 DEF Covered
    <2> QED BY <2>1, <2>2, <2>3 DEF Covered
  <1>6. Covered(w, rx[1].credits, tx, t, allow, to)
    <2>1. ~to /\ w = NONE => rx[1].credits <= allow
      BY <1>1, <1>4 DEF Covered
    <2> QED BY <1>5, <2>1 DEF Covered
  <1> QED BY <1>1, <1>2, <1>3, <1>5, <1>6 DEF Flow, t

\* The response the host waits for is taken: its command leaves the queue, and
\* the timeout alarm, if it exists, is cancelled.
LEMMA FlowAnswer ==
  ASSUME NEW q \in Seq(Command), NEW w \in AllOpCodes \cup {NONE},
         NEW c \in 0..MaxCredits, NEW a \in {"null", "idle", "armed"},
         NEW tx \in Seq(Command), NEW pend \in Seq(Command), NEW rx \in Seq(Event),
         NEW allow \in 0..MaxCredits, NEW to,
         Flow(q, w, c, a, tx, pend, rx, allow, to), rx # <<>>,
         w # NONE, Head(rx).op = w
  PROVE  Flow(Tail(q), NONE, Head(rx).credits, IF a = "null" THEN "null" ELSE "idle",
              tx, pend, Tail(rx), allow, to)
  <1> DEFINE t == Tail(rx)
  <1>1. /\ t \in Seq(Event) /\ Len(t) = Len(rx) - 1 /\ Head(rx) = rx[1]
        /\ \A i \in DOMAIN t : t[i] = rx[i + 1] /\ i + 1 \in DOMAIN rx /\ 1 < i + 1
        /\ 1 \in DOMAIN rx
    OBVIOUS
  <1> HIDE DEF t
  <1>2. /\ tx = <<>> /\ pend = <<>>
        /\ \A i \in DOMAIN t : t[i].op = NONE
    BY <1>1 DEF Flow, NothingFollows
  <1>3. WaitsForHead(Tail(q), NONE, IF a = "null" THEN "null" ELSE "idle", to)
    <2>1. q # <<>>
      BY DEF Flow, WaitsForHead
    <2>2. \A i \in DOMAIN Tail(q) : Tail(q)[i] = q[i + 1] /\ i + 1 \in DOMAIN q
      BY <2>1
    <2>3. ASSUME NEW i \in DOMAIN Tail(q), Tail(q)[i].op = CONTROLLER_DEBUG_INFO
          PROVE  a = "null" /\ to
      BY <2>2, <2>3 DEF Flow, WaitsForHead
    <2> QED BY <2>3 DEF WaitsForHead
  <1>4. UnderWay(Tail(q), NONE, tx, pend, t)
    BY <1>2 DEF UnderWay, EventUnderWay
  <1>5. NothingFollows(NONE, tx, pend, t)
    BY <1>2 DEF NothingFollows
  <1>6. Covered(NONE, rx[1].credits, tx, t, allow, to)
    <2> SUFFICES ASSUME ~to PROVE Covered(NONE, rx[1].credits, tx, t, allow, to)
      BY DEF Covered
    <2>1. \A j \in DOMAIN rx : 1 <= j => rx[j].credits <= allow
      BY <1>1 DEF Flow, Covered
    <2>2. \A j \in DOMAIN rx : 1 <= j
      OBVIOUS
    <2> QED BY <1>1, <1>2, <2>1, <2>2 DEF Covered
  <1> QED BY <1>1, <1>3, <1>4, <1>5, <1>6 DEF Flow, t

\* The timeout: everything under way is late from now on, and the controller is
\* asked for debug information.
LEMMA FlowTimeout ==
  ASSUME NEW q \in Seq(Command), NEW w \in AllOpCodes \cup {NONE},
         NEW c \in 0..MaxCredits, NEW a \in {"null", "idle", "armed"},
         NEW tx \in Seq(Command), NEW pend \in Seq(Command), NEW rx \in Seq(Event),
         NEW allow \in 0..MaxCredits, NEW to,
         Flow(q, w, c, a, tx, pend, rx, allow, to), a = "armed",
         NEW x \in Command, x.op = CONTROLLER_DEBUG_INFO
  PROVE  Flow(<<x>>, x.op, 0, "null", Append(tx, x), pend, rx, allow, TRUE)
  <1>1. w # NONE /\ w # CONTROLLER_DEBUG_INFO
    BY DEF Flow, WaitsForHead
  <1>2. WaitsForHead(<<x>>, x.op, "null", TRUE)
    BY DEF WaitsForHead
  <1>3. /\ \A i \in DOMAIN tx : tx[i].op # x.op
        /\ \A i \in DOMAIN pend : pend[i].op # x.op
        /\ \A i \in DOMAIN rx : rx[i].op = NONE \/
             (rx[i].op # x.op /\ rx[i].code \in {"complete", "status"})
    BY <1>1 DEF Flow, UnderWay, CommandUnderWay, EventUnderWay
  <1>4. /\ Len(Append(tx, x)) = Len(tx) + 1
        /\ \A i \in DOMAIN Append(tx, x) :
             IF i = Len(tx) + 1 THEN Append(tx, x)[i] = x
             ELSE i \in DOMAIN tx /\ Append(tx, x)[i] = tx[i]
    OBVIOUS
  <1>5. UnderWay(<<x>>, x.op, Append(tx, x), pend, rx)
    BY <1>3, <1>4 DEF UnderWay, CommandUnderWay, EventUnderWay
  <1>6. x.op # NONE
    BY OpCodeAssumption DEF AllOpCodes
  <1>7. NothingFollows(x.op, Append(tx, x), pend, rx)
    BY <1>3, <1>4, <1>6 DEF NothingFollows
  <1>8. Covered(x.op, 0, Append(tx, x), rx, allow, TRUE)
    BY DEF Covered
  <1> QED BY <1>2, <1>5, <1>7, <1>8 DEF Flow

\* The controller receives a command.
LEMMA FlowReceive ==
  ASSUME NEW q \in Seq(Command), NEW w \in AllOpCodes \cup {NONE},
         NEW c \in 0..MaxCredits, NEW a \in {"null", "idle", "armed"},
         NEW tx \in Seq(Command), NEW pend \in Seq(Command), NEW rx \in Seq(Event),
         NEW allow \in 0..MaxCredits, NEW to,
         Flow(q, w, c, a, tx, pend, rx, allow, to), tx # <<>>
  PROVE  Flow(q, w, c, a, Tail(tx), Append(pend, Head(tx)), rx,
              IF allow = 0 THEN 0 ELSE allow - 1, to)
  <1> DEFINE t == Tail(tx)
             p == Append(pend, Head(tx))
             n == IF allow = 0 THEN 0 ELSE allow - 1
  <1>1. /\ t \in Seq(Command) /\ Len(t) = Len(tx) - 1
        /\ \A i \in DOMAIN t : t[i] = tx[i + 1] /\ i + 1 \in DOMAIN tx
        /\ 1 \in DOMAIN tx /\ (1 = Len(tx) => t = <<>>)
    <2>1. /\ t \in Seq(Command) /\ Len(t) = Len(tx) - 1
          /\ \A i \in DOMAIN t : t[i] = tx[i + 1] /\ i + 1 \in DOMAIN tx
          /\ 1 \in DOMAIN tx
      OBVIOUS
    <2> HIDE DEF t
    <2>2. Len(t) = 0 => t = <<>>
      BY <2>1
    <2> QED BY <2>1, <2>2
  <1>2. /\ p \in Seq(Command) /\ Len(p) = Len(pend) + 1
        /\ \A i \in DOMAIN p : IF i = Len(p) THEN p[i] = tx[1]
                               ELSE i \in DOMAIN pend /\ p[i] = pend[i]
    <2>1. Head(tx) = tx[1] /\ tx[1] \in Command
      OBVIOUS
    <2> QED BY <2>1
  <1> HIDE DEF t, p
  <1>3. UnderWay(q, w, t, p, rx)
    BY <1>1, <1>2 DEF Flow, UnderWay
  <1>4. /\ \A i \in DOMAIN tx : tx[i].op = w => i = Len(tx)
        /\ \A i \in DOMAIN pend : pend[i].op # w
        /\ \A i \in DOMAIN rx : rx[i].op = w => w = NONE
    BY DEF Flow, NothingFollows
  <1>5. NothingFollows(w, t, p, rx)
    <2>1. ASSUME NEW i \in DOMAIN t, t[i].op = w PROVE i = Len(t)
      BY <1>1, <1>4, <2>1
    <2>2. ASSUME NEW i \in DOMAIN p, p[i].op = w PROVE i = Len(p) /\ t = <<>>
      BY <1>1, <1>2, <1>4, <2>2
    <2> QED BY <1>4, <2>1, <2>2 DEF NothingFollows
  <1>6. Covered(w, c, t, rx, n, to)
    <2> SUFFICES ASSUME ~to PROVE Covered(w, c, t, rx, n, to)
      BY DEF Covered
    <2>1. w # CONTROLLER_DEBUG_INFO
      <3>1. WaitsForHead(q, w, a, to)
        BY DEF Flow
      <3> QED BY <3>1, NoDebugBeforeTimeout
    <2>2. w # NONE
      BY NothingUnderWay DEF Flow
    <2>3. \A i \in DOMAIN rx : rx[i].op = NONE
      BY <1>4, <2>1, <2>2 DEF Flow, UnderWay, EventUnderWay
    <2>4. t = <<>>
      BY <1>1, <1>4, <2>1 DEF Flow, UnderWay, CommandUnderWay
    <2> QED BY <2>2, <2>3, <2>4 DEF Covered
  <1> QED BY <1>3, <1>5, <1>6 DEF Flow, t, p

\* The controller sends an event that answers no command, and offers n places.
LEMMA FlowEvent ==
  ASSUME NEW q \in Seq(Command), NEW w \in AllOpCodes \cup {NONE},
         NEW c \in 0..MaxCredits, NEW a \in {"null", "idle", "armed"},
         NEW tx \in Seq(Command), NEW pend \in Seq(Command), NEW rx \in Seq(Event),
         NEW allow \in 0..MaxCredits, NEW to,
         Flow(q, w, c, a, tx, pend, rx, allow, to),
         NEW e \in Event, e.op = NONE, NEW n \in allow..MaxCredits,
         e.credits <= n
  PROVE  Flow(q, w, c, a, tx, pend, Append(rx, e), n, to)
  <1> DEFINE r == Append(rx, e)
  <1>5. Appended(Event, r, rx, e)
    BY AppendedItems, Zenon
  <1> HIDE DEF r
  <1>1. /\ r \in Seq(Event) /\ Len(r) = Len(rx) + 1
        /\ \A i \in DOMAIN r : IF i = Len(r) THEN r[i] = e
                               ELSE i \in DOMAIN rx /\ r[i] = rx[i]
    BY <1>5 DEF Appended
  <1>2. UnderWay(q, w, tx, pend, r)
    BY <1>1 DEF Flow, UnderWay, EventUnderWay
  <1>3. NothingFollows(w, tx, pend, r)
    BY <1>1 DEF Flow, NothingFollows
  <1>4. Covered(w, c, tx, r, n, to)
    <2> SUFFICES ASSUME ~to PROVE Covered(w, c, tx, r, n, to)
      BY DEF Covered
    <2>1. allow \in Nat /\ n \in Nat /\ allow <= n
      BY BoundAssumption
    <2>2. \A i \in DOMAIN rx : rx[i].credits \in Nat
      <3>1. ASSUME NEW x \in Event PROVE x.credits \in Nat
        BY BoundAssumption DEF Event
      <3> QED BY <3>1
    <2>6. Covered(w, c, tx, rx, allow, to)
      BY DEF Flow
    <2>3. ASSUME w = NONE PROVE c <= n /\ \A i \in DOMAIN r : r[i].credits <= n
      <3>1. c <= allow /\ \A i \in DOMAIN rx : rx[i].credits <= allow
        BY <2>3, <2>6 DEF Covered
      <3>2. c <= n
        BY <2>1, <3>1
      <3>3. \A i \in DOMAIN rx : rx[i].credits <= n
        BY <2>1, <2>2, <3>1
      <3> QED BY <1>1, <3>2, <3>3
    <2>4. ASSUME NEW i \in DOMAIN r, NEW j \in DOMAIN r, r[i].op # NONE, i <= j
          PROVE  r[j].credits <= n
      <3>1. CASE j = Len(r)
        BY <1>1, <3>1
      <3>2. CASE j # Len(r)
        <4>1. /\ i \in DOMAIN rx /\ j \in DOMAIN rx
              /\ r[i] = rx[i] /\ r[j] = rx[j]
          BY <1>1, <2>4, <3>2
        <4>2. rx[j].credits <= allow
          BY <2>4, <2>6, <4>1 DEF Covered
        <4> QED BY <2>1, <2>2, <4>1, <4>2
      <3> QED BY <3>1, <3>2
    <2>5. tx # <<>> => n > 0
      BY <2>1, <2>6 DEF Covered
    <2> QED BY <2>3, <2>4, <2>5 DEF Covered
  <1> QED BY <1>2, <1>3, <1>4 DEF Flow, r

\* A command accepts the events the controller may answer it with.
LEMMA AnswerAccepted ==
  ASSUME NEW x \in Command, NEW y \in Answers(x), NEW e \in Event,
         e.code = y[1], e.status = y[2], e.op = x.op
  PROVE  accepts(x, e)
  <1>1. x.waiting_for_ \in WaitingFor /\ is_vendor_specific(e.op)
    BY OpCodeAssumption DEF Command, is_vendor_specific
  <1>2. CASE x.waiting_for_ = "STATUS"
    BY <1>2 DEF Answers, accepts
  <1>3. CASE x.waiting_for_ = "COMPLETE"
    BY <1>1, <1>3 DEF Answers, accepts
  <1>4. CASE x.waiting_for_ = "STATUS_OR_COMPLETE"
    BY <1>4 DEF accepts
  <1> QED BY <1>1, <1>2, <1>3, <1>4 DEF WaitingFor

\* The controller answers the oldest command it holds, and offers n places.
LEMMA FlowRespond ==
  ASSUME NEW q \in Seq(Command), NEW w \in AllOpCodes \cup {NONE},
         NEW c \in 0..MaxCredits, NEW a \in {"null", "idle", "armed"},
         NEW tx \in Seq(Command), NEW pend \in Seq(Command), NEW rx \in Seq(Event),
         NEW allow \in 0..MaxCredits, NEW to,
         Flow(q, w, c, a, tx, pend, rx, allow, to), pend # <<>>,
         NEW y \in Answers(Head(pend)), NEW e \in Event, NEW n \in allow..MaxCredits,
         e.code = y[1], e.status = y[2], e.op = Head(pend).op, e.id = Head(pend).id,
         e.credits = n
  PROVE  Flow(q, w, c, a, tx, Tail(pend), Append(rx, e), n, to)
  <1> DEFINE t == Tail(pend)
             r == Append(rx, e)
  <1>1. /\ t \in Seq(Command) /\ Len(t) = Len(pend) - 1
        /\ \A i \in DOMAIN t : t[i] = pend[i + 1] /\ i + 1 \in DOMAIN pend
        /\ 1 \in DOMAIN pend /\ Head(pend) = pend[1] /\ pend[1] \in Command
    OBVIOUS
  <1>10. Appended(Event, r, rx, e)
    BY AppendedItems, Zenon
  <1> HIDE DEF r
  <1>2. /\ r \in Seq(Event) /\ Len(r) = Len(rx) + 1
        /\ \A i \in DOMAIN r : IF i = Len(r) THEN r[i] = e
                               ELSE i \in DOMAIN rx /\ r[i] = rx[i] /\ i < Len(r)
    BY <1>10, Zenon DEF Appended
  <1>3. e.code \in {"complete", "status"} /\ accepts(pend[1], e)
    <2>1. y[1] \in {"complete", "status"}
      BY DEF Answers
    <2> QED BY <1>1, <2>1, AnswerAccepted
  <1>4. EventUnderWay(q, w, e)
    BY <1>1, <1>3 DEF Flow, UnderWay, CommandUnderWay, EventUnderWay
  <1> HIDE DEF t, r
  <1>5. UnderWay(q, w, tx, t, r)
    BY <1>1, <1>2, <1>4 DEF Flow, UnderWay
  <1>6. pend[1].op = w => t = <<>> /\ tx = <<>>
    <2>1. pend[1].op = w => 1 = Len(pend) /\ tx = <<>>
      BY <1>1 DEF Flow, NothingFollows
    <2>2. Len(pend) = 1 => Tail(pend) = <<>>
      BY OnlyItem, Zenon
    <2> QED BY <2>1, <2>2, Zenon DEF t
  <1>7. \A i \in DOMAIN rx : rx[i].op = w => w = NONE
    BY <1>1 DEF Flow, NothingFollows
  <1>8. NothingFollows(w, tx, t, r)
    <2>1. ASSUME NEW i \in DOMAIN t, t[i].op = w PROVE i = Len(t) /\ tx = <<>>
      <3>1. i + 1 \in DOMAIN pend /\ pend[i + 1].op = w
        BY <1>1, <2>1
      <3>2. i + 1 = Len(pend) /\ tx = <<>>
        BY <3>1 DEF Flow, NothingFollows
      <3> QED BY <1>1, <3>2
    <2>2. ASSUME NEW i \in DOMAIN r, r[i].op = w, w # NONE
          PROVE  /\ \A j \in DOMAIN r : i < j => r[j].op = NONE
                 /\ t = <<>> /\ tx = <<>>
      <3>1. i = Len(r) /\ e.op = w
        BY <1>2, <1>7, <2>2
      <3>2. \A j \in DOMAIN r : ~(i < j)
        BY <1>2, <3>1
      <3> QED BY <1>1, <1>6, <3>1, <3>2
    <2> QED BY <2>1, <2>2 DEF Flow, NothingFollows
  <1>9. Covered(w, c, tx, r, n, to)
    <2> SUFFICES ASSUME ~to PROVE Covered(w, c, tx, r, n, to)
      BY DEF Covered
    <2>1. w # CONTROLLER_DEBUG_INFO
      <3>1. WaitsForHead(q, w, a, to)
        BY DEF Flow
      <3> QED BY <3>1, NoDebugBeforeTimeout
    <2>2. w # NONE
      BY NothingUnderWay DEF Flow
    <2>3. \A i \in DOMAIN rx : rx[i].op = NONE
      BY <1>7, <2>1, <2>2 DEF Flow, UnderWay, EventUnderWay
    <2>4. tx = <<>>
      BY <1>1, <1>6, <2>1 DEF Flow, UnderWay, CommandUnderWay
    <2>5. n \in Nat
      BY BoundAssumption
    <2>6. ASSUME NEW i \in DOMAIN r, NEW j \in DOMAIN r, r[i].op # NONE, i <= j
          PROVE  r[j].credits <= n
      <3>1. DOMAIN r = 1..Len(r) /\ Len(r) \in Nat
        BY <1>2
      <3>2. i = Len(r)
        BY <1>2, <2>3, <2>6
      <3>3. j = Len(r)
        BY <2>6, <3>1, <3>2
      <3>4. r[j] = e
        BY <1>2, <3>3
      <3> QED BY <2>5, <3>4
    <2> QED BY <2>2, <2>4, <2>6 DEF Covered
  <1> QED BY <1>5, <1>8, <1>9 DEF Flow, t, r

\* The timeout alarm is deleted.
LEMMA FlowNoAlarm ==
  ASSUME NEW q \in Seq(Command), NEW w \in AllOpCodes \cup {NONE},
         NEW c \in 0..MaxCredits, NEW a \in {"null", "idle", "armed"},
         NEW tx \in Seq(Command), NEW pend \in Seq(Command), NEW rx \in Seq(Event),
         NEW allow \in 0..MaxCredits, NEW to,
         Flow(q, w, c, a, tx, pend, rx, allow, to)
  PROVE  Flow(q, w, c, "null", tx, pend, rx, allow, to)
  BY DEF Flow, WaitsForHead

\* Nothing has happened yet.
LEMMA FlowEmpty ==
  ASSUME NEW a \in {"null", "idle"}
  PROVE  Flow(<<>>, NONE, 1, a, <<>>, <<>>, <<>>, 1, FALSE)
  <1>1. DOMAIN <<>> = {}
    OBVIOUS
  <1>2. WaitsForHead(<<>>, NONE, a, FALSE)
    BY <1>1 DEF WaitsForHead
  <1>3. UnderWay(<<>>, NONE, <<>>, <<>>, <<>>)
    BY <1>1 DEF UnderWay
  <1>4. NothingFollows(NONE, <<>>, <<>>, <<>>)
    BY <1>1 DEF NothingFollows
  <1>5. Covered(NONE, 1, <<>>, <<>>, 1, FALSE)
    BY <1>1 DEF Covered
  <1> QED BY <1>2, <1>3, <1>4, <1>5 DEF Flow

\* send_next_command keeps the flow that the calling handler has left.
LEMMA SendNextFlow ==
  ASSUME TypeOK, TypeOK',
         NEW q \in Seq(Command), NEW w \in AllOpCodes \cup {NONE},
         NEW c \in 0..MaxCredits, NEW a \in {"null", "idle", "armed"},
         Flow(q, w, c, a, hal_tx, ctl_pending', hal_rx', ctl_allowance', timed_out'),
         send_next_command(q, w, c, a)
  PROVE  FlowOK'
  <1>1. /\ hal_tx \in Seq(Command) /\ ctl_pending' \in Seq(Command)
        /\ hal_rx' \in Seq(Event) /\ ctl_allowance' \in 0..MaxCredits
        /\ timed_out' \in BOOLEAN
    BY DEF TypeOK
  <1>2. CASE may_send(q, w, c)
    <2>1. Flow(q, Head(q).op, 0, Schedule(a), Append(hal_tx, Head(q)), ctl_pending',
               hal_rx', ctl_allowance', timed_out')
      BY <1>1, <1>2, FlowSend
    <2> QED BY <1>2, <2>1 DEF FlowOK, send_next_command
  <1>3. CASE ~may_send(q, w, c)
    BY <1>3 DEF FlowOK, send_next_command
  <1> QED BY <1>2, <1>3

\* A command that gets the next number is appended to the queue.
LEMMA NumberedEnqueue ==
  ASSUME NEW q \in Seq(Command), NEW n \in Nat, NEW d \in Seq(Nat \X Nat),
         Numbered(q, n, d), NEW x \in Command, x.id = n
  PROVE  Numbered(Append(q, x), n + 1, d)
  <1> DEFINE p == Append(q, x)
  <1>1. /\ Len(p) = Len(q) + 1
        /\ \A i \in DOMAIN p : IF i = Len(p) THEN p[i] = x
                               ELSE i \in DOMAIN q /\ p[i] = q[i]
    OBVIOUS
  <1>6. \A i, j \in DOMAIN p : i < j => i \in DOMAIN q /\ i # Len(p)
    BY <1>1
  <1> HIDE DEF p
  <1>7. \A y \in Command : y.id \in Nat
    BY DEF Command
  <1>2. /\ \A i \in DOMAIN q : q[i].id \in Nat
        /\ \A i \in DOMAIN d : d[i][1] \in Nat
    BY <1>7
  <1>3. \A i \in DOMAIN p : p[i].id < n + 1
    BY <1>1, <1>2 DEF Numbered
  <1>4. \A i, j \in DOMAIN p : i < j => p[i].id < p[j].id
    BY <1>1, <1>2, <1>6 DEF Numbered
  <1>5. ASSUME NEW i \in DOMAIN d
        PROVE  /\ d[i][1] < n + 1
               /\ \A j \in DOMAIN p : d[i][1] < p[j].id
    <2>1. d[i][1] \in Nat /\ d[i][1] < n /\ \A j \in DOMAIN q : d[i][1] < q[j].id
      BY <1>2 DEF Numbered
    <2>2. d[i][1] < n + 1
      BY <2>1
    <2>3. ASSUME NEW j \in DOMAIN p PROVE d[i][1] < p[j].id
      BY <1>1, <2>1
    <2> QED BY <2>2, <2>3
  <1> QED BY <1>3, <1>4, <1>5 DEF Numbered, p

\* The queue is flushed.
LEMMA NumberedFlush ==
  ASSUME NEW q \in Seq(Command), NEW n \in Nat, NEW d \in Seq(Nat \X Nat),
         Numbered(q, n, d)
  PROVE  Numbered(<<>>, n, d)
  <1>1. DOMAIN <<>> = {}
    OBVIOUS
  <1> QED BY <1>1 DEF Numbered

\* The head of the queue is answered.
LEMMA NumberedAnswer ==
  ASSUME NEW q \in Seq(Command), NEW n \in Nat, NEW d \in Seq(Nat \X Nat),
         Numbered(q, n, d), q # <<>>
  PROVE  Numbered(Tail(q), n, Append(d, <<q[1].id, q[1].id>>))
  <1> DEFINE t == Tail(q)
             k == <<q[1].id, q[1].id>>
             f == Append(d, k)
  <1>1. /\ \A i \in DOMAIN t : t[i] = q[i + 1] /\ i + 1 \in DOMAIN q /\ 1 < i + 1
        /\ \A i, j \in DOMAIN t : i < j => i + 1 < j + 1
        /\ 1 \in DOMAIN q /\ q[1] \in Command
    OBVIOUS
  <1>2. q[1].id \in Nat /\ k[1] = q[1].id /\ k[2] = q[1].id /\ k \in Nat \X Nat
    BY <1>1 DEF Command
  <1> HIDE DEF t, k
  <1>8. Appended(Nat \X Nat, f, d, k)
    BY <1>2, AppendedItems, Zenon
  <1> HIDE DEF f
  <1>3. /\ f \in Seq(Nat \X Nat) /\ Len(f) = Len(d) + 1
        /\ \A i \in DOMAIN f : IF i = Len(f) THEN f[i] = k
                               ELSE i \in DOMAIN d /\ f[i] = d[i]
    BY <1>8 DEF Appended
  <1>7. ASSUME NEW i \in DOMAIN f, NEW j \in DOMAIN f, i < j
        PROVE  i \in DOMAIN d /\ i # Len(f)
    <2>1. DOMAIN f = 1..Len(f) /\ Len(f) \in Nat
      BY <1>3
    <2>2. i # Len(f)
      BY <1>7, <2>1
    <2> QED BY <1>3, <2>2
  <1>4. /\ \A i \in DOMAIN t : t[i].id < n
        /\ \A i, j \in DOMAIN t : i < j => t[i].id < t[j].id
    BY <1>1 DEF Numbered
  <1>5. ASSUME NEW i \in DOMAIN f
        PROVE  /\ f[i][1] = f[i][2]
               /\ f[i][1] < n
               /\ \A j \in DOMAIN t : f[i][1] < t[j].id
    <2>1. CASE i = Len(f)
      <3>1. f[i][1] = q[1].id /\ f[i][2] = q[1].id
        BY <1>2, <1>3, <2>1
      <3>2. q[1].id < n /\ \A j \in DOMAIN t : q[1].id < t[j].id
        BY <1>1 DEF Numbered
      <3> QED BY <3>1, <3>2
    <2>2. CASE i # Len(f)
      BY <1>1, <1>3, <2>2 DEF Numbered
    <2> QED BY <2>1, <2>2
  <1>6. ASSUME NEW i \in DOMAIN f, NEW j \in DOMAIN f, i < j
        PROVE  f[i][1] < f[j][1]
    <2>1. i \in DOMAIN d /\ f[i] = d[i]
      BY <1>3, <1>6, <1>7
    <2>2. d[i][1] < q[1].id
      BY <1>1, <2>1 DEF Numbered
    <2>3. CASE j = Len(f)
      BY <1>2, <1>3, <2>1, <2>2, <2>3
    <2>4. CASE j # Len(f)
      BY <1>3, <1>6, <2>1, <2>4 DEF Numbered
    <2> QED BY <2>3, <2>4
  <1> QED BY <1>4, <1>5, <1>6 DEF Numbered, t, f, k
-----------------------------------------------------------------------------
(***************************************************************************)
(* The inductive invariant is one.                                         *)
(***************************************************************************)

\* The assertions on a command response hold.
LEMMA NoFailedAssertion ==
  ASSUME TypeOK, FlowOK, hal_rx # <<>>
  PROVE  failed_assertion(Head(hal_rx)) = "none"
  <1> DEFINE e == Head(hal_rx)
             q == command_queue_
             w == waiting_command_
  <1>1. EventUnderWay(q, w, e)
    <2>1. UnderWay(q, w, hal_tx, ctl_pending, hal_rx) /\ hal_rx \in Seq(Event)
      BY DEF TypeOK, FlowOK, Flow
    <2> QED BY <2>1, HeadUnderWay
  <1>2. w # NONE => q # <<>> /\ Head(q) = q[1]
    BY DEF TypeOK, FlowOK, Flow, WaitsForHead
  <1>3. NONE # CONTROLLER_DEBUG_INFO
    BY OpCodeAssumption DEF AllOpCodes
  <1>4. CASE e.op = NONE
    BY <1>4 DEF failed_assertion
  <1>5. CASE e.op # NONE /\ e.op = w /\ accepts(q[1], e)
    BY <1>2, <1>5 DEF failed_assertion, is_late
  <1>6. CASE e.op # NONE /\ e.op # w /\ w = CONTROLLER_DEBUG_INFO
    BY <1>2, <1>3, <1>6 DEF failed_assertion, is_late
  <1> QED BY <1>1, <1>4, <1>5, <1>6 DEF EventUnderWay

\* The end of the module keeps the invariant.
LEMMA TeardownInv ==
  ASSUME IInv, TypeOK', Teardown, NoUnexpectedResponse'
  PROVE  IInv'
  <1>1. FlowOK'
    BY FlowEmpty DEF Teardown, FlowOK
  <1>2. NothingWhenStopped'
    BY DEF Teardown, NothingWhenStopped
  <1>3. Numbered(<<>>, next_id, delivered)
    BY NumberedFlush DEF IInv, TypeOK
  <1>4. Numbered(command_queue_, next_id, delivered)'
    BY <1>3 DEF Teardown
  <1> QED BY <1>1, <1>2, <1>4 DEF IInv

\* Start keeps the invariant.
LEMMA StartInv ==
  ASSUME IInv, TypeOK', Start
  PROVE  IInv'
  <1> DEFINE x == CommandQueueEntry(RESET, "COMPLETE", "Start")
  <1>1. x \in Command /\ x.op = RESET /\ x.id = next_id
    BY EntryType DEF IInv, AllOpCodes, WaitingFor, CommandQueueEntry
  <1>2. /\ hal_tx = <<>> /\ hal_rx' = <<>> /\ ctl_pending' = <<>>
        /\ ctl_allowance' = 1 /\ timed_out' = FALSE
        /\ send_next_command(<<x>>, NONE, 1, "idle")
    BY DEF IInv, NothingWhenStopped, Start, TypeOK
  <1>3. 1 \in 0..MaxCredits
    BY BoundAssumption
  <1> HIDE DEF x
  <1>4. Flow(Append(<<>>, x), NONE, 1, "idle", <<>>, <<>>, <<>>, 1, FALSE)
    <2>1. x.op # CONTROLLER_DEBUG_INFO
      BY <1>1, OpCodeAssumption
    <2>2. Flow(<<>>, NONE, 1, "idle", <<>>, <<>>, <<>>, 1, FALSE)
      BY FlowEmpty
    <2>3. <<>> \in Seq(Command) /\ <<>> \in Seq(Event)
      OBVIOUS
    <2> QED BY <1>1, <1>3, <2>1, <2>2, <2>3, FlowEnqueue
  <1>5. Append(<<>>, x) = <<x>> /\ <<x>> \in Seq(Command)
    BY <1>1
  <1>6. FlowOK'
    BY <1>2, <1>3, <1>4, <1>5, SendNextFlow DEF IInv
  <1>7. Numbered(command_queue_, next_id, delivered)'
    <2>1. Numbered(<<>>, next_id, delivered)
      BY NumberedFlush DEF IInv, TypeOK
    <2>2. Numbered(Append(<<>>, x), next_id + 1, delivered)
      <3>1. <<>> \in Seq(Command)
        OBVIOUS
      <3>2. next_id \in Nat /\ delivered \in Seq(Nat \X Nat)
        BY DEF IInv, TypeOK
      <3> QED BY <1>1, <2>1, <3>1, <3>2, NumberedEnqueue
    <2> QED BY <1>2, <1>5, <2>2 DEF Start, send_next_command
  <1>8. NothingWhenStopped' /\ NoUnexpectedResponse'
    BY DEF Start, NothingWhenStopped, IInv, NoUnexpectedResponse
  <1> QED BY <1>6, <1>7, <1>8 DEF IInv

\* enqueue_command keeps the invariant.
LEMMA EnqueueInv ==
  ASSUME IInv, TypeOK', NEW r \in Requests, enqueue_command(r)
  PROVE  IInv'
  <1> DEFINE x == CommandQueueEntry(r[1], r[2], "caller")
             q == Append(command_queue_, x)
  <1>1. x \in Command /\ x.op = r[1] /\ x.id = next_id
    <2>1. r[1] \in AllOpCodes /\ r[2] \in WaitingFor
      BY OpCodeAssumption DEF AllOpCodes, OpCodes
    <2> QED BY <2>1, EntryType DEF IInv, CommandQueueEntry
  <1>2. /\ send_next_command(q, waiting_command_, command_credits_,
                             hci_timeout_alarm_)
        /\ hal_rx' = hal_rx /\ ctl_pending' = ctl_pending
        /\ ctl_allowance' = ctl_allowance /\ timed_out' = timed_out
    BY DEF enqueue_command
  <1>3. q \in Seq(Command)
    BY <1>1 DEF IInv, TypeOK
  <1> HIDE DEF x
  <1>4. Flow(q, waiting_command_, command_credits_, hci_timeout_alarm_, hal_tx,
             ctl_pending, hal_rx, ctl_allowance, timed_out)
    <2>1. x.op # CONTROLLER_DEBUG_INFO
      BY <1>1, OpCodeAssumption DEF OpCodes
    <2>2. /\ command_queue_ \in Seq(Command)
          /\ waiting_command_ \in AllOpCodes \cup {NONE}
          /\ command_credits_ \in 0..MaxCredits
          /\ hci_timeout_alarm_ \in {"null", "idle", "armed"}
          /\ hal_tx \in Seq(Command) /\ ctl_pending \in Seq(Command)
          /\ hal_rx \in Seq(Event) /\ ctl_allowance \in 0..MaxCredits
          /\ FlowOK
      BY DEF IInv, TypeOK
    <2> QED BY <1>1, <2>1, <2>2, FlowEnqueue DEF FlowOK
  <1>5. Numbered(q, next_id + 1, delivered)
    <2>1. /\ command_queue_ \in Seq(Command) /\ next_id \in Nat
          /\ delivered \in Seq(Nat \X Nat)
          /\ Numbered(command_queue_, next_id, delivered)
      BY DEF IInv, TypeOK
    <2> QED BY <1>1, <2>1, NumberedEnqueue
  <1> HIDE DEF q
  <1>6. FlowOK'
    BY <1>2, <1>3, <1>4, SendNextFlow DEF IInv, TypeOK
  <1>7. Numbered(command_queue_, next_id, delivered)'
    BY <1>2, <1>5 DEF enqueue_command, send_next_command
  <1>8. NothingWhenStopped' /\ NoUnexpectedResponse'
    BY DEF enqueue_command, NothingWhenStopped, IInv, NoUnexpectedResponse
  <1> QED BY <1>6, <1>7, <1>8 DEF IInv

\* on_hci_timeout keeps the invariant.
LEMMA TimeoutInv ==
  ASSUME IInv, TypeOK', on_hci_timeout
  PROVE  IInv'
  <1> DEFINE x == CommandQueueEntry(CONTROLLER_DEBUG_INFO, "COMPLETE",
                                    "on_hci_timeout")
  <1>1. x \in Command /\ x.op = CONTROLLER_DEBUG_INFO /\ x.id = next_id
    BY EntryType DEF IInv, AllOpCodes, WaitingFor, CommandQueueEntry
  <1>2. send_next_command(<<x>>, NONE, 1, "null")
    BY DEF on_hci_timeout
  <1> HIDE DEF x
  <1>3. Head(<<x>>) = x /\ <<x>> # <<>> /\ Append(<<>>, x) = <<x>>
    BY <1>1
  <1>4. /\ command_queue_' = <<x>> /\ waiting_command_' = x.op
        /\ command_credits_' = 0 /\ hci_timeout_alarm_' = "null"
        /\ hal_tx' = Append(hal_tx, x)
    BY <1>2, <1>3 DEF send_next_command, may_send, Schedule
  <1>5. Flow(<<x>>, x.op, 0, "null", Append(hal_tx, x), ctl_pending, hal_rx,
             ctl_allowance, TRUE)
    BY <1>1, FlowTimeout DEF on_hci_timeout, IInv, TypeOK, FlowOK
  <1>6. FlowOK'
    BY <1>4, <1>5 DEF FlowOK, on_hci_timeout
  <1>7. Numbered(<<x>>, next_id + 1, delivered)
    <2>1. /\ <<>> \in Seq(Command) /\ next_id \in Nat
          /\ delivered \in Seq(Nat \X Nat)
      BY DEF IInv, TypeOK
    <2>2. Numbered(<<>>, next_id, delivered)
      BY NumberedFlush DEF IInv, TypeOK
    <2>3. Numbered(Append(<<>>, x), next_id + 1, delivered)
      BY <1>1, <2>1, <2>2, NumberedEnqueue
    <2> QED BY <1>3, <2>3
  <1>8. Numbered(command_queue_, next_id, delivered)'
    BY <1>4, <1>7 DEF on_hci_timeout
  <1>9. NothingWhenStopped' /\ NoUnexpectedResponse'
    BY DEF on_hci_timeout, NothingWhenStopped, IInv, NoUnexpectedResponse
  <1> QED BY <1>6, <1>8, <1>9 DEF IInv

\* A command response keeps the invariant.
LEMMA ResponseInv ==
  ASSUME IInv, TypeOK', life = "running", hal_rx # <<>>,
         handle_command_response(Head(hal_rx))
  PROVE  IInv'
  <1> DEFINE e == Head(hal_rx)
             q == command_queue_
             w == waiting_command_
             a == hci_timeout_alarm_
  <1>1. /\ hal_rx' = Tail(hal_rx) /\ ctl_pending' = ctl_pending
        /\ ctl_allowance' = ctl_allowance /\ timed_out' = timed_out
        /\ next_id' = next_id /\ failed_assertion(e) = "none"
    BY DEF handle_command_response
  <1>2. NothingWhenStopped' /\ NoUnexpectedResponse'
    BY DEF handle_command_response, NothingWhenStopped, IInv, NoUnexpectedResponse
  <1>3. /\ q \in Seq(Command) /\ w \in AllOpCodes \cup {NONE}
        /\ command_credits_ \in 0..MaxCredits /\ a \in {"null", "idle", "armed"}
        /\ hal_tx \in Seq(Command) /\ ctl_pending \in Seq(Command)
        /\ hal_rx \in Seq(Event) /\ ctl_allowance \in 0..MaxCredits
        /\ next_id \in Nat /\ delivered \in Seq(Nat \X Nat)
    BY DEF IInv, TypeOK
  <1>4. e.credits \in 0..MaxCredits
    <2>1. e \in Event
      BY <1>3
    <2> QED BY <2>1 DEF Event
  <1>5. EventUnderWay(q, w, e)
    <2>1. UnderWay(q, w, hal_tx, ctl_pending, hal_rx)
      BY DEF IInv, FlowOK, Flow
    <2> QED BY <1>3, <2>1, HeadUnderWay
  <1>6. CASE e.op = NONE
    <2>1. send_next_command(q, w, e.credits, a) /\ delivered' = delivered
      BY <1>6 DEF handle_command_response, GetNumHciCommandPackets
    <2>2. Flow(q, w, e.credits, a, hal_tx, ctl_pending, Tail(hal_rx), ctl_allowance,
               timed_out)
      BY <1>3, <1>6, FlowPass DEF IInv, FlowOK
    <2>3. FlowOK'
      BY <1>1, <1>3, <1>4, <2>1, <2>2, SendNextFlow DEF IInv
    <2>4. Numbered(command_queue_, next_id, delivered)'
      BY <1>1, <2>1 DEF IInv, send_next_command
    <2> QED BY <1>2, <2>3, <2>4 DEF IInv
  <1>7. CASE e.op # NONE /\ is_late(e)
    <2>1. discard_late_response(e)
      BY <1>7 DEF handle_command_response
    <2>2. Flow(q, w, e.credits, a, hal_tx, ctl_pending, Tail(hal_rx), ctl_allowance,
               timed_out)
      BY <1>3, <1>7, FlowPass DEF IInv, FlowOK, is_late
    <2>3. FlowOK'
      BY <1>1, <2>1, <2>2 DEF FlowOK, discard_late_response, GetNumHciCommandPackets
    <2>4. Numbered(command_queue_, next_id, delivered)'
      BY <1>1, <2>1 DEF IInv, discard_late_response
    <2> QED BY <1>2, <2>3, <2>4 DEF IInv
  <1>8. CASE e.op # NONE /\ ~is_late(e)
    <2>1. answer_waiting_command(e)
      BY <1>8 DEF handle_command_response
    <2>2. q # <<>> /\ w = e.op
      BY <1>1, <1>8 DEF failed_assertion
    <2>3. Head(q) = q[1] /\ e.id = q[1].id /\ Tail(q) \in Seq(Command)
      BY <1>3, <1>5, <1>8, <2>2 DEF EventUnderWay
    <2> DEFINE b == IF a = "null" THEN "null" ELSE "idle"
    <2>4. Flow(Tail(q), NONE, e.credits, b, hal_tx, ctl_pending, Tail(hal_rx),
               ctl_allowance, timed_out)
      BY <1>3, <1>8, <2>2, FlowAnswer DEF IInv, FlowOK
    <2>5. FlowOK'
      <3>1. CASE a # "null"
        <4>1. send_next_command(Tail(q), NONE, e.credits, "idle")
          BY <2>1, <3>1 DEF answer_waiting_command, Cancel, GetNumHciCommandPackets
        <4>2. Flow(Tail(q), NONE, e.credits, "idle", hal_tx, ctl_pending',
                   hal_rx', ctl_allowance', timed_out')
          BY <1>1, <2>4, <3>1
        <4> QED BY <1>4, <2>3, <4>1, <4>2, SendNextFlow DEF IInv
      <3>2. CASE a = "null"
        BY <1>1, <2>1, <2>4, <3>2
        DEF FlowOK, answer_waiting_command, GetNumHciCommandPackets
      <3> QED BY <3>1, <3>2
    <2>6. Numbered(Tail(q), next_id, Append(delivered, <<q[1].id, q[1].id>>))
      BY <1>3, <2>2, NumberedAnswer DEF IInv
    <2>7. /\ command_queue_' = Tail(q)
          /\ delivered' = Append(delivered, <<q[1].id, q[1].id>>)
      BY <2>1, <2>3 DEF answer_waiting_command, Deliver, send_next_command
    <2>8. Numbered(command_queue_, next_id, delivered)'
      BY <1>1, <2>6, <2>7
    <2> QED BY <1>2, <2>5, <2>8 DEF IInv
  <1> QED BY <1>6, <1>7, <1>8

\* The controller's steps keep the invariant.
LEMMA ControllerInv ==
  ASSUME IInv, TypeOK', ctl_receive \/ ctl_respond \/ ctl_flow_control \/ ctl_failure
  PROVE  IInv'
  <1> DEFINE q == command_queue_
             w == waiting_command_
             c == command_credits_
             a == hci_timeout_alarm_
  <1>1. /\ q \in Seq(Command) /\ w \in AllOpCodes \cup {NONE}
        /\ c \in 0..MaxCredits /\ a \in {"null", "idle", "armed"}
        /\ hal_tx \in Seq(Command) /\ ctl_pending \in Seq(Command)
        /\ hal_rx \in Seq(Event) /\ ctl_allowance \in 0..MaxCredits
        /\ Flow(q, w, c, a, hal_tx, ctl_pending, hal_rx, ctl_allowance, timed_out)
    BY DEF IInv, TypeOK, FlowOK
  <1>2. /\ life = "running" /\ ctlUnchanged
    BY DEF ctl_receive, ctl_respond, ctl_flow_control, ctl_failure
  <1>3. NothingWhenStopped' /\ NoUnexpectedResponse'
        /\ Numbered(command_queue_, next_id, delivered)'
    BY <1>2 DEF ctlUnchanged, hostVars, NothingWhenStopped, IInv, NoUnexpectedResponse
  <1>4. /\ command_queue_' = q /\ waiting_command_' = w /\ command_credits_' = c
        /\ hci_timeout_alarm_' = a /\ timed_out' = timed_out
    BY <1>2 DEF ctlUnchanged, hostVars
  <1>5. CASE ctl_receive
    <2>1. Flow(q, w, c, a, Tail(hal_tx), Append(ctl_pending, Head(hal_tx)), hal_rx,
               IF ctl_allowance = 0 THEN 0 ELSE ctl_allowance - 1, timed_out)
      BY <1>1, <1>5, FlowReceive DEF ctl_receive
    <2>2. FlowOK'
      BY <1>4, <1>5, <2>1 DEF ctl_receive, FlowOK
    <2> QED BY <1>3, <2>2 DEF IInv
  <1>6. CASE ctl_respond
    <2> DEFINE x == Head(ctl_pending)
               ev(y, n) == [code |-> y[1], op |-> x.op, id |-> x.id, credits |-> n,
                            status |-> y[2]]
    <2>1. PICK y \in Answers(x), n \in ctl_allowance..MaxCredits :
            ctl_allowance' = n /\ hal_rx' = Append(hal_rx, ev(y, n))
      BY <1>6 DEF ctl_respond
    <2>2. x \in Command /\ ctl_pending # <<>>
      <3>1. ctl_pending # <<>> /\ ctl_pending \in Seq(Command)
        BY <1>1, <1>6 DEF ctl_respond
      <3> QED BY <3>1, FirstItem
    <2>3. y[1] \in {"complete", "status"} /\ y[2] \in Status
      BY DEF Answers, Status
    <2>4. n \in 0..MaxCredits
      BY <1>1
    <2>5. ev(y, n) \in Event
      BY <2>2, <2>3, <2>4 DEF Event, Command
    <2>6. /\ ev(y, n).code = y[1] /\ ev(y, n).status = y[2] /\ ev(y, n).op = x.op
          /\ ev(y, n).id = x.id /\ ev(y, n).credits = n
      OBVIOUS
    <2> HIDE DEF ev
    <2>7. Flow(q, w, c, a, hal_tx, Tail(ctl_pending), Append(hal_rx, ev(y, n)), n,
               timed_out)
      BY <1>1, <2>1, <2>2, <2>5, <2>6, FlowRespond, ZenonT(60)
    <2>8. FlowOK'
      BY <1>4, <1>6, <2>1, <2>7 DEF ctl_respond, FlowOK
    <2> QED BY <1>3, <2>8 DEF IInv
  <1>7. CASE ctl_flow_control
    <2> DEFINE ev(n) == [code |-> "complete", op |-> NONE, id |-> 0, credits |-> n,
                         status |-> "SUCCESS"]
    <2>1. PICK n \in (ctl_allowance + 1)..MaxCredits :
            ctl_allowance' = n /\ hal_rx' = Append(hal_rx, ev(n))
      BY <1>7 DEF ctl_flow_control
    <2>2. n \in ctl_allowance..MaxCredits /\ n \in 0..MaxCredits
      BY <1>1
    <2>3. ev(n) \in Event /\ ev(n).op = NONE /\ ev(n).credits <= n
      BY <2>2 DEF Event, Status
    <2> HIDE DEF ev
    <2>4. Flow(q, w, c, a, hal_tx, ctl_pending, Append(hal_rx, ev(n)), n, timed_out)
      BY <1>1, <2>2, <2>3, FlowEvent, ZenonT(60)
    <2>5. FlowOK'
      BY <1>4, <1>7, <2>1, <2>4 DEF ctl_flow_control, FlowOK
    <2> QED BY <1>3, <2>5 DEF IInv
  <1>8. CASE ctl_failure
    <2> DEFINE ev(k) == [code |-> k, op |-> NONE, id |-> 0, credits |-> 0,
                         status |-> "SUCCESS"]
    <2>1. PICK k \in {"root_inflammation", "hardware_error"} :
            hal_rx' = Append(hal_rx, ev(k))
      BY <1>8 DEF ctl_failure
    <2>2. ctl_allowance \in ctl_allowance..MaxCredits /\ 0 <= ctl_allowance
      BY <1>1
    <2>3. ev(k) \in Event /\ ev(k).op = NONE /\ ev(k).credits <= ctl_allowance
      BY <2>2, BoundAssumption DEF Event, Status
    <2> HIDE DEF ev
    <2>4. Flow(q, w, c, a, hal_tx, ctl_pending, Append(hal_rx, ev(k)), ctl_allowance,
               timed_out)
      BY <1>1, <2>2, <2>3, FlowEvent, ZenonT(60)
    <2>5. FlowOK'
      BY <1>4, <1>8, <2>1, <2>4 DEF ctl_failure, FlowOK
    <2> QED BY <1>3, <2>5 DEF IInv
  <1> QED BY <1>5, <1>6, <1>7, <1>8

\* Every event from the HAL keeps the invariant.
LEMMA EventInv ==
  ASSUME IInv, TypeOK', on_hci_event
  PROVE  IInv'
  <1> DEFINE e == Head(hal_rx)
  <1>1. life = "running" /\ hal_rx # <<>>
    BY DEF on_hci_event
  <1>2. CASE handle_command_response(e)
    BY <1>1, <1>2, ResponseInv
  <1>3. failed_assertion(e) = "none"
    BY <1>1, NoFailedAssertion DEF IInv
  <1>4. CASE handle_root_inflammation /\ e.code = "root_inflammation"
    <2>1. /\ hal_rx \in Seq(Event)
          /\ command_queue_ \in Seq(Command)
          /\ waiting_command_ \in AllOpCodes \cup {NONE}
          /\ command_credits_ \in 0..MaxCredits
          /\ hci_timeout_alarm_ \in {"null", "idle", "armed"}
          /\ hal_tx \in Seq(Command) /\ ctl_pending \in Seq(Command)
          /\ ctl_allowance \in 0..MaxCredits
          /\ FlowOK
      BY DEF IInv, TypeOK
    <2>2. e.op = NONE
      <3>1. EventUnderWay(command_queue_, waiting_command_, e)
        <4>1. UnderWay(command_queue_, waiting_command_, hal_tx, ctl_pending, hal_rx)
          BY <2>1 DEF FlowOK, Flow
        <4> QED BY <1>1, <2>1, <4>1, HeadUnderWay
      <3> QED BY <1>4, <3>1 DEF EventUnderWay
    <2>3. Flow(command_queue_, waiting_command_, command_credits_,
               hci_timeout_alarm_, hal_tx, ctl_pending, Tail(hal_rx), ctl_allowance,
               timed_out)
      BY <1>1, <2>1, <2>2, FlowPass, ZenonT(60) DEF FlowOK
    <2>4. Tail(hal_rx) \in Seq(Event)
      BY <1>1, <2>1
    <2>5. Flow(command_queue_, waiting_command_, command_credits_, "null", hal_tx,
               ctl_pending, Tail(hal_rx), ctl_allowance, timed_out)
      BY <2>1, <2>3, <2>4, FlowNoAlarm
    <2>6. FlowOK'
      BY <1>4, <2>5 DEF handle_root_inflammation, FlowOK
    <2>7. NothingWhenStopped' /\ NoUnexpectedResponse'
          /\ Numbered(command_queue_, next_id, delivered)'
      BY <1>1, <1>4
      DEF handle_root_inflammation, NothingWhenStopped, IInv, NoUnexpectedResponse
    <2> QED BY <2>6, <2>7 DEF IInv
  <1>5. CASE Abort("hardware_error")
    <2>1. NoUnexpectedResponse'
      BY <1>5 DEF Abort, NoUnexpectedResponse, AssertReasons
    <2> QED BY <1>5, <2>1, TeardownInv DEF Abort
  <1> QED BY <1>2, <1>3, <1>4, <1>5 DEF on_hci_event

\* Every step keeps the invariant.
LEMMA InvStep == IInv /\ [Next]_vars => IInv'
  <1> SUFFICES ASSUME IInv, [Next]_vars PROVE IInv'
    OBVIOUS
  <1>1. TypeOK'
    BY TypeStep DEF IInv
  <1>2. CASE Stop
    <2>1. NoUnexpectedResponse'
      BY <1>2 DEF Stop, NoUnexpectedResponse, IInv
    <2> QED BY <1>1, <1>2, <2>1, TeardownInv DEF Stop
  <1>3. CASE on_hci_abort
    <2>1. NoUnexpectedResponse'
      BY <1>3 DEF on_hci_abort, Abort, NoUnexpectedResponse, AssertReasons
    <2> QED BY <1>1, <1>3, <2>1, TeardownInv DEF on_hci_abort, Abort
  <1>4. CASE fail_if_reset_complete_not_success
    <2>1. CASE Abort("reset_failed")
      <3>1. NoUnexpectedResponse'
        BY <2>1 DEF Abort, NoUnexpectedResponse, AssertReasons
      <3> QED BY <1>1, <2>1, <3>1, TeardownInv DEF Abort
    <2>2. CASE UNCHANGED <<life, abort_reason, hostVars, ctlVars, next_id, delivered,
                           timed_out, starts>>
      <3>1. FlowOK' /\ NothingWhenStopped' /\ NoUnexpectedResponse'
            /\ Numbered(command_queue_, next_id, delivered)'
        BY <2>2 DEF hostVars, ctlVars, FlowOK, NothingWhenStopped,
                    NoUnexpectedResponse, IInv
      <3> QED BY <1>1, <3>1 DEF IInv
    <2> QED BY <1>4, <2>1, <2>2 DEF fail_if_reset_complete_not_success
  <1>5. CASE UNCHANGED vars
    <2>1. FlowOK' /\ NothingWhenStopped' /\ NoUnexpectedResponse'
          /\ Numbered(command_queue_, next_id, delivered)'
      BY <1>5 DEF vars, hostVars, ctlVars, FlowOK, NothingWhenStopped,
                  NoUnexpectedResponse, IInv
    <2> QED BY <1>1, <2>1 DEF IInv
  <1> QED BY <1>1, <1>2, <1>3, <1>4, <1>5, StartInv, EnqueueInv, EventInv, TimeoutInv,
             ControllerInv DEF Next

\* The initial state satisfies the invariant.
LEMMA InvInit == Init => IInv
  <1> SUFFICES ASSUME Init PROVE IInv
    OBVIOUS
  <1>1. TypeOK
    <2>1. Init => TypeOK
      BY TypeInit
    <2> QED BY <2>1
  <1>2. FlowOK
    BY FlowEmpty DEF Init, FlowOK
  <1>3. NothingWhenStopped /\ NoUnexpectedResponse
    BY DEF Init, NothingWhenStopped, NoUnexpectedResponse, AssertReasons
  <1>4. Numbered(command_queue_, next_id, delivered)
    <2>1. DOMAIN <<>> = {}
      OBVIOUS
    <2>2. command_queue_ = <<>> /\ delivered = <<>>
      BY DEF Init
    <2> QED BY <2>1, <2>2, Zenon DEF Numbered
  <1> QED BY <1>1, <1>2, <1>3, <1>4 DEF IInv

\* The inductive invariant always holds.
LEMMA Invariance == Spec => []IInv
  BY InvInit, InvStep, PTL DEF Spec

\* What the invariant says of the commands in transit.
LEMMA AllowanceFromInv == IInv => WithinAllowance
  <1> SUFFICES ASSUME IInv, ~timed_out PROVE Len(hal_tx) <= ctl_allowance
    BY DEF WithinAllowance
  <1>1. hal_tx \in Seq(Command) /\ ctl_allowance \in Nat
    BY BoundAssumption DEF IInv, TypeOK
  <1>2. CASE hal_tx = <<>>
    BY <1>1, <1>2
  <1>3. CASE hal_tx # <<>>
    <2>1. waiting_command_ # CONTROLLER_DEBUG_INFO
      <3>1. /\ command_queue_ \in Seq(Command)
            /\ WaitsForHead(command_queue_, waiting_command_, hci_timeout_alarm_,
                            timed_out)
        BY DEF IInv, TypeOK, FlowOK, Flow
      <3> QED BY <3>1, NoDebugBeforeTimeout
    <2>2. 1 \in DOMAIN hal_tx
      BY <1>1, <1>3
    <2>3. hal_tx[1].op = waiting_command_
      BY <2>1, <2>2 DEF IInv, FlowOK, Flow, UnderWay, CommandUnderWay
    <2>4. 1 = Len(hal_tx)
      BY <2>2, <2>3 DEF IInv, FlowOK, Flow, NothingFollows
    <2>5. ctl_allowance > 0
      BY <1>3 DEF IInv, FlowOK, Flow, Covered
    <2> QED BY <1>1, <2>4, <2>5
  <1> QED BY <1>2, <1>3

\* With a controller that keeps to the protocol, no assertion on a command
\* response in on_hci_event or handle_command_response ever fails.
THEOREM NoUnexpectedResponseHolds == Spec => []NoUnexpectedResponse
  <1>1. IInv => NoUnexpectedResponse
    BY DEF IInv
  <1> QED BY <1>1, Invariance, PTL

\* Every callback is run with the response to its own command, at most once and
\* in the order of the queue.
THEOREM AnsweredInOrderHolds == Spec => []AnsweredInOrder
  <1>1. IInv => AnsweredInOrder
    BY DEF IInv, Numbered, AnsweredInOrder
  <1> QED BY <1>1, Invariance, PTL

\* Until a timeout, the host never has more commands under way than the
\* controller has offered places for.
THEOREM WithinAllowanceHolds == Spec => []WithinAllowance
  BY AllowanceFromInv, Invariance, PTL

\* The timeout alarm runs exactly while a command is outstanding.
THEOREM TimerGuardsOutstandingHolds == Spec => []TimerGuardsOutstanding
  <1>1. IInv => TimerGuardsOutstanding
    BY DEF IInv, FlowOK, Flow, WaitsForHead, TimerGuardsOutstanding
  <1> QED BY <1>1, Invariance, PTL
=============================================================================
