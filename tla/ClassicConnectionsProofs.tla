---------------------- MODULE ClassicConnectionsProofs ----------------------
(***************************************************************************)
(* The scheduler of classic connection operations never leaves an          *)
(* operation in its queue that could start, for every set of addresses and *)
(* every bound, without progress_acl_scheduler_upon_incoming_connection.   *)
(*                                                                         *)
(* NeverStalls is inductive: every handler that makes room ends with       *)
(* try_dequeue_next_operation, and the others only take operations out of  *)
(* the queue or add an incoming connection.                                *)
(***************************************************************************)
EXTENDS ClassicConnections, TLAPS

\* try_dequeue_next_operation leaves the scheduler blocked, whatever it finds.
LEMMA DequeueBlocks ==
  ASSUME ~progress_acl_scheduler_upon_incoming_connection,
         NEW o, NEW p, NEW i, NEW cs, try_dequeue_next_operation(o, p, i, cs)
  PROVE  NeverStalls'
<1>1. CASE ready_to_send_next_operation(o, p, i)
  <2>1. outgoing_entry_' = {Head(p)}
    BY <1>1 DEF try_dequeue_next_operation
  <2> QED
    BY <2>1 DEF NeverStalls, ready_to_send_next_operation
<1>2. CASE ~ready_to_send_next_operation(o, p, i)
  BY <1>2 DEF try_dequeue_next_operation, NoDequeue, NeverStalls,
              ready_to_send_next_operation
<1> QED
  BY <1>1, <1>2

\* A handler that keeps the outgoing entry and the incoming connections, or adds
\* one, and puts nothing into an empty queue keeps the scheduler blocked.
LEMMA KeepsBlocked ==
  ASSUME ~progress_acl_scheduler_upon_incoming_connection,
         NeverStalls,
         NEW p, NEW i, NEW cs,
         incoming_connecting_address_set_ \subseteq i,
         pending_outgoing_operations_ = <<>> => p = <<>>,
         NoDequeue(outgoing_entry_, p, i, cs)
  PROVE  NeverStalls'
BY DEF NeverStalls, NoDequeue, ready_to_send_next_operation

\* The cancellations take an operation out of the queue, or leave it alone.
LEMMA CancelBlocks ==
  ASSUME ~progress_acl_scheduler_upon_incoming_connection,
         NeverStalls,
         NEW kind, NEW c, cancel_outgoing_or_queued_connection(kind, c)
  PROVE  NeverStalls'
<1> DEFINE p == pending_outgoing_operations_
<1>1. CASE \E cs : NoDequeue(outgoing_entry_, p, incoming_connecting_address_set_, cs)
  BY <1>1, KeepsBlocked
<1>2. CASE /\ Queued(kind, c.address) # {}
           /\ \E q, cs : NoDequeue(outgoing_entry_, q,
                                  incoming_connecting_address_set_, cs)
  <2>1. p # <<>>
    BY <1>2 DEF Queued
  <2> QED
    BY <1>2, <2>1, KeepsBlocked
<1> QED
  BY <1>1, <1>2 DEF cancel_outgoing_or_queued_connection

\* Every closure of the scheduler's handler keeps NeverStalls.
LEMMA SchedulerBlocks ==
  ASSUME ~progress_acl_scheduler_upon_incoming_connection,
         NeverStalls, RunScheduler
  PROVE  NeverStalls'
<1> DEFINE c == Front("scheduler")
<1>1. ASSUME NEW kind, Enqueue(kind, c)
      PROVE  NeverStalls'
  BY <1>1, DequeueBlocks DEF Enqueue
<1>2. CASE RegisterPendingIncomingConnection(c)
  BY <1>2, KeepsBlocked DEF RegisterPendingIncomingConnection
<1>3. CASE ReportAclConnectionCompletion(c)
  BY <1>3, DequeueBlocks DEF ReportAclConnectionCompletion
<1>4. CASE ReportOutgoingAclConnectionFailure(c)
  BY <1>4, DequeueBlocks, KeepsBlocked DEF ReportOutgoingAclConnectionFailure
<1>5. CASE ReportRemoteNameRequestCompletion(c)
  <2>1. CASE outgoing_entry_ = {}
    BY <1>5, <2>1, KeepsBlocked DEF ReportRemoteNameRequestCompletion
  <2>2. CASE outgoing_entry_ # {}
    BY <1>5, <2>2, DequeueBlocks DEF ReportRemoteNameRequestCompletion
  <2> QED
    BY <2>1, <2>2
<1>6. ASSUME NEW kind, cancel_outgoing_or_queued_connection(kind, c)
      PROVE  NeverStalls'
  BY <1>6, CancelBlocks
<1> QED
  BY <1>1, <1>2, <1>3, <1>4, <1>5, <1>6 DEF RunScheduler

\* Nobody else touches the scheduler's state.
LEMMA StepBlocks ==
  ASSUME ~progress_acl_scheduler_upon_incoming_connection,
         NeverStalls, [Next]_vars
  PROVE  NeverStalls'
<1>1. CASE Scheduler
  BY <1>1, SchedulerBlocks DEF Scheduler
<1>2. CASE UNCHANGED schedulerVars
  BY <1>2 DEF NeverStalls, ready_to_send_next_operation, schedulerVars
<1>3. Scheduler \/ UNCHANGED schedulerVars
  BY DEF Next, vars, create_connection, cancel_connect, StartRemoteNameRequest,
         CancelRemoteNameRequest, ToScheduler, RunAclManager, RemoteNames,
         ctl_command, ctl_page_complete, ctl_name_complete, ctl_connection_request,
         ctl_request_timeout, ctl_accept_complete, ctl_disconnect, ctl_event
<1> QED
  BY <1>1, <1>2, <1>3

\* No operation is left waiting that could start: after every handler of the
\* AclScheduler, ready_to_send_next_operation is false.
THEOREM NeverStallsHolds ==
  ASSUME ~progress_acl_scheduler_upon_incoming_connection
  PROVE  Spec => []NeverStalls
<1>1. Init => NeverStalls
  BY DEF Init, InitScheduler, NeverStalls, ready_to_send_next_operation
<1>2. NeverStalls /\ [Next]_vars => NeverStalls'
  BY StepBlocks
<1> QED
  BY <1>1, <1>2, PTL DEF Spec
=============================================================================
