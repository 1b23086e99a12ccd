---------------------------- MODULE AclScheduler ----------------------------
(***************************************************************************)
(* The scheduler of classic connection operations                          *)
(* (system/gd/hci/acl_manager/acl_scheduler.cc): Create Connections and    *)
(* Remote Name Requests wait in one queue and are started one at a time,   *)
(* while no incoming connection is being set up.                           *)
(*                                                                         *)
(* The callbacks that the scheduler is given are closures of the handlers  *)
(* "acl" (classic_impl) and "rnr" (RemoteNameRequestModule).               *)
(***************************************************************************)
EXTENDS Handlers, Naturals

CONSTANTS Addresses,
          progress_acl_scheduler_upon_incoming_connection  \* the flag of that name

ASSUME FlagAssumption == progress_acl_scheduler_upon_incoming_connection \in BOOLEAN

VARIABLES
  outgoing_entry_,               \* the operation started last: {} or one entry
  pending_outgoing_operations_,
  incoming_connecting_address_set_

schedulerVars == <<outgoing_entry_, pending_outgoing_operations_,
                   incoming_connecting_address_set_>>

\* AclCreateConnectionQueueEntry ("connect") and RemoteNameRequestQueueEntry
\* ("name"), with the number of the request.
QueueEntry == [kind : {"connect", "name"}, address : Addresses, id : Nat]

InitScheduler ==
  /\ outgoing_entry_ = {}
  /\ pending_outgoing_operations_ = <<>>
  /\ incoming_connecting_address_set_ = {}

\* An entry of this kind for this address: the matchers of the cancellations, and
\* of a completion.
Matches(e, kind, address) == e.kind = kind /\ e.address = address

\* An operation starts although another one is outgoing.
IgnoresOutgoing(o, p, i) == p # <<>> /\ i = {}

\* The outgoing entry o, the queue p and the incoming connections i let the first
\* operation of p start.
ready_to_send_next_operation(o, p, i) ==
  /\ p # <<>>
  /\ \/ /\ progress_acl_scheduler_upon_incoming_connection
        /\ Head(p).kind = "name"
        /\ Head(p).address \in i
     \/ i = {} /\ o = {}

\* The callback of an entry: it starts the operation.
Starts(e) ==
  IF e.kind = "connect"
  THEN Closure("acl", "actually_create_connection", e.address, e.id, TRUE)
  ELSE Closure("rnr", "actually_start_remote_name_request", e.address, e.id, TRUE)

\* The end of a handler that has left o, p and i and called the callbacks cs.
NoDequeue(o, p, i, cs) ==
  /\ outgoing_entry_' = o
  /\ pending_outgoing_operations_' = p
  /\ incoming_connecting_address_set_' = i
  /\ handle_next_event("scheduler", cs)

try_dequeue_next_operation(o, p, i, cs) ==
  IF ready_to_send_next_operation(o, p, i)
  THEN /\ outgoing_entry_' = {Head(p)}
       /\ pending_outgoing_operations_' = Tail(p)
       /\ incoming_connecting_address_set_' = i
       /\ handle_next_event("scheduler", Append(cs, Starts(Head(p))))
  ELSE NoDequeue(o, p, i, cs)
-----------------------------------------------------------------------------
(***************************************************************************)
(* The closures of the scheduler's handler; c is the one that runs.        *)
(***************************************************************************)

\* EnqueueOutgoingAclConnection and EnqueueRemoteNameRequest.
Enqueue(kind, c) ==
  try_dequeue_next_operation(
    outgoing_entry_,
    Append(pending_outgoing_operations_,
           [kind |-> kind, address |-> c.address, id |-> c.id]),
    incoming_connecting_address_set_, <<>>)

\* The incoming connection is not entered.
NotRegistered(c) ==
  NoDequeue(outgoing_entry_, pending_outgoing_operations_,
            incoming_connecting_address_set_, <<>>)

\* No try_dequeue_next_operation here: this can only hold operations back.
RegisterPendingIncomingConnection(c) ==
  NoDequeue(outgoing_entry_, pending_outgoing_operations_,
            incoming_connecting_address_set_ \cup {c.address}, <<>>)

\* A completion is the one of the outgoing connection if the address is, else of an
\* incoming one if the address is; it is unknown otherwise.
ReportAclConnectionCompletion(c) ==
  LET o == outgoing_entry_
      i == incoming_connecting_address_set_
      To(fn) == <<Closure("acl", fn, c.address, c.id, c.ok)>>
  IN  IF \E e \in o : Matches(e, "connect", c.address)
      THEN try_dequeue_next_operation({}, pending_outgoing_operations_, i,
                                      To("create_and_announce_connection"))
      ELSE IF c.address \in i
      THEN try_dequeue_next_operation(o, pending_outgoing_operations_,
                                      i \ {c.address},
                                      To("create_and_announce_connection"))
      ELSE try_dequeue_next_operation(o, pending_outgoing_operations_, i,
                                      To("handle_unknown_connection"))

\* The queue is not advanced after a failure.
NotAdvanced(c) ==
  NoDequeue({}, pending_outgoing_operations_, incoming_connecting_address_set_, <<>>)

\* Nothing happens without an outgoing connection; whose it is is not looked at.
ReportOutgoingAclConnectionFailure(c) ==
  IF \E e \in outgoing_entry_ : e.kind = "connect"
  THEN try_dequeue_next_operation({}, pending_outgoing_operations_,
                                  incoming_connecting_address_set_, <<>>)
  ELSE NoDequeue(outgoing_entry_, pending_outgoing_operations_,
                 incoming_connecting_address_set_, <<>>)

\* The entry of a completed name request stays.
KeepsEntry(c) ==
  NoDequeue(outgoing_entry_, pending_outgoing_operations_,
            incoming_connecting_address_set_, <<>>)

\* Whatever is outgoing is over, a connection included.
ReportRemoteNameRequestCompletion(c) ==
  IF outgoing_entry_ # {}
  THEN try_dequeue_next_operation({}, pending_outgoing_operations_,
                                  incoming_connecting_address_set_, <<>>)
  ELSE NoDequeue({}, pending_outgoing_operations_,
                 incoming_connecting_address_set_, <<>>)

\* The positions in the queue of the entries of this kind and address.
Queued(kind, address) ==
  {n \in DOMAIN pending_outgoing_operations_ :
     Matches(pending_outgoing_operations_[n], kind, address)}

Erase(s, n) == SubSeq(s, 1, n - 1) \o SubSeq(s, n + 1, Len(s))

\* cancel_outgoing_or_queued_connection: an outgoing operation stays and is told
\* to cancel; else the first queued one is erased and its cancelled callback
\* called; else nothing.  The cancelled callback of a connection goes to the client.
cancel_outgoing_or_queued_connection(kind, c) ==
  LET p == pending_outgoing_operations_
      n == CHOOSE m \in Queued(kind, c.address) :
             \A k \in Queued(kind, c.address) : m <= k
      cancels(e) ==
        IF kind = "connect"
        THEN <<Closure("acl", "actually_cancel_connect", e.address, e.id, TRUE)>>
        ELSE <<Closure("rnr", "actually_cancel_remote_name_request", e.address,
                       e.id, TRUE)>>
      cancelled(e) ==
        IF kind = "connect" THEN <<>>
        ELSE <<Closure("rnr", "callback_when_cancelled", e.address, e.id, TRUE)>>
  IN  \/ \E e \in outgoing_entry_ :
           /\ Matches(e, kind, c.address)
           /\ NoDequeue(outgoing_entry_, p, incoming_connecting_address_set_,
                        cancels(e))
      \/ /\ \A e \in outgoing_entry_ : ~Matches(e, kind, c.address)
         /\ Queued(kind, c.address) # {}
         /\ NoDequeue(outgoing_entry_, Erase(p, n),
                      incoming_connecting_address_set_, cancelled(p[n]))
      \/ /\ \A e \in outgoing_entry_ : ~Matches(e, kind, c.address)
         /\ Queued(kind, c.address) = {}
         /\ NoDequeue(outgoing_entry_, p, incoming_connecting_address_set_, <<>>)

\* The next closure of the scheduler's handler runs.
RunScheduler ==
  LET c == Front("scheduler")
  IN  \/ /\ Runs("scheduler", "EnqueueOutgoingAclConnection")
         /\ Enqueue("connect", c)
      \/ /\ Runs("scheduler", "EnqueueRemoteNameRequest")
         /\ Enqueue("name", c)
      \/ /\ Runs("scheduler", "RegisterPendingIncomingConnection")
         /\ RegisterPendingIncomingConnection(c)
      \/ /\ Runs("scheduler", "ReportAclConnectionCompletion")
         /\ ReportAclConnectionCompletion(c)
      \/ /\ Runs("scheduler", "ReportOutgoingAclConnectionFailure")
         /\ ReportOutgoingAclConnectionFailure(c)
      \/ /\ Runs("scheduler", "ReportRemoteNameRequestCompletion")
         /\ ReportRemoteNameRequestCompletion(c)
      \/ /\ Runs("scheduler", "CancelAclConnection")
         /\ cancel_outgoing_or_queued_connection("connect", c)
      \/ /\ Runs("scheduler", "CancelRemoteNameRequest")
         /\ cancel_outgoing_or_queued_connection("name", c)
=============================================================================
