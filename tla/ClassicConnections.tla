------------------------ MODULE ClassicConnections ------------------------
(***************************************************************************)
(* Classic connections: the part of classic_impl                           *)
(* (system/gd/hci/acl_manager/classic_impl.h) that sets them up and takes  *)
(* them down, together with the AclScheduler and the                       *)
(* RemoteNameRequestModule, which share the controller's pager.            *)
(*                                                                         *)
(* Clients and controller are external.  tasks_["hci"] holds the commands  *)
(* the HCI layer has not delivered; it delivers them in order.  Events are *)
(* posted to the handler of the module that registered for them.           *)
(***************************************************************************)
EXTENDS AclScheduler, RemoteNameRequest, FiniteSets

CONSTANTS Connects,          \* the addresses that clients connect to
          Names,             \* the addresses whose name clients request
          Incoming,          \* the addresses that connect to us
          MaxRequests,       \* bound: requests of clients
          MaxIncoming,       \* bound: connection requests of peers
          MaxConnectCancels, \* bound: connections cancelled by clients
          MaxNameCancels     \* bound: name requests cancelled by clients

ASSUME ClassicAssumption ==
  /\ Connects \cup Names \cup Incoming \subseteq Addresses
  /\ MaxRequests \in Nat
  /\ MaxIncoming \in Nat
  /\ MaxConnectCancels \in Nat
  /\ MaxNameCancels \in Nat

VARIABLES
  connections,      \* the connections of classic_impl
  ctl_paging,       \* Create Connections under way in the controller
  ctl_naming,       \* Remote Name Requests under way in the controller
  ctl_requesting,   \* peers' connection requests that the host has not answered
  ctl_accepted,     \* peers' connection requests that the host has accepted
  ctl_links,        \* the links of the controller
  requests, incoming, connect_cancels, name_cancels  \* history: how many so far

ctlVars == <<ctl_paging, ctl_naming, ctl_requesting, ctl_accepted, ctl_links>>
countVars == <<requests, incoming, connect_cancels, name_cancels>>
vars == <<tasks_, aborted, schedulerVars, rnrVars, connections, ctlVars, countVars>>

HandlerNames == {"scheduler", "acl", "rnr", "hci"}

\* Requests of clients are numbered from 1, those of peers from MaxRequests + 1.  A
\* link has the number of the request it comes from for a connection handle.
Ids == 1..(MaxRequests + MaxIncoming)
Operation == [address : Addresses, id : Ids]
AddressesOf(ops) == {x.address : x \in ops}

Init ==
  /\ tasks_ = [h \in HandlerNames |-> <<>>]
  /\ aborted = "none"
  /\ InitScheduler
  /\ pending_ = FALSE
  /\ on_remote_name_complete_ = 0
  /\ answers = [id \in 1..MaxRequests |-> <<>>]
  /\ connections = {}
  /\ ctl_paging = {}
  /\ ctl_naming = {}
  /\ ctl_requesting = {}
  /\ ctl_accepted = {}
  /\ ctl_links = {}
  /\ requests = 0
  /\ incoming = 0
  /\ connect_cancels = 0
  /\ name_cancels = 0
-----------------------------------------------------------------------------
(***************************************************************************)
(* Requests of clients.  They are posted to the module's handler and then  *)
(* to the scheduler's; nothing is read in between, so this is one step.    *)
(***************************************************************************)

ToScheduler(fn, a, id) ==
  /\ aborted = "none"
  /\ tasks_' = Post(tasks_, <<Closure("scheduler", fn, a, id, TRUE)>>)
  /\ UNCHANGED <<aborted, schedulerVars, rnrVars, connections, ctlVars, incoming>>

create_connection(a) ==
  /\ requests < MaxRequests
  /\ requests' = requests + 1
  /\ ToScheduler("EnqueueOutgoingAclConnection", a, requests + 1)
  /\ UNCHANGED <<connect_cancels, name_cancels>>

StartRemoteNameRequest(a) ==
  /\ requests < MaxRequests
  /\ requests' = requests + 1
  /\ ToScheduler("EnqueueRemoteNameRequest", a, requests + 1)
  /\ UNCHANGED <<connect_cancels, name_cancels>>

cancel_connect(a) ==
  /\ connect_cancels < MaxConnectCancels
  /\ connect_cancels' = connect_cancels + 1
  /\ ToScheduler("CancelAclConnection", a, 0)
  /\ UNCHANGED <<requests, name_cancels>>

CancelRemoteNameRequest(a) ==
  /\ name_cancels < MaxNameCancels
  /\ name_cancels' = name_cancels + 1
  /\ ToScheduler("CancelRemoteNameRequest", a, 0)
  /\ UNCHANGED <<requests, connect_cancels>>
-----------------------------------------------------------------------------
(***************************************************************************)
(* classic_impl: the closures of the ACL manager's handler.                *)
(***************************************************************************)

is_classic_link_already_connected(a) == a \in AddressesOf(connections)

Oper(c) == [address |-> c.address, id |-> c.id]

\* The command fn about the address and request of c.
HciCommand(fn, c) == <<Closure("hci", fn, c.address, c.id, TRUE)>>

\* Registered with the scheduler, and accepted or, at will, rejected.
on_incoming_connection(c) ==
  \E answer \in {"ACCEPT_CONNECTION_REQUEST", "REJECT_CONNECTION_REQUEST"} :
    /\ is_classic_link_already_connected(c.address) =>
         answer = "REJECT_CONNECTION_REQUEST"
    /\ handle_next_event("acl",
         <<Closure("scheduler", "RegisterPendingIncomingConnection", c.address,
                   c.id, TRUE)>> \o HciCommand(answer, c))
    /\ UNCHANGED connections

\* A failed accept cancels the connection to the address.
on_accept_connection_status(c) ==
  /\ handle_next_event("acl",
       <<Closure("scheduler", "CancelAclConnection", c.address, 0, TRUE)>>)
  /\ UNCHANGED connections

ReportFailure(c) ==
  <<Closure("scheduler", "ReportOutgoingAclConnectionFailure", c.address, c.id, TRUE)>>

\* A connection that exists already is not reported to the scheduler.
SilentlyConnected(c) ==
  /\ handle_next_event("acl",
       IF is_classic_link_already_connected(c.address)
       THEN <<>> ELSE HciCommand("CREATE_CONNECTION", c))
  /\ UNCHANGED connections

actually_create_connection(c) ==
  /\ handle_next_event("acl",
       IF is_classic_link_already_connected(c.address)
       THEN ReportFailure(c) ELSE HciCommand("CREATE_CONNECTION", c))
  /\ UNCHANGED connections

\* Posted with an error only: there is nothing to do with a success.
on_create_connection_status(c) ==
  /\ handle_next_event("acl", ReportFailure(c))
  /\ UNCHANGED connections

on_connection_complete(c) ==
  /\ handle_next_event("acl",
       <<Closure("scheduler", "ReportAclConnectionCompletion", c.address, c.id, c.ok)>>)
  /\ UNCHANGED connections

create_and_announce_connection(c) ==
  /\ connections' = IF c.ok THEN connections \cup {Oper(c)} ELSE connections
  /\ handle_next_event("acl", <<>>)

\* The third callback of on_connection_complete.
handle_unknown_connection(c) ==
  /\ \/ c.ok /\ AssertionFails("acl", "No prior connection request")
     \/ /\ ~c.ok
        /\ handle_next_event("acl",
             <<Closure("rnr", "ReportRemoteNameRequestCancellation", c.address,
                       c.id, FALSE)>>)
  /\ UNCHANGED connections

actually_cancel_connect(c) ==
  /\ handle_next_event("acl", HciCommand("CREATE_CONNECTION_CANCEL", c))
  /\ UNCHANGED connections

on_classic_disconnect(c) ==
  /\ connections' = connections \ {Oper(c)}
  /\ handle_next_event("acl", <<>>)

\* The next closure of the ACL manager's handler runs.
RunAclManager ==
  LET c == Front("acl")
  IN  /\ \/ Runs("acl", "on_incoming_connection") /\ on_incoming_connection(c)
         \/ /\ Runs("acl", "on_accept_connection_status")
            /\ on_accept_connection_status(c)
         \/ /\ Runs("acl", "actually_create_connection")
            /\ actually_create_connection(c)
         \/ /\ Runs("acl", "on_create_connection_status")
            /\ on_create_connection_status(c)
         \/ Runs("acl", "on_connection_complete") /\ on_connection_complete(c)
         \/ /\ Runs("acl", "create_and_announce_connection")
            /\ create_and_announce_connection(c)
         \/ /\ Runs("acl", "handle_unknown_connection")
            /\ handle_unknown_connection(c)
         \/ Runs("acl", "actually_cancel_connect") /\ actually_cancel_connect(c)
         \/ Runs("acl", "on_classic_disconnect") /\ on_classic_disconnect(c)
      /\ UNCHANGED <<schedulerVars, rnrVars, ctlVars, countVars>>
-----------------------------------------------------------------------------
(***************************************************************************)
(* The controller.  Every Create Connection and every accepted or rejected *)
(* connection request ends with one Connection Complete, every Remote Name *)
(* Request with one Remote Name Request Complete, unless the command       *)
(* status was an error.                                                    *)
(***************************************************************************)

Event(handler, fn, x, ok) == <<Closure(handler, fn, x.address, x.id, ok)>>

ConnectionComplete(x, ok) == Event("acl", "on_connection_complete", x, ok)

\* Create Connection may be refused, and is if the controller is paging or has the
\* link.
ctl_create_connection(c) ==
  \/ /\ ctl_paging = {}
     /\ c.address \notin AddressesOf(ctl_links)
     /\ ctl_paging' = {Oper(c)}
     /\ handle_next_event("hci", <<>>)
     /\ UNCHANGED <<ctl_naming, ctl_requesting, ctl_accepted, ctl_links>>
  \/ /\ handle_next_event("hci", Event("acl", "on_create_connection_status", c, FALSE))
     /\ UNCHANGED ctlVars

\* Only a page under way can be cancelled; it is then completed with an error.
ctl_create_connection_cancel(c) ==
  LET cancelled == {x \in ctl_paging : x.address = c.address}
  IN  /\ ctl_paging' = ctl_paging \ cancelled
      /\ \/ \E x \in cancelled : handle_next_event("hci", ConnectionComplete(x, FALSE))
         \/ cancelled = {} /\ handle_next_event("hci", <<>>)
      /\ UNCHANGED <<ctl_naming, ctl_requesting, ctl_accepted, ctl_links>>

\* Remote Name Request may be refused, and is if another one is under way.
ctl_remote_name_request(c) ==
  \E ok \in BOOLEAN :
    /\ ok => ctl_naming = {}
    /\ ctl_naming' = IF ok THEN {Oper(c)} ELSE ctl_naming
    /\ handle_next_event("hci",
         Event("rnr", "on_start_remote_name_request_status", c, ok))
    /\ UNCHANGED <<ctl_paging, ctl_requesting, ctl_accepted, ctl_links>>

\* A request that is cancelled is completed with an error, or with a Connection
\* Complete by the controllers that ReportRemoteNameRequestCancellation is for.
ctl_remote_name_request_cancel(c) ==
  LET cancelled == {x \in ctl_naming : x.address = c.address}
      status(ok) == Event("rnr", "check_cancel_status", c, ok)
  IN  /\ ctl_naming' = ctl_naming \ cancelled
      /\ \/ \E x \in cancelled :
              \E complete \in {Event("rnr", "on_remote_name_request_complete", x, FALSE),
                               ConnectionComplete(x, FALSE)} :
                handle_next_event("hci", status(TRUE) \o complete)
         \/ cancelled = {} /\ handle_next_event("hci", status(FALSE))
      /\ UNCHANGED <<ctl_paging, ctl_requesting, ctl_accepted, ctl_links>>

\* The peer may have given up: an accept is then refused.
ctl_accept(c) ==
  LET there == {x \in ctl_requesting : x.address = c.address}
  IN  /\ ctl_requesting' = ctl_requesting \ there
      /\ ctl_accepted' = ctl_accepted \cup there
      /\ handle_next_event("hci",
           IF there # {} THEN <<>>
           ELSE Event("acl", "on_accept_connection_status", c, FALSE))
      /\ UNCHANGED <<ctl_paging, ctl_naming, ctl_links>>

ctl_reject(c) ==
  LET there == {x \in ctl_requesting : x.address = c.address}
  IN  /\ ctl_requesting' = ctl_requesting \ there
      /\ \/ \E x \in there : handle_next_event("hci", ConnectionComplete(x, FALSE))
         \/ there = {} /\ handle_next_event("hci", <<>>)
      /\ UNCHANGED <<ctl_paging, ctl_naming, ctl_accepted, ctl_links>>

\* The controller takes the next command.
ctl_command ==
  LET c == Front("hci")
  IN  /\ \/ Runs("hci", "CREATE_CONNECTION") /\ ctl_create_connection(c)
         \/ Runs("hci", "CREATE_CONNECTION_CANCEL") /\ ctl_create_connection_cancel(c)
         \/ Runs("hci", "REMOTE_NAME_REQUEST") /\ ctl_remote_name_request(c)
         \/ Runs("hci", "REMOTE_NAME_REQUEST_CANCEL") /\ ctl_remote_name_request_cancel(c)
         \/ Runs("hci", "ACCEPT_CONNECTION_REQUEST") /\ ctl_accept(c)
         \/ Runs("hci", "REJECT_CONNECTION_REQUEST") /\ ctl_reject(c)
      /\ UNCHANGED <<schedulerVars, rnrVars, connections, countVars>>

\* What the controller does of itself leaves the host alone but for the event e.
ctl_event(e) ==
  /\ aborted = "none"
  /\ tasks_' = Post(tasks_, e)
  /\ UNCHANGED <<aborted, schedulerVars, rnrVars, connections, requests,
                 connect_cancels, name_cancels>>

\* The links after the connection x was set up, or not.
LinksAfter(x, ok) == IF ok THEN ctl_links \cup {x} ELSE ctl_links

\* A page is over.
ctl_page_complete ==
  \E x \in ctl_paging, ok \in BOOLEAN :
    /\ ok => x.address \notin AddressesOf(ctl_links)
    /\ ctl_paging' = ctl_paging \ {x}
    /\ ctl_links' = LinksAfter(x, ok)
    /\ ctl_event(ConnectionComplete(x, ok))
    /\ UNCHANGED <<ctl_naming, ctl_requesting, ctl_accepted, incoming>>

\* A name request is over.
ctl_name_complete ==
  \E x \in ctl_naming, ok \in BOOLEAN :
    /\ ctl_naming' = ctl_naming \ {x}
    /\ ctl_event(Event("rnr", "on_remote_name_request_complete", x, ok))
    /\ UNCHANGED <<ctl_paging, ctl_requesting, ctl_accepted, ctl_links, incoming>>

\* A peer without a connection, or a request for one, asks for one.
ctl_connection_request(a) ==
  LET x == [address |-> a, id |-> MaxRequests + incoming + 1]
  IN  /\ incoming < MaxIncoming
      /\ incoming' = incoming + 1
      /\ a \notin AddressesOf(ctl_links \cup ctl_requesting \cup ctl_accepted)
      /\ ctl_requesting' = ctl_requesting \cup {x}
      /\ ctl_event(Event("acl", "on_incoming_connection", x, TRUE))
      /\ UNCHANGED <<ctl_paging, ctl_naming, ctl_accepted, ctl_links>>

\* The peer gives up before the host has answered.
ctl_request_timeout ==
  \E x \in ctl_requesting :
    /\ ctl_requesting' = ctl_requesting \ {x}
    /\ ctl_event(ConnectionComplete(x, FALSE))
    /\ UNCHANGED <<ctl_paging, ctl_naming, ctl_accepted, ctl_links, incoming>>

\* An accepted connection is set up, or not.
ctl_accept_complete ==
  \E x \in ctl_accepted, ok \in BOOLEAN :
    /\ ok => x.address \notin AddressesOf(ctl_links)
    /\ ctl_accepted' = ctl_accepted \ {x}
    /\ ctl_links' = LinksAfter(x, ok)
    /\ ctl_event(ConnectionComplete(x, ok))
    /\ UNCHANGED <<ctl_paging, ctl_naming, ctl_requesting, incoming>>

\* A link goes down.
ctl_disconnect ==
  \E x \in ctl_links :
    /\ ctl_links' = ctl_links \ {x}
    /\ ctl_event(Event("acl", "on_classic_disconnect", x, TRUE))
    /\ UNCHANGED <<ctl_paging, ctl_naming, ctl_requesting, ctl_accepted, incoming>>
-----------------------------------------------------------------------------
Scheduler ==
  RunScheduler /\ UNCHANGED <<rnrVars, connections, ctlVars, countVars>>
RemoteNames ==
  RunRemoteNameRequest /\ UNCHANGED <<schedulerVars, connections, ctlVars, countVars>>

Next ==
  \/ \E a \in Connects : create_connection(a) \/ cancel_connect(a)
  \/ \E a \in Names : StartRemoteNameRequest(a) \/ CancelRemoteNameRequest(a)
  \/ Scheduler
  \/ RunAclManager
  \/ RemoteNames
  \/ ctl_command
  \/ ctl_page_complete
  \/ ctl_name_complete
  \/ \E a \in Incoming : ctl_connection_request(a)
  \/ ctl_request_timeout
  \/ ctl_accept_complete
  \/ ctl_disconnect

Spec == Init /\ [][Next]_vars

\* Every handler runs what is posted to it, and the controller takes every command
\* and brings what it has begun to an end.  No client or peer need do anything.
Fairness ==
  /\ WF_vars(Scheduler)
  /\ WF_vars(RunAclManager)
  /\ WF_vars(RemoteNames)
  /\ WF_vars(ctl_command)
  /\ WF_vars(ctl_page_complete)
  /\ WF_vars(ctl_name_complete)
  /\ WF_vars(ctl_accept_complete)

FairSpec == Spec /\ Fairness
-----------------------------------------------------------------------------
(***************************************************************************)
(* Properties.                                                             *)
(***************************************************************************)

ClosureType == [handler : HandlerNames, fn : STRING, address : Addresses,
                id : Ids \cup {0}, ok : BOOLEAN]

\* The types of the scheduler's, the two clients' and the controller's state.
TypeOK ==
  /\ tasks_ \in [HandlerNames -> Seq(ClosureType)]
  /\ aborted \in {"none", "pending_ == false", "pending_ == true",
                  "No prior connection request"}
  /\ outgoing_entry_ \subseteq QueueEntry
  /\ Cardinality(outgoing_entry_) <= 1
  /\ pending_outgoing_operations_ \in Seq(QueueEntry)
  /\ incoming_connecting_address_set_ \subseteq Addresses
  /\ pending_ \in BOOLEAN
  /\ on_remote_name_complete_ \in 0..MaxRequests
  /\ pending_ => on_remote_name_complete_ # 0
  /\ answers \in [1..MaxRequests -> Seq(Ids)]
  /\ connections \subseteq Operation
  /\ ctl_paging \cup ctl_naming \subseteq Operation
  /\ ctl_requesting \cup ctl_accepted \cup ctl_links \subseteq Operation

\* No operation is left waiting that could start: whatever a handler of the
\* scheduler does, a cancellation included, it never leaves
\* ready_to_send_next_operation true.
NeverStalls ==
  ~ready_to_send_next_operation(outgoing_entry_, pending_outgoing_operations_,
                                incoming_connecting_address_set_)

\* "so that we can be sure that it does not conflict with other operations"
\* (acl_scheduler.h:33): the controller is never asked to connect or to request a
\* name while another such operation of ours is under way.
NoConflict ==
  LET commanded == {n \in DOMAIN tasks_["hci"] :
        tasks_["hci"][n].fn \in {"CREATE_CONNECTION", "REMOTE_NAME_REQUEST"}}
  IN  Cardinality(commanded) + Cardinality(ctl_paging) + Cardinality(ctl_naming) <= 1


\* The assertions on pending_ in actually_start_remote_name_request and
\* on_start_remote_name_request_status hold.
NameRequestsAreSingle == aborted \notin {"pending_ == false", "pending_ == true"}

\* The assertion in on_connection_complete holds: every successful connection is
\* one that was requested or registered as incoming, "No prior connection request".
ConnectionsAreKnown == aborted # "No prior connection request"

\* Nothing is under way in any handler, in the HCI layer or in the controller.
Quiet ==
  /\ aborted = "none"
  /\ \A h \in HandlerNames : tasks_[h] = <<>>
  /\ ctl_paging = {} /\ ctl_naming = {} /\ ctl_requesting = {} /\ ctl_accepted = {}

\* When nothing is under way the scheduler holds nothing: no entry or incoming
\* address is leaked by ReportAclConnectionCompletion and the other reports, which
\* would block every later operation; and classic_impl knows every link that the
\* controller has.
QuietMeansIdle ==
  Quiet => /\ outgoing_entry_ = {}
           /\ incoming_connecting_address_set_ = {}
           /\ ~pending_
           /\ ctl_links \subseteq connections

\* "something went wrong, but unblock queue and report to caller"
\* (on_create_connection_status, classic_impl.h:315): no operation is left in the
\* queue when nothing is under way that could start it.
QueueUnblocked == Quiet => pending_outgoing_operations_ = <<>>

\* The scheduler comes to rest again and again: no operation waits in the queue,
\* stays outgoing or stays pending for ever, whatever is refused, fails, is
\* cancelled or crosses an incoming connection of another peer.
ComesToRest ==
  []<>(\/ aborted # "none"
       \/ /\ pending_outgoing_operations_ = <<>>
          /\ outgoing_entry_ = {}
          /\ incoming_connecting_address_set_ = {}
          /\ ~pending_)
=============================================================================
