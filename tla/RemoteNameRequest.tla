------------------------- MODULE RemoteNameRequest -------------------------
(***************************************************************************)
(* RemoteNameRequestModule (system/gd/hci/remote_name_request.cc): one     *)
(* request at a time is sent to the controller and its callback called     *)
(* when a completion, a failed cancellation or a misreported connection    *)
(* completion arrives.  The features notification is left out.             *)
(*                                                                         *)
(* A closure carries the number of the request that it is about.  The code *)
(* has only the address, and mostly ignores it; the number serves to tell  *)
(* whose completion a callback was called with.                            *)
(***************************************************************************)
EXTENDS Handlers, Naturals

VARIABLES
  pending_,
  on_remote_name_complete_,  \* the request whose callback is stored; 0 for none
  answers                    \* history: per request, what its callbacks were
                             \* called for: the requests completed or cancelled

rnrVars == <<pending_, on_remote_name_complete_, answers>>

\* on_remote_name_complete_ of request id, or on_completion with an error, is
\* called because of what happened to request cause.
Answer(id, cause) == answers' = [answers EXCEPT ![id] = Append(@, cause)]

\* ReportRemoteNameRequestCompletion is posted to the scheduler.
ReportCompletion(c) ==
  <<Closure("scheduler", "ReportRemoteNameRequestCompletion", c.address, c.id, TRUE)>>

\* The request stays pending.
KeepsPending(c) ==
  /\ Answer(on_remote_name_complete_, c.id)
  /\ UNCHANGED <<pending_, on_remote_name_complete_>>
  /\ handle_next_event("rnr", ReportCompletion(c))

\* The request is over: the callback is called and the scheduler told.
finish(c) ==
  /\ pending_' = FALSE
  /\ Answer(on_remote_name_complete_, c.id)
  /\ UNCHANGED on_remote_name_complete_
  /\ handle_next_event("rnr", ReportCompletion(c))

ignore(c) == UNCHANGED rnrVars /\ handle_next_event("rnr", <<>>)

\* The callback is not stored.
CallbackNotStored(c) ==
  /\ pending_' = TRUE
  /\ UNCHANGED <<on_remote_name_complete_, answers>>
  /\ handle_next_event("rnr",
       <<Closure("hci", "REMOTE_NAME_REQUEST", c.address, c.id, TRUE)>>)

actually_start_remote_name_request(c) ==
  \/ /\ pending_
     /\ AssertionFails("rnr", "pending_ == false")
     /\ UNCHANGED rnrVars
  \/ /\ ~pending_
     /\ pending_' = TRUE
     /\ on_remote_name_complete_' = c.id
     /\ UNCHANGED answers
     /\ handle_next_event("rnr",
          <<Closure("hci", "REMOTE_NAME_REQUEST", c.address, c.id, TRUE)>>)

\* A name request that the controller refuses stays outgoing.
ForgetsToReport(c) ==
  /\ pending_
  /\ pending_' = c.ok
  /\ IF c.ok THEN UNCHANGED answers ELSE Answer(c.id, c.id)
  /\ UNCHANGED on_remote_name_complete_
  /\ handle_next_event("rnr", <<>>)


\* The command status of the request.  An error is passed on by on_completion.
on_start_remote_name_request_status(c) ==
  \/ /\ ~pending_
     /\ AssertionFails("rnr", "pending_ == true")
     /\ UNCHANGED rnrVars
  \/ /\ pending_ /\ c.ok
     /\ ignore(c)
  \/ /\ pending_ /\ ~c.ok
     /\ pending_' = FALSE
     /\ Answer(c.id, c.id)
     /\ UNCHANGED on_remote_name_complete_
     /\ handle_next_event("rnr", ReportCompletion(c))

actually_cancel_remote_name_request(c) ==
  /\ UNCHANGED rnrVars
  /\ handle_next_event("rnr",
       IF pending_
       THEN <<Closure("hci", "REMOTE_NAME_REQUEST_CANCEL", c.address, c.id, TRUE)>>
       ELSE <<>>)

\* completed, and ReportRemoteNameRequestCancellation: the event is taken to be
\* about the request that is pending, if there is one.
completed(c) == IF pending_ THEN finish(c) ELSE ignore(c)

\* The command complete of a cancellation: only a failed one has an effect.
check_cancel_status(c) == IF c.ok THEN ignore(c) ELSE completed(c)

\* The queued request was cancelled: its callback is called with PAGE_TIMEOUT.
callback_when_cancelled(c) ==
  /\ Answer(c.id, c.id)
  /\ UNCHANGED <<pending_, on_remote_name_complete_>>
  /\ handle_next_event("rnr", <<>>)

\* The next closure of the module's handler runs.
RunRemoteNameRequest ==
  LET c == Front("rnr")
  IN  \/ /\ Runs("rnr", "actually_start_remote_name_request")
         /\ actually_start_remote_name_request(c)
      \/ /\ Runs("rnr", "on_start_remote_name_request_status")
         /\ on_start_remote_name_request_status(c)
      \/ /\ Runs("rnr", "actually_cancel_remote_name_request")
         /\ actually_cancel_remote_name_request(c)
      \/ /\ Runs("rnr", "callback_when_cancelled")
         /\ callback_when_cancelled(c)
      \/ /\ Runs("rnr", "on_remote_name_request_complete")
         /\ completed(c)
      \/ /\ Runs("rnr", "check_cancel_status")
         /\ check_cancel_status(c)
      \/ /\ Runs("rnr", "ReportRemoteNameRequestCancellation")
         /\ completed(c)
=============================================================================
