------------------------------ MODULE Handlers ------------------------------
(***************************************************************************)
(* Handlers (system/gd/os/handler.cc): each module has one, all of them on *)
(* the same thread.  A handler runs the closures posted to it in order;    *)
(* between handlers any order is possible, because the reactor polls one   *)
(* event per handler.  A closure runs to its end before the next one.      *)
(***************************************************************************)
EXTENDS Sequences

VARIABLES
  tasks_,   \* the closures posted to each handler, and the commands to the HCI layer
  aborted   \* the assertion that ended the process, or "none"

\* A closure: the function fn bound to the address, the number of the request it
\* is about and a status (is it SUCCESS?), posted to a handler.
Closure(handler, fn, address, id, ok) ==
  [handler |-> handler, fn |-> fn, address |-> address, id |-> id, ok |-> ok]

\* The closures cs are posted, in order.
Post(t, cs) ==
  [h \in DOMAIN t |-> t[h] \o SelectSeq(cs, LAMBDA c : c.handler = h)]

\* The next closure of handler h.
Front(h) == Head(tasks_[h])

\* Handler h is about to run the function fn.
Runs(h, fn) == aborted = "none" /\ tasks_[h] # <<>> /\ Front(h).fn = fn

\* The closure of h that runs now is taken off and posts the closures cs.
handle_next_event(h, cs) ==
  /\ tasks_' = Post([tasks_ EXCEPT ![h] = Tail(@)], cs)
  /\ UNCHANGED aborted

\* log::assert_that fails in the closure of h.
AssertionFails(h, assertion) ==
  /\ aborted' = assertion
  /\ tasks_' = [tasks_ EXCEPT ![h] = Tail(@)]
=============================================================================
