------------------------ MODULE RoundRobinScheduler ------------------------
(***************************************************************************)
(* The scheduler of outgoing ACL data (round_robin_scheduler.cc): it takes *)
(* packets from the queues of the connections in turn, cuts them into      *)
(* fragments and hands the fragments to the HCI layer as long as the       *)
(* controller has buffers (credits), separately for CLASSIC and LE.        *)
(*                                                                         *)
(* Everything runs on the handler of the ACL manager.  The queues are      *)
(* external: waiting[h] counts the packets in the queue of connection h,   *)
(* and ready lists the connections whose dequeue callback the reactor will *)
(* run, in the order in which they became ready.                           *)
(***************************************************************************)
EXTENDS Integers, Sequences, FiniteSets

CONSTANTS Handles,         \* connection handles, ordered as in std::map
          ConnectionType,  \* the transport of each handle
          MaxCredits,      \* the controller's buffers, per transport
          MaxFragments,    \* bound: fragments of one packet
          QueueDepth,      \* bound: packets in the queue of one connection
          MaxPosted,       \* bound: start_round_robin closures posted
          Disconnecting,   \* the handles whose connection may go down
          drop_acl_fragment_on_disconnect  \* the flag of that name

Types == {"CLASSIC", "LE"}
END == -1                  \* acl_queue_handlers_.end()

ASSUME ConstantsAssumption ==
  /\ Handles \subseteq Nat
  /\ IsFiniteSet(Handles)
  /\ ConnectionType \in [Handles -> Types]
  /\ MaxCredits \in [Types -> Nat]
  /\ \E t \in Types : MaxCredits[t] # 0
  /\ MaxFragments \in Nat \ {0}
  /\ QueueDepth \in Nat \ {0}
  /\ MaxPosted \in Nat \ {0}
  /\ Disconnecting \subseteq Handles
  /\ drop_acl_fragment_on_disconnect \in BOOLEAN

VARIABLES
  acl_queue_handlers_,      \* the registered connections
  dequeue_is_registered_,   \* those whose dequeue callback is registered
  number_of_sent_packets_,
  high_priority_,           \* the connections with high priority
  fragments_to_send_,       \* per priority level, the handles of the fragments
  credits,                  \* acl_packet_credits_ and le_acl_packet_credits_
  enqueue_registered_,
  starting_point_,
  posted,                   \* start_round_robin closures posted
  waiting, ready,           \* the queues and the reactor
  outstanding               \* fragments in the controller's buffers

vars == <<acl_queue_handlers_, dequeue_is_registered_, number_of_sent_packets_,
          high_priority_, fragments_to_send_, credits, enqueue_registered_,
          starting_point_, posted, waiting, ready, outstanding>>

Init ==
  /\ acl_queue_handlers_ = {}
  /\ dequeue_is_registered_ = {}
  /\ number_of_sent_packets_ = [h \in Handles |-> 0]
  /\ high_priority_ = {}
  /\ fragments_to_send_ = [p \in {0, 1} |-> <<>>]
  /\ credits = MaxCredits
  /\ enqueue_registered_ = FALSE
  /\ starting_point_ = END
  /\ posted = 0
  /\ waiting = [h \in Handles |-> 0]
  /\ ready = <<>>
  /\ outstanding = [h \in Handles |-> 0]
-----------------------------------------------------------------------------
(***************************************************************************)
(* MultiPriorityQueue: items of greater priority leave first.              *)
(***************************************************************************)

Empty(q) == q[0] = <<>> /\ q[1] = <<>>

\* The level next_to_dequeue_.top() names.
Top(q) == IF q[1] # <<>> THEN 1 ELSE 0

Front(q) == Head(q[Top(q)])

Pop(q) == [q EXCEPT ![Top(q)] = Tail(@)]

Size(q) == Len(q[0]) + Len(q[1])

\* n fragments of connection h are pushed with priority p.
Push(q, h, p, n) == [q EXCEPT ![p] = @ \o [i \in 1..n |-> h]]

\* The positions of the items of s that are not of connection h, the one of the
\* n-th of them, and the items at all of them, in order.
Kept(s, h) == {i \in DOMAIN s : s[i] # h}
NthKept(s, h, n) ==
  CHOOSE i \in Kept(s, h) : Cardinality({j \in Kept(s, h) : j <= i}) = n
Filter(s, h) == [n \in 1..Cardinality(Kept(s, h)) |-> s[NthKept(s, h, n)]]

\* The items of connection h are taken out.
Without(q, h) == [p \in {0, 1} |-> Filter(q[p], h)]
-----------------------------------------------------------------------------
(***************************************************************************)
(* What the handlers share.                                                *)
(***************************************************************************)

\* acl_queue_handlers_.begin() and std::next of an iterator.
Begin(hs) == IF hs = {} THEN END ELSE CHOOSE h \in hs : \A g \in hs : h <= g
NextHandle(hs, h) == Begin({g \in hs : g > h})

\* g comes before h on the way round that starts at sp.
Before(g, h, sp) == IF (g >= sp) <=> (h >= sp) THEN g < h ELSE g >= sp

\* The front fragment, if any, may be sent with credits c.
CanSend(q, c) == ~Empty(q) /\ c[ConnectionType[Front(q)]] # 0

\* send_next_fragment in start_round_robin: the enqueue callback, registered if e,
\* is registered if the front fragment may be sent.
NoFragmentSent(e, q, c) == e
send_next_fragment(e, q, c) == e \/ CanSend(q, c)

\* start_round_robin, called by a handler that leaves the connections, fragments
\* and credits in the primed variables, and the dequeue callbacks dq, the ready
\* list r, the starting point sp and enqueue_registered_ = e.
start_round_robin(dq, r, sp, e) ==
  LET hs == acl_queue_handlers_'
      first == IF Cardinality(hs) = 1 \/ sp = END THEN Begin(hs) ELSE sp
      added == {h \in hs \ dq : credits'[ConnectionType[h]] # 0}
      nonempty == {h \in added : waiting[h] > 0}
  IN  IF /\ Empty(fragments_to_send_')
         /\ hs # {}
         /\ \E t \in Types : credits'[t] # 0
      THEN /\ dequeue_is_registered_' = dq \cup added
           /\ starting_point_' = NextHandle(hs, first)
           /\ enqueue_registered_' = e
           /\ \E s \in [1..Cardinality(nonempty) -> nonempty] :
                /\ \A i, j \in DOMAIN s : i < j => Before(s[i], s[j], first)
                /\ ready' = r \o s
      ELSE /\ dequeue_is_registered_' = dq
           /\ starting_point_' = sp
           /\ enqueue_registered_' = send_next_fragment(e, fragments_to_send_', credits')
           /\ ready' = r

\* UnregisterDequeue: connection h, if it is in r, is ready no more.
NotReady(r, h) ==
  IF \E i \in DOMAIN r : r[i] = h
  THEN LET k == CHOOSE i \in DOMAIN r : r[i] = h
       IN  [j \in 1..(Len(r) - 1) |-> IF j < k THEN r[j] ELSE r[j + 1]]
  ELSE r

\* The scheduler's callbacks stay as they are.
NoRestart == UNCHANGED <<dequeue_is_registered_, ready, starting_point_,
                         enqueue_registered_>>
-----------------------------------------------------------------------------
(***************************************************************************)
(* Handlers.                                                               *)
(***************************************************************************)

\* The upper layer puts a packet into the queue of connection h.
EnqueuePacket(h) ==
  /\ h \in acl_queue_handlers_
  /\ waiting[h] < QueueDepth
  /\ waiting' = [waiting EXCEPT ![h] = @ + 1]
  /\ ready' = IF h \in dequeue_is_registered_ /\ waiting[h] = 0
              THEN Append(ready, h) ELSE ready
  /\ UNCHANGED <<acl_queue_handlers_, dequeue_is_registered_,
                 number_of_sent_packets_, high_priority_, fragments_to_send_,
                 credits, enqueue_registered_, starting_point_, posted,
                 outstanding>>

\* A connection comes up.  Its handle is not in use.
Register(h) ==
  /\ h \notin acl_queue_handlers_
  /\ acl_queue_handlers_' = acl_queue_handlers_ \cup {h}
  /\ UNCHANGED <<number_of_sent_packets_, high_priority_, fragments_to_send_,
                 credits, posted, waiting, outstanding>>
  /\ IF Empty(fragments_to_send_)
     THEN start_round_robin(dequeue_is_registered_, ready, starting_point_,
                            enqueue_registered_)
     ELSE NoRestart

\* The fragments that drop_packet_fragments leaves.
drop_packet_fragments(h) ==
  IF drop_acl_fragment_on_disconnect THEN Without(fragments_to_send_, h)
  ELSE fragments_to_send_

\* number_of_sent_packets_ of h once its dropped fragments, those that are not in
\* q, are taken off.
CountsDropped(h, q) == number_of_sent_packets_[h]
sent_packets(h, q) ==
  number_of_sent_packets_[h] - (Size(fragments_to_send_) - Size(q))

\* starting_point_ once only the connections hs are left.
DanglingStart(hs) == starting_point_
reset_starting_point(hs) == Begin(hs)

\* A connection goes down: its unsent fragments are dropped, its credits are
\* reclaimed and sending restarts if there were none left.  The controller
\* frees the buffers of the connection; a later report about them is ignored
\* because the handle is no longer registered.
Unregister(h) ==
  LET q == drop_packet_fragments(h)
      sent == sent_packets(h, q)
      t == ConnectionType[h]
      hs == acl_queue_handlers_ \ {h}
      dq == dequeue_is_registered_ \ {h}
      r == NotReady(ready, h)
      e == enqueue_registered_ /\ (Empty(fragments_to_send_) \/ ~Empty(q))
  IN  /\ h \in acl_queue_handlers_ \cap Disconnecting
      /\ acl_queue_handlers_' = hs
      /\ number_of_sent_packets_' = [number_of_sent_packets_ EXCEPT ![h] = 0]
      /\ high_priority_' = high_priority_ \ {h}
      /\ fragments_to_send_' = q
      /\ credits' = [credits EXCEPT ![t] = @ + sent]
      /\ waiting' = [waiting EXCEPT ![h] = 0]
      /\ outstanding' = [outstanding EXCEPT ![h] = 0]
      /\ UNCHANGED posted
      /\ IF drop_acl_fragment_on_disconnect /\ sent > 0 /\ credits[t] = 0
         THEN start_round_robin(dq, r, reset_starting_point(hs), e)
         ELSE /\ dequeue_is_registered_' = dq
              /\ ready' = r
              /\ starting_point_' = reset_starting_point(hs)
              /\ enqueue_registered_' = e

\* An unknown handle is ignored.
SetLinkPriority(h, high_priority) ==
  /\ h \in acl_queue_handlers_
  /\ high_priority_' = IF high_priority THEN high_priority_ \cup {h}
                       ELSE high_priority_ \ {h}
  /\ UNCHANGED <<acl_queue_handlers_, dequeue_is_registered_,
                 number_of_sent_packets_, fragments_to_send_, credits,
                 enqueue_registered_, starting_point_, posted, waiting, ready,
                 outstanding>>

\* No connection is asked for packets.
StaysRegistered == UNCHANGED <<dequeue_is_registered_, ready>>
unregister_all_connections == dequeue_is_registered_' = {} /\ ready' = <<>>

\* The dequeue callback of connection h: its next packet becomes n fragments,
\* and no connection is asked for another until they are sent.
buffer_packet(h, n) ==
  LET p == IF h \in high_priority_ THEN 1 ELSE 0
      q == Push(fragments_to_send_, h, p, n)
  IN  /\ ready # <<>> /\ h = Head(ready)
      /\ waiting' = [waiting EXCEPT ![h] = @ - 1]
      /\ fragments_to_send_' = q
      /\ unregister_all_connections
      /\ number_of_sent_packets_' =
           [number_of_sent_packets_ EXCEPT ![h] = @ + Size(q)]
      /\ enqueue_registered_' = TRUE
      /\ UNCHANGED <<acl_queue_handlers_, high_priority_, credits,
                     starting_point_, posted, outstanding>>

\* The enqueue callback stays registered with fragments q and credits c.
IgnoresCredits(q, c) == ~Empty(q)
stays_enqueued(q, c) == CanSend(q, c)

\* The enqueue callback: the front fragment goes to the HCI layer.  After the
\* last one start_round_robin is posted; without a credit for the next one the
\* callback is unregistered.
handle_enqueue_next_fragment ==
  LET h == Front(fragments_to_send_)
      q == Pop(fragments_to_send_)
      c == [credits EXCEPT ![ConnectionType[h]] = @ - 1]
  IN  /\ enqueue_registered_
      /\ Empty(q) => posted < MaxPosted
      /\ credits' = c
      /\ fragments_to_send_' = q
      /\ enqueue_registered_' = stays_enqueued(q, c)
      /\ posted' = IF Empty(q) THEN posted + 1 ELSE posted
      /\ outstanding' = IF h \in acl_queue_handlers_
                        THEN [outstanding EXCEPT ![h] = @ + 1] ELSE outstanding
      /\ UNCHANGED <<acl_queue_handlers_, dequeue_is_registered_,
                     number_of_sent_packets_, high_priority_, starting_point_,
                     waiting, ready>>

\* A posted start_round_robin runs.
RunPosted ==
  /\ posted > 0
  /\ posted' = posted - 1
  /\ UNCHANGED <<acl_queue_handlers_, number_of_sent_packets_, high_priority_,
                 fragments_to_send_, credits, waiting, outstanding>>
  /\ start_round_robin(dequeue_is_registered_, ready, starting_point_,
                       enqueue_registered_)

NeverWasZero(t) == FALSE
credit_was_zero(t) == credits[t] = 0

\* The controller reports n completed packets of connection h.
incoming_acl_credits(h, n) ==
  LET t == ConnectionType[h]
      sum == credits[t] + n
  IN  /\ h \in acl_queue_handlers_
      /\ n \in 1..outstanding[h]
      /\ outstanding' = [outstanding EXCEPT ![h] = @ - n]
      /\ number_of_sent_packets_' =
           [number_of_sent_packets_ EXCEPT ![h] = IF @ >= n THEN @ - n ELSE 0]
      /\ credits' = [credits EXCEPT ![t] =
                       IF sum > MaxCredits[t] THEN MaxCredits[t] ELSE sum]
      /\ UNCHANGED <<acl_queue_handlers_, high_priority_, fragments_to_send_,
                     posted, waiting>>
      /\ IF credit_was_zero(t)
         THEN start_round_robin(dequeue_is_registered_, ready, starting_point_,
                                enqueue_registered_)
         ELSE NoRestart

Credited(h) == \E n \in 1..outstanding[h] : incoming_acl_credits(h, n)

Buffered(h) == \E n \in 1..MaxFragments : buffer_packet(h, n)

Next ==
  \/ \E h \in Handles : EnqueuePacket(h)
  \/ \E h \in Handles : Register(h)
  \/ \E h \in Handles : Unregister(h)
  \/ \E h \in Handles, b \in BOOLEAN : SetLinkPriority(h, b)
  \/ \E h \in Handles : Buffered(h)
  \/ handle_enqueue_next_fragment
  \/ RunPosted
  \/ \E h \in Handles : Credited(h)

Spec == Init /\ [][Next]_vars

\* The reactor runs every callback that stays ready and the handler every closure
\* posted to it, and the controller completes every packet it was given.
Fairness ==
  /\ WF_vars(\E h \in Handles : Buffered(h))
  /\ WF_vars(handle_enqueue_next_fragment)
  /\ WF_vars(RunPosted)
  /\ \A h \in Handles : WF_vars(Credited(h))

FairSpec == Spec /\ Fairness
-----------------------------------------------------------------------------
(***************************************************************************)
(* Properties.                                                             *)
(***************************************************************************)

\* Every variable has its type: the sets name registered connections, and the
\* iterator starting_point_ is never one of an erased entry.
TypeOK ==
  /\ acl_queue_handlers_ \subseteq Handles
  /\ dequeue_is_registered_ \subseteq acl_queue_handlers_
  /\ number_of_sent_packets_ \in [Handles -> Nat]
  /\ high_priority_ \subseteq acl_queue_handlers_
  /\ fragments_to_send_ \in [{0, 1} -> Seq(Handles)]
  /\ credits \in [Types -> Nat]
  /\ enqueue_registered_ \in BOOLEAN
  /\ starting_point_ \in acl_queue_handlers_ \cup {END}
  /\ posted \in 0..MaxPosted
  /\ waiting \in [Handles -> 0..QueueDepth]
  /\ ready \in Seq(dequeue_is_registered_)
  /\ outstanding \in [Handles -> Nat]

\* The assertions of handle_enqueue_next_fragment and buffer_packet hold: the
\* enqueue callback is registered only while there is a fragment and a credit for
\* it, and a connection is ready only while its queue has a packet.
CallbacksFindTheirData ==
  /\ enqueue_registered_ => CanSend(fragments_to_send_, credits)
  /\ \A i \in DOMAIN ready : waiting[ready[i]] > 0

\* While fragments wait, no connection is asked for a packet, and the fragments
\* are all of one packet: `number_of_sent_packets_ += fragments_to_send_.size()`
\* in buffer_packet charges the connection for its own fragments only.
OnePacketAtATime ==
  /\ dequeue_is_registered_ # {} => Empty(fragments_to_send_)
  /\ \A p \in {0, 1} : \A i \in DOMAIN fragments_to_send_[p] :
       fragments_to_send_[p][i] = Front(fragments_to_send_)

\* The fragments of transport t in the controller's buffers.
InFlight(t) ==
  UNION {{h} \X (1..outstanding[h]) : h \in {g \in Handles : ConnectionType[g] = t}}

\* No credit is lost or made up, whatever disconnects while its packet is partly
\* sent: the credits of a transport are the free buffers of the controller
\* (with drop_acl_fragment_on_disconnect).
CreditsAreFreeBuffers ==
  \A t \in Types : credits[t] + Cardinality(InFlight(t)) = MaxCredits[t]

\* The scheduler never goes idle on a connection it could serve: without
\* fragments to send and without a posted start_round_robin, the queue of every
\* connection with credits is being watched.
NeverIdle ==
  Empty(fragments_to_send_) /\ posted = 0 =>
    \A h \in acl_queue_handlers_ :
      credits[ConnectionType[h]] > 0 => h \in dequeue_is_registered_

\* "Restart sending packets if we got acl credits" (Unregister): a disconnection
\* that gives credits back leaves no connection with credits unwatched.
RestartsAfterReclaim ==
  [][(\E t \in Types : credits'[t] > credits[t])
       /\ acl_queue_handlers_' # acl_queue_handlers_ => NeverIdle']_vars

\* Data moves: packets are taken from the queues for ever or the queues run
\* empty again and again.
DataMoves ==
  \/ []<>(\A h \in Handles : waiting[h] = 0)
  \/ []<><<\E h \in Handles : Buffered(h)>>_vars

\* The schedule is round robin: a connection that always has a packet waiting is
\* served again and again.
RoundRobin ==
  \A h \in Handles :
    <>[](waiting[h] > 0) => []<><<Buffered(h)>>_vars
=============================================================================
