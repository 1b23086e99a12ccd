----------------------------- MODULE ErtmChannel -----------------------------
(***************************************************************************)
(* A channel in enhanced retransmission mode between two ends that both    *)
(* run L2capErtm, over a link that may lose frames and keeps their order.  *)
(*                                                                         *)
(* The upper layers and the controllers are external.  A frame is lost     *)
(* when it is flushed, or when l2c_fcr_proc_pdu drops it for its frame     *)
(* check sequence.                                                         *)
(***************************************************************************)
EXTENDS L2capErtm, FiniteSets

CONSTANTS Ends,
          Sdus,      \* the SDUs that the upper layer at each end writes, in order
          FirstSeq,  \* the sequence number that each end sends next
          MaxLost,   \* bound: frames that are lost, for each window
          MaxEarly   \* bound: timers that expire while frames are under way

ASSUME ChannelAssumption ==
  /\ Cardinality(Ends) = 2
  /\ DOMAIN Sdus = Ends
  /\ FirstSeq \in 0..Modulo-1
  /\ MaxLost \in [TxWindows -> Nat]
  /\ MaxEarly \in Nat

VARIABLES
  ccb,           \* the ends
  air,           \* frames that the controller of an end has, or that are in the air
  written,       \* history: how many SDUs the upper layer at each end has written
  read,          \* history: the SDUs that the upper layer at each end was given
  lost, early    \* history: how many so far

vars == <<ccb, air, written, read, lost, early>>

Peer(e) == CHOOSE x \in Ends : x # e

\* The channel is open; any number of frames were exchanged before, and acknowledged.
Init ==
  /\ \E win \in TxWindows :
       ccb = [e \in Ends |-> [InitEnd(win) EXCEPT !.next_tx_seq = FirstSeq,
                                                 !.last_rx_ack = FirstSeq,
                                                 !.next_seq_expected = FirstSeq,
                                                 !.last_ack_sent = FirstSeq]]
  /\ air = [e \in Ends |-> <<>>]
  /\ written = [e \in Ends |-> 0]
  /\ read = [e \in Ends |-> <<>>]
  /\ lost = 0
  /\ early = 0

\* The end e has become c.  The controllers have the frames in rest, and get the
\* new ones of e.
Becomes(e, c, rest) ==
  /\ ccb' = [ccb EXCEPT ![e] = [c EXCEPT !.sent = <<>>, !.data = <<>>]]
  /\ air' = [rest EXCEPT ![e] = @ \o c.sent]
  /\ read' = [read EXCEPT ![e] = @ \o c.data]

DataWrite(e) ==
  /\ Open(ccb[e])
  /\ written[e] < Len(Sdus[e])
  /\ written' = [written EXCEPT ![e] = @ + 1]
  /\ Becomes(e, l2c_link_check_send_pkts(
                  l2c_enqueue_peer_data(ccb[e], Sdus[e][written[e] + 1])), air)
  /\ UNCHANGED <<lost, early>>

\* The next frame of the peer arrives at e.
Receive(e) ==
  LET frame == Head(air[Peer(e)])
      c == ccb[e]
      rest == [air EXCEPT ![Peer(e)] = Tail(@)]
  IN  /\ air[Peer(e)] # <<>>
      /\ Becomes(e, CASE frame.type = "DISC_REQ" -> l2cu_send_peer_disc_rsp(c)
                      [] frame.type # "DISC_REQ" /\ ~Open(c) -> c
                      [] OTHER -> l2c_fcr_proc_pdu(c, frame), rest)
      /\ UNCHANGED <<written, lost, early>>

\* The next frame of e is lost.
Lose(e) ==
  /\ lost < MaxLost[ccb[e].tx_win_sz]
  /\ air[e] # <<>>
  /\ Head(air[e]).type \notin {"DISC_REQ", "DISC_RSP"}
  /\ lost' = lost + 1
  /\ air' = [air EXCEPT ![e] = Tail(@)]
  /\ UNCHANGED <<ccb, written, read, early>>

\* The controller reports num_sent of the frames of e that have left it.
l2c_packets_completed(e, num_sent) ==
  /\ ccb[e].sent_not_acked >= Len(air[e]) + num_sent
  /\ Becomes(e, l2c_link_check_send_pkts([ccb[e] EXCEPT !.sent_not_acked = @ - num_sent]), air)
  /\ UNCHANGED <<written, lost, early>>

\* Frames are under way, or completions of them.
UnderWay == \E e \in Ends : air[e] # <<>> \/ ccb[e].sent_not_acked > 0

\* The timers run for seconds: few expire while a frame is under way.
Expire ==
  IF UnderWay THEN early < MaxEarly /\ early' = early + 1 ELSE UNCHANGED early

Timeout(e) ==
  /\ ccb[e].mon_retrans_timer
  /\ Expire
  /\ Becomes(e, l2c_fcr_proc_tout(ccb[e]), air)
  /\ UNCHANGED <<written, lost>>

AckTimeout(e) ==
  /\ ccb[e].ack_timer
  /\ Expire
  /\ Becomes(e, l2c_fcr_proc_ack_tout(ccb[e]), air)
  /\ UNCHANGED <<written, lost>>

Next ==
  \E e \in Ends :
    \/ DataWrite(e)
    \/ Receive(e)
    \/ Lose(e)
    \/ \E num_sent \in 1..link_xmit_quota : l2c_packets_completed(e, num_sent)
    \/ Timeout(e)
    \/ AckTimeout(e)

Spec == Init /\ [][Next]_vars

-----------------------------------------------------------------------------

\* Type invariant.  It holds the send window (l2c_fcr_is_flow_controlled), the receive
\* window (srej_rcv_hold_q) and the quota of the link to their limits.
TypeOK ==
  \A e \in Ends :
    LET c == ccb[e]
    IN  /\ c.closed \in {"no", "peer", "max_transmit", "BAD Req_Seq", "reassembly"}
        /\ {c.next_tx_seq, c.last_rx_ack, c.next_seq_expected, c.last_ack_sent}
             \subseteq 0..Modulo-1
        /\ c.num_tries \in 0..max_transmit
        /\ Len(c.waiting_for_ack_q) <= c.tx_win_sz
        /\ Len(c.retrans_q) <= 2 * c.tx_win_sz
        /\ Len(c.srej_rcv_hold_q) <= c.tx_win_sz
        /\ c.sent_not_acked \in 0..link_xmit_quota

\* Two ends that run this code never find each other's frames wrong: whatever is lost
\* and sent again, process_reqseq is not given an acknowledgement of what was not sent
\* ("BAD Req_Seq"), and do_sar_reassembly no piece that does not follow the last one.
NoBadFrame == \A e \in Ends : ccb[e].closed \notin {"BAD Req_Seq", "reassembly"}

\* process_i_frame looks at the last held frame without a test whether there is one
\* when srej_sent is set.
HoldsAfterSrej == \A e \in Ends : ccb[e].srej_sent => ccb[e].srej_rcv_hold_q # <<>>

\* What waits for an acknowledgement are the frames from last_rx_ack to next_tx_seq,
\* and the frame that the peer expects is one of them or the next new one: no frame is
\* released before the peer has it.
KeepsUnacknowledged ==
  \A e \in Ends :
    LET c == ccb[e]
        waiting == c.waiting_for_ack_q
        expected == ccb[Peer(e)].next_seq_expected
    IN  Open(c) /\ Open(ccb[Peer(e)]) =>
          /\ \A n \in DOMAIN waiting : waiting[n].tx_seq = Plus(c.last_rx_ack, n - 1)
          /\ c.next_tx_seq = Plus(c.last_rx_ack, Len(waiting))
          /\ Minus(expected, c.last_rx_ack) <= Len(waiting)

\* Both ends have asked for a lost frame.
BothReject == \A e \in Ends : ccb[e].rej_sent \/ ccb[e].srej_sent

AtRest == ~UnderWay /\ \A e \in Ends : ~ccb[e].mon_retrans_timer /\ ~ccb[e].ack_timer

\* When nothing is under way and no timer runs, all that was written has been read and
\* acknowledged, or the channel is closed.  The exception: l2c_fcr_proc_tout neither
\* polls nor starts the timer again while rej_sent or srej_sent, so when the rejects of
\* both ends were lost, both stay silent.
RecoversFromLoss ==
  AtRest => \/ \A e \in Ends : /\ Len(read[e]) = written[Peer(e)]
                               /\ ccb[e].waiting_for_ack_q = <<>>
            \/ \E e \in Ends : ~Open(ccb[e])
            \/ BothReject

Promise == INSTANCE SduChannel
  WITH Sdu <- UNION {Range(Sdus[e]) : e \in Ends},
       written <- [e \in Ends |-> SubSeq(Sdus[e], 1, written[e])],
       open <- [e \in Ends |-> Open(ccb[e])]

\* The upper layers see what SduChannel promises: each SDU whole, once and in order,
\* and nothing once the channel is closed at their end.
Implements == Promise!Spec
=============================================================================
