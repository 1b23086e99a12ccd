------------------------------ MODULE L2capErtm ------------------------------
(***************************************************************************)
(* One end of an L2CAP channel in enhanced retransmission mode             *)
(* (system/stack/l2cap/l2c_fcr.cc), with the part of l2c_link.cc that      *)
(* hands its frames to the controller.                                     *)
(*                                                                         *)
(* Functions call each other and then return, so each one is an operator   *)
(* on the state c of the end (tL2C_CCB, its tL2C_FCRB, and of tL2C_LCB     *)
(* what the channel uses); c.sent are the frames that the controller is    *)
(* given, c.data the SDUs that the upper layer is given.  An SDU is the    *)
(* sequence of the pieces that fit into one frame.  A timer is TRUE while  *)
(* it is scheduled; how long it runs is left out.                          *)
(***************************************************************************)
EXTENDS Naturals, Sequences, SequencesExt

CONSTANTS Modulo,          \* L2CAP_FCR_SEQ_MODULO + 1
          TxWindows,       \* the windows that ends agree on; 10 in kDefaultErtmOptions
          max_transmit,
          link_xmit_quota

ASSUME ErtmAssumption ==
  /\ Modulo \in Nat
  /\ \A win \in TxWindows : win \in Nat \ {0} /\ 2 * win <= Modulo
  /\ max_transmit \in Nat
  /\ link_xmit_quota \in Nat \ {0}

max_held_acks(c) == c.tx_win_sz \div 3

Plus(seq, n) == (seq + n) % Modulo
Minus(seq, from) == (seq + Modulo - from) % Modulo

\* closed tells why the end left CST_OPEN; tx_win_sz is that of our_cfg and of peer_cfg.
InitEnd(win) ==
  [tx_win_sz |-> win, closed |-> "no", next_tx_seq |-> 0, last_rx_ack |-> 0,
   next_seq_expected |-> 0, last_ack_sent |-> 0, num_tries |-> 0, remote_busy |-> FALSE, rej_sent |-> FALSE,
   srej_sent |-> FALSE, wait_ack |-> FALSE, rej_after_srej |-> FALSE,
   send_f_rsp |-> FALSE, rx_sdu_len |-> 0, p_rx_sdu |-> <<>>,
   waiting_for_ack_q |-> <<>>, srej_rcv_hold_q |-> <<>>, retrans_q |-> <<>>,
   ack_timer |-> FALSE, mon_retrans_timer |-> FALSE, xmit_hold_q |-> <<>>,
   link_xmit_data_q |-> <<>>, sent_not_acked |-> 0, sent |-> <<>>, data |-> <<>>]

Open(c) == c.closed = "no"

\* The control word of an I-frame, and its piece of an SDU.
IFrame(sar, tx_seq, piece, sdu_len) ==
  [type |-> "I", sar |-> sar, tx_seq |-> tx_seq, piece |-> piece, sdu_len |-> sdu_len,
   req_seq |-> 0, p |-> FALSE, f |-> FALSE]

SFrame(type, req_seq, p, f) ==
  [type |-> type, req_seq |-> req_seq, p |-> p, f |-> f]
-----------------------------------------------------------------------------
(***************************************************************************)
(* Sending.                                                                *)
(***************************************************************************)

l2c_fcr_start_timer(c) == [c EXCEPT !.mon_retrans_timer = TRUE]
l2c_fcr_stop_timer(c) == [c EXCEPT !.mon_retrans_timer = FALSE]

l2c_fcr_is_flow_controlledLate(c) ==
  c.remote_busy \/ Len(c.waiting_for_ack_q) > c.tx_win_sz

l2c_fcr_is_flow_controlled(c) ==
  c.remote_busy \/ Len(c.waiting_for_ack_q) >= c.tx_win_sz

l2c_link_send_to_lower(c, frame) ==
  [c EXCEPT !.sent = Append(@, frame), !.sent_not_acked = @ + 1]

\* Every I-frame acknowledges what has been received.
prepare_I_frame(c, frame) == [frame EXCEPT !.req_seq = c.next_seq_expected,
                                           !.f = c.send_f_rsp]
after_I_frame(c) ==
  l2c_fcr_start_timer([c EXCEPT !.send_f_rsp = FALSE, !.ack_timer = FALSE,
                                !.last_ack_sent = c.next_seq_expected])

\* The rest of an SDU of which not all is sent stays in xmit_hold_q.
NextSegment(c) ==
  LET b == Head(c.xmit_hold_q)
      more == Len(b.pieces) > 1
      sar == CASE more /\ ~b.event -> "START"
               [] more /\ b.event -> "CONT"
               [] ~more /\ b.event -> "END"
               [] ~more /\ ~b.event -> "UNSEG"
  IN  [frame |-> IFrame(sar, c.next_tx_seq, Head(b.pieces), Len(b.pieces)),
       rest |-> (IF more THEN <<[pieces |-> Tail(b.pieces), event |-> TRUE]>> ELSE <<>>)
                \o Tail(c.xmit_hold_q)]

\* A frame that is sent again takes a new sequence number from next_tx_seq.
l2c_fcr_get_next_xmit_sdu_segAnew(c) ==
  LET again == prepare_I_frame(c, Head(c.retrans_q))
      seg == NextSegment(c)
      new == prepare_I_frame(c, seg.frame)
  IN  IF c.retrans_q # <<>>
      THEN l2c_link_send_to_lower(
             after_I_frame([c EXCEPT !.retrans_q = Tail(@), !.next_tx_seq = Plus(@, 1)]), again)
      ELSE l2c_link_send_to_lower(
             after_I_frame([c EXCEPT !.xmit_hold_q = seg.rest,
                                     !.next_tx_seq = Plus(@, 1),
                                     !.waiting_for_ack_q = Append(@, new)]), new)

\* The next frame of the channel: from the retransmission queue, or a new one.
l2c_fcr_get_next_xmit_sdu_seg(c) ==
  LET again == prepare_I_frame(c, Head(c.retrans_q))
      seg == NextSegment(c)
      new == prepare_I_frame(c, seg.frame)
  IN  IF c.retrans_q # <<>>
      THEN l2c_link_send_to_lower(
             after_I_frame([c EXCEPT !.retrans_q = Tail(@)]), again)
      ELSE l2c_link_send_to_lower(
             after_I_frame([c EXCEPT !.xmit_hold_q = seg.rest,
                                     !.next_tx_seq = Plus(@, 1),
                                     !.waiting_for_ack_q = Append(@, new)]), new)

\* The channel has a frame that it may send.
HasNextBuffer(c) ==
  /\ Open(c)
  /\ ~c.wait_ack
  /\ ~c.remote_busy
  /\ \/ c.retrans_q # <<>>
     \/ c.xmit_hold_q # <<>> /\ ~l2c_fcr_is_flow_controlled(c)

\* The queue of the link goes first, then the channel, as long as there is quota.
SendOne(c) ==
  CASE c.sent_not_acked >= link_xmit_quota -> c
    [] c.sent_not_acked < link_xmit_quota /\ c.link_xmit_data_q # <<>> ->
         l2c_link_send_to_lower([c EXCEPT !.link_xmit_data_q = Tail(@)],
                                Head(c.link_xmit_data_q))
    [] OTHER -> IF HasNextBuffer(c) THEN l2c_fcr_get_next_xmit_sdu_seg(c) ELSE c

l2c_link_check_send_pkts(c) ==
  LET send[n \in 0..link_xmit_quota] == IF n = 0 THEN c ELSE SendOne(send[n - 1])
  IN  send[link_xmit_quota]

\* frame is queued on the link.
SendOnLink(c, frame) ==
  l2c_link_check_send_pkts([c EXCEPT !.link_xmit_data_q = Append(@, frame)])

\* pf is "P", "F" or "none".
l2c_fcr_send_S_frame(c, type, pf) ==
  LET t == IF pf # "P" THEN c
           ELSE l2c_fcr_start_timer(l2c_fcr_stop_timer([c EXCEPT !.wait_ack = TRUE]))
      u == SendOnLink(t, SFrame(type, c.next_seq_expected, pf = "P", pf = "F"))
  IN  IF ~Open(c) THEN c
      ELSE [u EXCEPT !.last_ack_sent = c.next_seq_expected, !.ack_timer = FALSE]

\* The control block is released, which stops the timers and empties the queues.
Released(c, why) ==
  [InitEnd(c.tx_win_sz) EXCEPT
     !.closed = why, !.link_xmit_data_q = c.link_xmit_data_q,
     !.sent_not_acked = c.sent_not_acked, !.sent = c.sent, !.data = c.data]

l2cu_disconnect_chnl(c, why) ==
  Released(SendOnLink(c, SFrame("DISC_REQ", 0, FALSE, FALSE)), why)

\* The peer has closed the channel.
l2cu_send_peer_disc_rsp(c) ==
  Released(SendOnLink([c EXCEPT !.closed = "peer"], SFrame("DISC_RSP", 0, FALSE, FALSE)),
           IF Open(c) THEN "peer" ELSE c.closed)

l2c_enqueue_peer_data(c, sdu) ==
  [c EXCEPT !.xmit_hold_q = Append(@, [pieces |-> sdu, event |-> FALSE])]
-----------------------------------------------------------------------------
(***************************************************************************)
(* Retransmitting: the one frame that waits for an acknowledgement with    *)
(* tx_seq, or all of them.                                                 *)
(***************************************************************************)

ALL_PKTS == Modulo

CountTry(c) ==
  IF c.waiting_for_ack_q = <<>> THEN c
  ELSE l2c_fcr_start_timer([c EXCEPT !.num_tries = @ + 1])

retransmit_i_frames(c, tx_seq) ==
  LET waiting == c.waiting_for_ack_q
      again == IF tx_seq = ALL_PKTS THEN waiting
               ELSE SelectSeq(waiting, LAMBDA frame : frame.tx_seq = tx_seq)
  IN  CASE waiting # <<>> /\ max_transmit # 0 /\ c.num_tries >= max_transmit ->
             l2cu_disconnect_chnl(c, "max_transmit")
        [] waiting = <<>> /\ tx_seq # ALL_PKTS -> c
        [] OTHER -> CountTry(l2c_link_check_send_pkts(
                      [c EXCEPT !.retrans_q =
                         (IF tx_seq = ALL_PKTS THEN <<>> ELSE @) \o again]))
-----------------------------------------------------------------------------
(***************************************************************************)
(* Receiving.                                                              *)
(***************************************************************************)

RestartTimerNot(c) == c

RestartTimer(c) ==
  IF c.waiting_for_ack_q = <<>> THEN c ELSE l2c_fcr_start_timer(c)

\* last_rx_ack stays behind.
process_reqseqStale(c, frame) ==
  LET num_bufs_acked == Minus(frame.req_seq, c.last_rx_ack)
      u == [c EXCEPT !.num_tries = 0,
                     !.waiting_for_ack_q =
                       SubSeq(@, num_bufs_acked + 1, Len(@)),
                     !.mon_retrans_timer = @ /\ c.wait_ack]
  IN  CASE frame.type = "SREJ" /\ ~frame.p -> RestartTimer(c)
        [] frame.type # "SREJ" \/ frame.p ->
             IF num_bufs_acked > Len(c.waiting_for_ack_q)
             THEN l2cu_disconnect_chnl(c, "BAD Req_Seq")
             ELSE RestartTimer(IF num_bufs_acked = 0 THEN c ELSE u)

\* What frame.req_seq acknowledges is released.
process_reqseq(c, frame) ==
  LET num_bufs_acked == Minus(frame.req_seq, c.last_rx_ack)
      t == [c EXCEPT !.last_rx_ack = frame.req_seq]
      u == [t EXCEPT !.num_tries = 0,
                     !.waiting_for_ack_q =
                       SubSeq(@, num_bufs_acked + 1, Len(@)),
                     !.mon_retrans_timer = @ /\ c.wait_ack]
  IN  CASE frame.type = "SREJ" /\ ~frame.p -> RestartTimer(c)
        [] frame.type # "SREJ" \/ frame.p ->
             IF num_bufs_acked > Len(c.waiting_for_ack_q)
             THEN l2cu_disconnect_chnl(c, "BAD Req_Seq")
             ELSE RestartTimer(IF num_bufs_acked = 0 THEN t ELSE u)

\* A frame with the F bit ends a poll.
AnswerPoll(c) == l2c_fcr_send_S_frame(c, IF c.srej_sent THEN "SREJ" ELSE "RR", "F")

SendFinal(c) ==
  IF Open(c) /\ c.send_f_rsp THEN [AnswerPoll(c) EXCEPT !.send_f_rsp = FALSE] ELSE c

process_s_frame(c, frame) ==
  LET polled == IF frame.p THEN [c EXCEPT !.rej_sent = FALSE, !.send_f_rsp = TRUE] ELSE c
      ready == [polled EXCEPT !.remote_busy = FALSE]
  IN  SendFinal(
        CASE frame.type = "RR" ->
               IF frame.f \/ c.remote_busy
               THEN retransmit_i_frames(ready, ALL_PKTS) ELSE ready
          [] frame.type = "REJ" -> retransmit_i_frames(ready, ALL_PKTS)
          [] frame.type = "RNR" ->
               l2c_fcr_stop_timer([polled EXCEPT !.remote_busy = TRUE])
          [] frame.type = "SREJ" -> retransmit_i_frames(ready, frame.req_seq))

\* The SDU is given to the upper layer once it is complete.
do_sar_reassembly(c, frame) ==
  LET first == frame.sar \in {"UNSEG", "START"}
      len == IF frame.sar = "START" THEN frame.sdu_len ELSE c.rx_sdu_len
      sdu == Append(c.p_rx_sdu, frame.piece)
      ok == /\ first <=> c.p_rx_sdu = <<>>
            /\ frame.sar # "UNSEG" => Len(sdu) <= len
            /\ frame.sar = "END" => Len(sdu) = len
  IN  CASE ~ok -> l2cu_disconnect_chnl(c, "reassembly")
        [] ok /\ frame.sar \in {"UNSEG", "END"} ->
             [c EXCEPT !.data = Append(@, sdu), !.p_rx_sdu = <<>>]
        [] OTHER -> [c EXCEPT !.p_rx_sdu = sdu, !.rx_sdu_len = len]

\* The acknowledgement waits for the ack timer or for an I-frame of ours, or is sent.
Acknowledge(c, delay_ack) ==
  LET num_to_ack == Minus(c.next_seq_expected, c.last_ack_sent)
  IN  CASE ~Open(c) \/ num_to_ack = 0 -> c
        [] Open(c) /\ num_to_ack # 0 /\ (delay_ack \/ num_to_ack < max_held_acks(c)) ->
             [c EXCEPT !.ack_timer = TRUE]
        [] OTHER -> IF /\ c.xmit_hold_q = <<>> \/ l2c_fcr_is_flow_controlled(c)
                       /\ c.srej_rcv_hold_q = <<>>
                    THEN l2c_fcr_send_S_frame(c, "RR", "none") ELSE c

\* The frame after the lost one is dropped instead of held.
OutOfSequenceDropped(c, frame) ==
  LET num_lost == Minus(frame.tx_seq, c.next_seq_expected)
  IN  CASE num_lost >= c.tx_win_sz \/ c.srej_sent \/ c.rej_sent -> c
        [] OTHER ->
             IF num_lost > 1
             THEN l2c_fcr_send_S_frame([c EXCEPT !.rej_sent = TRUE], "REJ", "none")
             ELSE l2c_fcr_send_S_frame([c EXCEPT !.srej_sent = TRUE], "SREJ", "none")

\* A frame that is not the expected one.  One lost frame is asked for with SREJ,
\* and the frames after it are held; more than one with REJ.
OutOfSequence(c, frame) ==
  LET num_lost == Minus(frame.tx_seq, c.next_seq_expected)
      hold == [c EXCEPT !.srej_rcv_hold_q = Append(@, frame)]
  IN  CASE num_lost >= c.tx_win_sz -> c
        [] num_lost < c.tx_win_sz /\ c.srej_sent ->
             IF /\ frame.tx_seq = Plus(Last(c.srej_rcv_hold_q).tx_seq, 1)
                /\ Len(c.srej_rcv_hold_q) < c.tx_win_sz
             THEN hold ELSE [c EXCEPT !.rej_after_srej = TRUE]
        [] num_lost < c.tx_win_sz /\ ~c.srej_sent /\ c.rej_sent -> c
        [] OTHER ->
             IF num_lost > 1
             THEN l2c_fcr_send_S_frame([c EXCEPT !.rej_sent = TRUE], "REJ", "none")
             ELSE l2c_fcr_send_S_frame([hold EXCEPT !.srej_sent = TRUE], "SREJ", "none")

InSequence(c, frame, delay_ack) ==
  Acknowledge(
    do_sar_reassembly([c EXCEPT !.rej_sent = FALSE, !.srej_sent = FALSE,
                                !.next_seq_expected = Plus(frame.tx_seq, 1)], frame),
    delay_ack)

\* Any frame is taken for the expected one.
TakeIFrameAny(c, frame, delay_ack) ==
  IF Open(c) THEN InSequence(c, frame, delay_ack) ELSE c

TakeIFrame(c, frame, delay_ack) ==
  CASE ~Open(c) -> c
    [] Open(c) /\ frame.tx_seq # c.next_seq_expected -> OutOfSequence(c, frame)
    [] OTHER -> InSequence(c, frame, delay_ack)

\* f is the F bit, which is masked unless we had polled.
process_i_frame(c, frame, f, delay_ack) ==
  TakeIFrame(IF f THEN retransmit_i_frames(c, ALL_PKTS) ELSE c, frame, delay_ack)

\* The frames that were held for the one asked for with SREJ.
RejectAfterSrej(c) ==
  IF ~c.rej_after_srej THEN c
  ELSE l2c_fcr_send_S_frame([c EXCEPT !.rej_after_srej = FALSE, !.rej_sent = TRUE],
                            "REJ", "none")

AcknowledgeHeld(c) ==
  IF ~c.rej_sent /\ ~c.srej_sent /\ c.next_seq_expected # c.last_ack_sent
  THEN l2c_fcr_send_S_frame(c, "RR", "none") ELSE c

ProcessHeld(c) ==
  LET one(t, frame) ==
        RejectAfterSrej(IF Open(t) THEN process_i_frame(t, frame, frame.f, TRUE) ELSE t)
  IN  AcknowledgeHeld(
        FoldLeft(one, [c EXCEPT !.srej_rcv_hold_q = <<>>], c.srej_rcv_hold_q))

\* The end of l2c_fcr_proc_pdu: held frames, and what may be sent now.
SendMore(c) ==
  IF /\ c.retrans_q # <<>> \/ c.xmit_hold_q # <<>>
     /\ ~c.wait_ack
     /\ ~l2c_fcr_is_flow_controlled(c)
  THEN l2c_link_check_send_pkts(c) ELSE c

FinishPdu(c) ==
  IF ~Open(c) THEN c
  ELSE SendMore(IF ~c.srej_sent /\ c.srej_rcv_hold_q # <<>> THEN ProcessHeld(c) ELSE c)

\* What follows process_reqseq; masked is the frame with the bits that count.
ProcessFrame(c, frame, masked) ==
  IF ~Open(c) THEN c
  ELSE FinishPdu(IF frame.type = "I" THEN process_i_frame(c, frame, masked.f, FALSE)
                 ELSE process_s_frame(c, masked))

\* A frame of the peer, with the right frame check sequence.
l2c_fcr_proc_pdu(c, frame) ==
  LET f == c.wait_ack /\ frame.f
      final == l2c_fcr_stop_timer([c EXCEPT !.wait_ack = FALSE,
                                            !.num_tries = IF c.waiting_for_ack_q = <<>>
                                                          THEN 0 ELSE @])
      masked == [frame EXCEPT !.f = f, !.p = @ /\ ~f]
  IN  CASE c.wait_ack /\ ~frame.f ->
             IF frame.p THEN l2c_fcr_start_timer(AnswerPoll(c)) ELSE c
        [] OTHER ->
             ProcessFrame(process_reqseq(IF f THEN final ELSE c, masked), frame, masked)
-----------------------------------------------------------------------------
(***************************************************************************)
(* Timers.                                                                 *)
(***************************************************************************)

l2c_fcr_proc_tout(c) ==
  LET t == [c EXCEPT !.mon_retrans_timer = FALSE,
                     !.num_tries = IF max_transmit = 0 THEN @ ELSE @ + 1]
  IN  CASE max_transmit # 0 /\ t.num_tries > max_transmit ->
             l2cu_disconnect_chnl(t, "max_transmit")
        [] max_transmit = 0 \/ t.num_tries <= max_transmit ->
             IF t.srej_sent \/ t.rej_sent THEN t ELSE l2c_fcr_send_S_frame(t, "RR", "P")

l2c_fcr_proc_ack_tout(c) ==
  LET t == [c EXCEPT !.ack_timer = FALSE]
  IN  IF ~c.wait_ack /\ c.last_ack_sent # c.next_seq_expected
      THEN l2c_fcr_send_S_frame(t, "RR", "none") ELSE t
=============================================================================
