----------------------------- MODULE SduChannel -----------------------------
(***************************************************************************)
(* What an L2CAP channel in enhanced retransmission mode promises to the   *)
(* upper layers at its two ends: the SDUs that one end writes arrive at    *)
(* the other whole, once and in order, until an end closes the channel.    *)
(***************************************************************************)
EXTENDS Naturals, Sequences

CONSTANTS Ends, Sdu

VARIABLES written,   \* the SDUs that the upper layer at an end has written
          read,      \* the SDUs that the upper layer at an end was given
          open

Peer(e) == CHOOSE x \in Ends : x # e

Init ==
  /\ written = [e \in Ends |-> <<>>]
  /\ read = [e \in Ends |-> <<>>]
  /\ open = [e \in Ends |-> TRUE]

Write(e, sdu) ==
  /\ open[e]
  /\ written' = [written EXCEPT ![e] = Append(@, sdu)]
  /\ UNCHANGED <<read, open>>

\* The upper layer at e is given the next n SDUs, and the channel may close then.
Read(e, n, closes) ==
  LET next == Len(read[e]) + 1
  IN  /\ open[e]
      /\ Len(read[e]) + n <= Len(written[Peer(e)])
      /\ read' = [read EXCEPT ![e] = @ \o SubSeq(written[Peer(e)], next, next + n - 1)]
      /\ open' = [open EXCEPT ![e] = ~closes]
      /\ UNCHANGED written

Next ==
  \E e \in Ends :
    \/ \E n \in 0..Len(written[Peer(e)]), closes \in BOOLEAN : Read(e, n, closes)
    \/ \E sdu \in Sdu : Write(e, sdu)

Spec == Init /\ [][Next]_<<written, read, open>>
=============================================================================
