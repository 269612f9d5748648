----------------------------- MODULE MCFlowEntry -----------------------------
(* One flow entry: the segments of its two hosts.                            *)
EXTENDS FlowEntry, TLC

CONSTANTS l1, l2

\* Numbers are modulo 16 with a window of 1.  The number after the client's
\* SYN is 15, whose window wraps; the server's is 2.
Seg(from, flags, seq, ack) ==
  [from |-> from, flags |-> flags, seq |-> seq, len |-> 0, ack |-> ack]

Syn == Seg(Outside, {"SYN"}, 14, 0)
SynAckSeg == Seg(Inside, {"SYN", "ACK"}, 1, 15)
Ack(n) == Seg(Outside, {"ACK"}, 15, n)
ServerAck == Seg(Inside, {"ACK"}, 2, 15)
Rst(n) == Seg(Outside, {"RST"}, n, 0)

\* The handshake, an acknowledgement of nothing sent, a segment of the server's
\* own, and a reset far from the client's number.
HandshakeSegments == {Syn, SynAckSeg, Ack(2), Ack(0), ServerAck, Rst(8)}

\* One connection's packets from outside are on one lcore; what is not of that
\* connection, and what the SYN proxy forwards, is on another.
Spread ==
  (l1 :> ({Syn, Ack(2), ServerAck} \X {"pipeline"}) \cup {<<Ack(2), "proof">>})
  @@ (l2 :> ({Ack(0), Rst(8)} \X {"pipeline"}) \cup {<<SynAckSeg, "update">>, <<Ack(0), "update">>})
=============================================================================
