--------------------------- MODULE MCPacketReader ---------------------------
(* Bodies and tails that look like parts of a packet, and sizes at the      *)
(* edges of what passes for one.                                            *)
EXTENDS PacketReader

BodiesLikeTails == {<< >>, <<"FE", "FF">>, <<"FF">>}
GoodAndBadTail == {TAIL, <<"FF", "FE">>}

\* Less than a header, less than a header and a tail, more than m_msg_buf holds,
\* the most that passes the check, more, and what is negative as an int.
SizesAtEdges ==
  {0, XPACKET_HEADER_SIZE + 1, RECV_BUF_LEN + 1,
   RECV_BUF_LEN + XPACKET_HEADER_SIZE, RECV_BUF_LEN + XPACKET_HEADER_SIZE + 1,
   WORD - 1}
=============================================================================
