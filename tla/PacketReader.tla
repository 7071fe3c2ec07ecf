---------------------------- MODULE PacketReader ----------------------------
(***************************************************************************)
(* How agent_client's receiving thread finds the packets in the bytes of a *)
(* connection: it searches for the prefix one byte at a time, reads the    *)
(* rest of the header in one piece and then as many bytes as the header    *)
(* announces.  ClientSession takes the result as one action, ReadPacket.   *)
(*                                                                         *)
(* The rest of a header is one element of the stream, the size that it     *)
(* announces; sizes count elements.  What is also defined in ClientSession *)
(* has another name here, so that a module can extend both.                *)
(***************************************************************************)
EXTENDS Integers, Sequences, SequencesExt

CONSTANTS
  RECV_BUF_LEN,
  WORD,            \* number of values of h_packet_size, and of an int
  Byte,            \* the values of a byte
  Noise,           \* bytes that the peer may send between packets
  Bodies,          \* bodies of its packets
  Tails,           \* what it sends as their tails
  Misfits,         \* sizes that its other headers announce
  MaxNoise, MaxPackets   \* bounds

PREFIX == <<"R", "X", "M", "G">>
PREFIX_SIZE == Len(PREFIX)
XPACKET_HEADER_SIZE == PREFIX_SIZE + 1
TAIL == <<"FE", "FF">>
XPACKET_TAIL_SIZE == Len(TAIL)

PacketSize(body) == XPACKET_HEADER_SIZE + Len(body) + XPACKET_TAIL_SIZE

\* A packet fits if it has room for its header and its tail, and m_msg_buf, in
\* which it is put together, has room for it.
Misfit(size) == size \notin XPACKET_HEADER_SIZE + XPACKET_TAIL_SIZE .. RECV_BUF_LEN

ASSUME PacketReaderAssumption ==
  /\ WORD \in Nat /\ RECV_BUF_LEN \in Nat /\ 2 * RECV_BUF_LEN < WORD
  /\ MaxNoise \in Nat /\ MaxPackets \in Nat
  /\ Noise \subseteq Byte
  /\ \A body \in Bodies : body \in Seq(Byte) /\ PacketSize(body) <= RECV_BUF_LEN
  /\ \A tail \in Tails : tail \in Seq(Byte) /\ Len(tail) = XPACKET_TAIL_SIZE
  /\ \A size \in Misfits : size \in 0 .. WORD - 1 /\ Misfit(size)

VARIABLES
  peer_connected, wire,   \* the connection, and what it holds
  gap, noises,        \* the last noise sent, and how much in all
  packets, good,      \* packets sent, and the bodies of the good ones
  misfit,             \* a header has been sent that announces a misfit
  m_recv_step, m_prefix_buf, m_msg_buf,
  received,           \* bodies given to PushRecvPacket
  undefined,          \* a misfit has been read into m_msg_buf
  dead                \* Proc has returned DEATH_CODE

peer == <<wire, gap, noises, packets, good, misfit>>
reader == <<m_recv_step, m_prefix_buf, m_msg_buf, received, undefined>>
reader_vars == <<peer_connected, peer, reader, dead>>

ReaderInit ==
  /\ peer_connected = TRUE /\ wire = << >> /\ gap = << >> /\ noises = 0
  /\ packets = 0 /\ good = << >> /\ misfit = FALSE
  /\ m_recv_step = 0 /\ m_prefix_buf = << >> /\ m_msg_buf = << >>
  /\ received = << >> /\ undefined = FALSE /\ dead = FALSE

-----------------------------------------------------------------------------
(* The peer.                                                               *)

\* The last n elements of s, or s.
Newest(s, n) == IF Len(s) <= n THEN s ELSE SubSeq(s, Len(s) - n + 1, Len(s))

\* Between packets there may be anything but the prefix of one.
SendNoise(b) ==
  /\ peer_connected /\ noises < MaxNoise
  /\ gap' = Newest(Append(gap, b), PREFIX_SIZE)
  /\ gap' # PREFIX
  /\ wire' = Append(wire, b)
  /\ noises' = noises + 1
  /\ UNCHANGED <<peer_connected, packets, good, misfit, reader, dead>>

Send(elements) ==
  /\ peer_connected /\ packets < MaxPackets
  /\ packets' = packets + 1
  /\ wire' = wire \o elements
  /\ gap' = << >>
  /\ UNCHANGED <<peer_connected, noises, reader, dead>>

SendPacket(body, tail) ==
  /\ Send(PREFIX \o <<PacketSize(body)>> \o body \o tail)
  /\ good' = IF tail = TAIL /\ ~misfit THEN Append(good, body) ELSE good
  /\ UNCHANGED misfit

\* A header alone, which announces a size that no packet has.
SendMisfit(size) ==
  /\ Send(PREFIX \o <<size>>)
  /\ misfit' = TRUE
  /\ UNCHANGED good

HangUp ==
  /\ peer_connected
  /\ peer_connected' = FALSE
  /\ UNCHANGED <<peer, reader, dead>>

-----------------------------------------------------------------------------
(* The reader.  A read waits until all it asks for is there.               *)

Read(n) ==
  /\ ~dead /\ ~undefined /\ Len(wire) >= n
  /\ wire' = SubSeq(wire, n + 1, Len(wire))
  /\ UNCHANGED <<peer_connected, gap, noises, packets, good, misfit, dead>>

Searching(window) ==
  /\ m_recv_step = 0
  /\ Read(1)
  /\ IF window = PREFIX
     THEN /\ m_recv_step' = 1
          /\ m_msg_buf' = PREFIX /\ m_prefix_buf' = << >>
     ELSE /\ m_prefix_buf' = window
          /\ UNCHANGED <<m_recv_step, m_msg_buf>>
  /\ UNCHANGED <<received, undefined>>

\* Mutant: the oldest byte stays in the window.
FindPrefixNeverDrops == wire # << >> /\ Searching(Append(m_prefix_buf, Head(wire)))

FindPrefix ==
  wire # << >> /\ Searching(Newest(Append(m_prefix_buf, Head(wire)), PREFIX_SIZE))

ReadHeader ==
  /\ m_recv_step = 1
  /\ Read(XPACKET_HEADER_SIZE - Len(m_msg_buf))
  /\ m_msg_buf' = m_msg_buf \o SubSeq(wire, 1, XPACKET_HEADER_SIZE - Len(m_msg_buf))
  /\ m_recv_step' = 2
  /\ UNCHANGED <<m_prefix_buf, received, undefined>>

h_packet_size == m_msg_buf[XPACKET_HEADER_SIZE]

\* The difference as an int: what is too large for one is negative.
remain_packet_size ==
  LET rest == h_packet_size - Len(m_msg_buf)
  IN IF 2 * rest < WORD THEN rest ELSE rest - WORD

BodyOf(msg) == SubSeq(msg, XPACKET_HEADER_SIZE + 1, Len(msg) - XPACKET_TAIL_SIZE)

\* Mutant: the tail is looked for right after the header.
GoodTailFirst(msg) == IsPrefix(TAIL, SubSeq(msg, XPACKET_HEADER_SIZE + 1, Len(msg)))

GoodTail(msg) == IsSuffix(TAIL, msg)

\* All that the reader checks of a size.
TooLong == remain_packet_size > RECV_BUF_LEN

ReadBody ==
  /\ m_recv_step = 2 /\ ~Misfit(h_packet_size)
  /\ Read(remain_packet_size)
  /\ LET msg == m_msg_buf \o SubSeq(wire, 1, remain_packet_size)
     IN received' = IF GoodTail(msg) THEN Append(received, BodyOf(msg)) ELSE received
  /\ m_recv_step' = 0 /\ m_msg_buf' = << >>
  /\ UNCHANGED <<m_prefix_buf, undefined>>

\* A misfit that passes the check.  For a negative rest as much is read as
\* m_recv_buf holds; this, or what is more than m_msg_buf holds, is copied
\* beyond its end.  In what is less than a header and a tail, bytes of the
\* header are taken for the tail.  The model says nothing of what comes then.
ReadMisfit ==
  /\ m_recv_step = 2 /\ ~TooLong /\ Misfit(h_packet_size)
  /\ Read(IF remain_packet_size < 0 THEN RECV_BUF_LEN ELSE remain_packet_size)
  /\ undefined' = TRUE
  /\ UNCHANGED <<m_recv_step, m_prefix_buf, m_msg_buf, received>>

\* A read fails when the connection is lost, a size when it is too large.
ReadFails ==
  /\ ~dead
  /\ ~peer_connected \/ (m_recv_step = 2 /\ TooLong)
  /\ dead' = TRUE
  /\ UNCHANGED <<peer_connected, peer, reader>>

Proc == FindPrefix \/ ReadHeader \/ ReadBody \/ ReadMisfit \/ ReadFails

-----------------------------------------------------------------------------

ReaderNext ==
  \/ \E b \in Noise : SendNoise(b)
  \/ \E body \in Bodies, tail \in Tails : SendPacket(body, tail)
  \/ \E size \in Misfits : SendMisfit(size)
  \/ HangUp
  \/ Proc

ReaderSpec == ReaderInit /\ [][ReaderNext]_reader_vars
ReaderFairSpec == ReaderSpec /\ WF_reader_vars(Proc)

-----------------------------------------------------------------------------

\* What is received are the good packets, whole and in order, whatever noise
\* and however many bad packets come between them, as long as the reader has
\* not copied a misfit.
ReceivedInOrder == ~undefined => IsPrefix(received, good)

\* Every good packet that comes before a misfit is received, unless the
\* connection is lost.
GoodPacketsArrive ==
  \A n \in 1 .. MaxPackets : Len(good) >= n ~> Len(received) >= n \/ ~peer_connected

=============================================================================
