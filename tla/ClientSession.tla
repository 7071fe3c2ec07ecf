--------------------------- MODULE ClientSession ---------------------------
(***************************************************************************)
(* One connected client: its three threads (Proc receives, ComPacketProc   *)
(* carries out, SendProc sends), the two packet queues between them, the   *)
(* socket that Proc deletes when the connection fails, and the broker's    *)
(* stream thread that pushes every frame, cut into slices, to the client.  *)
(*                                                                         *)
(* The queues are the windows of NewestWindow, which PacketQueue           *)
(* implements.  Packets from the peer, and slices of the stream, are       *)
(* numbered; slice s belongs to frame (s - 1) \div Slices.                 *)
(***************************************************************************)
EXTENDS Naturals, Sequences

CONSTANTS
  MAX_SENDQ_SIZE, MAX_RECVQ_SIZE,
  Slices,          \* slices per frame
  MaxFrames,       \* bound: frames streamed
  MaxCommands      \* bound: packets the peer sends

ASSUME ClientSessionAssumption ==
  /\ MAX_SENDQ_SIZE \in Nat /\ MAX_RECVQ_SIZE \in Nat
  /\ Slices \in Nat \ {0}
  /\ MaxFrames \in Nat /\ MaxCommands \in Nat

VARIABLES
  connected,       \* the peer is there
  m_socket,        \* "open", or "null" after SAFE_DELETE
  m_socket_lock,   \* "free", "sender" or "receiver"
  m_stop_flag,     \* of the client's xthread
  m_arg,           \* "unset" until Start
  adder,           \* AddClient: where the accept thread is
  rpc,             \* Proc
  spc, serror,     \* SendProc and its _error
  cpc,             \* ComPacketProc
  bpc, slice,      \* StreamHLDSClients, and the slice it pushes next
  m_recv_q, command,  \* what ComPacketProc found in the queue last
  m_send_q, packet,   \* what SendProc found in the queue last
  sent,            \* number of packets that the peer has sent
  done,            \* commands carried out, in order
  written,         \* slices written to the socket, in order
  overflows        \* history: packets that were dropped from m_send_q

life == <<m_socket, m_socket_lock, m_stop_flag, m_arg>>
receiving == <<m_recv_q, command, sent, done>>
sending == <<m_send_q, packet, written, overflows>>
pcs == <<adder, rpc, spc, serror, cpc, bpc, slice>>
vars == <<connected, life, receiving, sending, pcs>>

nullptr == 0

RecvQ == INSTANCE NewestWindow
           WITH Packets <- 1 .. MaxCommands, NoPacket <- nullptr,
                MAX_SIZE <- MAX_RECVQ_SIZE, waiting <- m_recv_q, taken <- command

SendQ == INSTANCE NewestWindow
           WITH Packets <- 1 .. Slices * MaxFrames, NoPacket <- nullptr,
                MAX_SIZE <- MAX_SENDQ_SIZE, waiting <- m_send_q, taken <- packet

\* The constructor has started SendProc and ComPacketProc; AddClient has put
\* the client into m_clients.
Init ==
  /\ connected = TRUE
  /\ m_socket = "open" /\ m_socket_lock = "free"
  /\ m_stop_flag = FALSE /\ m_arg = "unset"
  /\ adder = "arg"
  /\ rpc = "none"
  /\ spc = "pop" /\ serror = FALSE
  /\ cpc = "pop"
  /\ bpc = "frame" /\ slice = 1
  /\ RecvQ!Init /\ SendQ!Init
  /\ sent = 0 /\ done = << >> /\ written = << >>
  /\ overflows = 0

-----------------------------------------------------------------------------
(* The accept thread: Start, under the lock of the list of clients.        *)

SetArg ==
  /\ adder = "arg"
  /\ m_arg' = "broker"
  /\ adder' = "thread"
  /\ UNCHANGED <<connected, m_socket, m_socket_lock, m_stop_flag, receiving,
                 sending, rpc, spc, serror, cpc, bpc, slice>>

StartThread ==
  /\ adder = "thread"
  /\ rpc' = "read"
  /\ adder' = "done"
  /\ UNCHANGED <<connected, life, receiving, sending, spc, serror, cpc, bpc, slice>>

-----------------------------------------------------------------------------
(* The peer and the network.                                               *)

Disconnect ==
  /\ connected
  /\ connected' = FALSE
  /\ UNCHANGED <<life, receiving, sending, pcs>>

-----------------------------------------------------------------------------
(* The receiving thread.                                                   *)

\* A whole packet has arrived.
ReadPacket ==
  /\ rpc = "read" /\ connected /\ sent < MaxCommands
  /\ sent' = sent + 1
  /\ RecvQ!Put(sent + 1)
  /\ UNCHANGED <<connected, life, done, sending, pcs>>

\* The read fails, or a header announces more than the buffer holds.
ReadError ==
  /\ rpc = "read"
  /\ ~connected \/ sent < MaxCommands
  /\ rpc' = "lock"
  /\ UNCHANGED <<connected, life, receiving, sending, adder, spc, serror, cpc,
                 bpc, slice>>

\* Mutant: the socket is deleted without the lock.
ReceiverNoLock ==
  /\ rpc = "lock"
  /\ rpc' = "delete"
  /\ UNCHANGED <<connected, life, receiving, sending, adder, spc, serror, cpc,
                 bpc, slice>>

ReceiverLock ==
  /\ rpc = "lock" /\ m_socket_lock = "free"
  /\ m_socket_lock' = "receiver"
  /\ rpc' = "delete"
  /\ UNCHANGED <<connected, m_socket, m_stop_flag, m_arg, receiving, sending,
                 adder, spc, serror, cpc, bpc, slice>>

\* Deleting the socket closes the connection.
DeleteSocket ==
  /\ rpc = "delete"
  /\ m_socket' = "null" /\ connected' = FALSE
  /\ rpc' = "unlock"
  /\ UNCHANGED <<m_socket_lock, m_stop_flag, m_arg, receiving, sending,
                 adder, spc, serror, cpc, bpc, slice>>

ReceiverUnlock ==
  /\ rpc = "unlock"
  /\ m_socket_lock' = "free"
  /\ rpc' = "death"
  /\ UNCHANGED <<connected, m_socket, m_stop_flag, m_arg, receiving, sending,
                 adder, spc, serror, cpc, bpc, slice>>

\* Mutant: DEATH_CODE does not stop the client.
DieUnnoticed ==
  /\ rpc = "death"
  /\ rpc' = "dead"
  /\ UNCHANGED <<connected, life, receiving, sending, adder, spc, serror, cpc,
                 bpc, slice>>

\* Run sees DEATH_CODE.
Die ==
  /\ rpc = "death"
  /\ m_stop_flag' = TRUE
  /\ rpc' = "dead"
  /\ UNCHANGED <<connected, m_socket, m_socket_lock, m_arg, receiving, sending,
                 adder, spc, serror, cpc, bpc, slice>>

Teardown == ReceiverLock \/ DeleteSocket \/ ReceiverUnlock \/ Die

-----------------------------------------------------------------------------
(* The thread that carries out commands.                                   *)

\* Mutant: a client that is stopped carries out no more commands.
PopRecvWhileAlive ==
  /\ cpc = "pop" /\ ~m_stop_flag
  /\ RecvQ!Get
  /\ cpc' = IF m_recv_q = << >> THEN "pop" ELSE "do"
  /\ UNCHANGED <<connected, life, sent, done, sending, adder, rpc, spc, serror,
                 bpc, slice>>

PopRecvPacket ==
  /\ cpc = "pop"
  /\ RecvQ!Get
  /\ cpc' = IF m_recv_q = << >> THEN "pop" ELSE "do"
  /\ UNCHANGED <<connected, life, sent, done, sending, adder, rpc, spc, serror,
                 bpc, slice>>

Do ==
  /\ cpc = "do"
  /\ done' = Append(done, command)
  /\ cpc' = "pop"
  /\ UNCHANGED <<connected, life, m_recv_q, command, sent, sending, adder, rpc,
                 spc, serror, bpc, slice>>

ComPacketProc == PopRecvPacket \/ Do

-----------------------------------------------------------------------------
(* The sending thread.  stream_onoff is never changed.                     *)

STREAM_OFF == 0
STREAM_ON == 1
stream_onoff == STREAM_ON

PopSendPacket ==
  /\ spc = "pop"
  /\ SendQ!Get
  /\ spc' = IF m_send_q = << >> \/ stream_onoff = STREAM_OFF THEN "pop" ELSE "lock"
  /\ UNCHANGED <<connected, life, receiving, written, overflows, adder,
                 rpc, serror, cpc, bpc, slice>>

SenderLock ==
  /\ spc = "lock" /\ m_socket_lock = "free"
  /\ m_socket_lock' = "sender"
  /\ spc' = "test"
  /\ UNCHANGED <<connected, m_socket, m_stop_flag, m_arg, receiving, sending,
                 adder, rpc, serror, cpc, bpc, slice>>

TestSocket ==
  /\ spc = "test"
  /\ spc' = IF m_socket = "null" THEN "unlock" ELSE "write"
  /\ serror' = (m_socket = "null")
  /\ UNCHANGED <<connected, life, receiving, sending, adder, rpc, cpc, bpc, slice>>

Write ==
  /\ spc = "write" /\ connected
  /\ written' = Append(written, packet)
  /\ spc' = "unlock"
  /\ UNCHANGED <<connected, life, receiving, m_send_q, packet, overflows,
                 adder, rpc, serror, cpc, bpc, slice>>

WriteFails ==
  /\ spc = "write" /\ ~connected
  /\ serror' = TRUE
  /\ spc' = "unlock"
  /\ UNCHANGED <<connected, life, receiving, sending, adder, rpc, cpc, bpc, slice>>

SenderUnlock ==
  /\ spc = "unlock"
  /\ m_socket_lock' = "free"
  /\ spc' = IF serror THEN "over" ELSE "pop"
  /\ UNCHANGED <<connected, m_socket, m_stop_flag, m_arg, receiving, sending,
                 adder, rpc, serror, cpc, bpc, slice>>

SendProc ==
  PopSendPacket \/ SenderLock \/ TestSocket \/ Write \/ WriteFails \/ SenderUnlock

-----------------------------------------------------------------------------
(* The stream thread, in StreamHLDSClients, which it calls as long as the  *)
(* broker's m_stream_onoff is set; any client may have set it.             *)

EndOfFrame(s) == s % Slices = 0

\* AddClient starts the client under the lock that StreamHLDSClients takes.
StreamFrame ==
  /\ bpc = "frame" /\ slice <= Slices * MaxFrames
  /\ adder = "done"
  /\ bpc' = IF m_stop_flag THEN "skip" ELSE "push"
  /\ UNCHANGED <<connected, life, receiving, sending, adder, rpc, spc, serror,
                 cpc, slice>>

\* Mutant: the last slice of a frame is not pushed.
PushAllButLast ==
  /\ bpc = "push"
  /\ IF EndOfFrame(slice) THEN UNCHANGED <<m_send_q, packet>> ELSE SendQ!Put(slice)
  /\ slice' = slice + 1
  /\ bpc' = IF EndOfFrame(slice) THEN "frame" ELSE "push"
  /\ UNCHANGED <<connected, life, receiving, written, overflows, adder,
                 rpc, spc, serror, cpc>>

\* Mutant: a full queue is emptied.
PushAfterClear ==
  /\ bpc = "push"
  /\ m_send_q' = IF Len(m_send_q) > MAX_SENDQ_SIZE THEN <<slice>>
                 ELSE Append(m_send_q, slice)
  /\ slice' = slice + 1
  /\ bpc' = IF EndOfFrame(slice) THEN "frame" ELSE "push"
  /\ UNCHANGED <<connected, life, receiving, packet, written, overflows,
                 adder, rpc, spc, serror, cpc>>

PushSendPacket ==
  /\ bpc = "push"
  /\ SendQ!Put(slice)
  /\ overflows' = overflows + Len(m_send_q) - Len(SendQ!Newest(m_send_q))
  /\ slice' = slice + 1
  /\ bpc' = IF EndOfFrame(slice) THEN "frame" ELSE "push"
  /\ UNCHANGED <<connected, life, receiving, written, adder, rpc, spc, serror, cpc>>

SkipClient ==
  /\ bpc = "skip"
  /\ slice' = slice + Slices
  /\ bpc' = "frame"
  /\ UNCHANGED <<connected, life, receiving, sending, adder, rpc, spc, serror, cpc>>

Stream == StreamFrame \/ PushSendPacket \/ SkipClient

-----------------------------------------------------------------------------

Next ==
  \/ SetArg \/ StartThread \/ Disconnect
  \/ ReadPacket \/ ReadError \/ Teardown
  \/ ComPacketProc \/ SendProc \/ Stream

\* Every thread runs, but the peer owes nothing: no packet is bound to come,
\* and a write may block as long as the connection stands.  What is read
\* from, or written to, a lost connection fails.
Spec == Init /\ [][Next]_vars
FairSpec ==
  /\ Spec
  /\ WF_vars(SetArg \/ StartThread)
  /\ WF_vars(ReadError /\ ~connected)
  /\ WF_vars(Teardown)
  /\ WF_vars(ComPacketProc)
  /\ WF_vars(SendProc /\ (spc = "write" => ~connected))

-----------------------------------------------------------------------------

\* The socket is never deleted under the sender: between its test for null
\* and the end of its write the object is there, although the receiver
\* deletes it from another thread.
WriterHasSocket == spc = "write" => m_socket = "open"

Increasing(s) == \A i, j \in 1 .. Len(s) : i < j => s[i] < s[j]

InHand == IF spc \in {"lock", "test", "write"} THEN {packet} ELSE {}
Members(s) == {s[i] : i \in 1 .. Len(s)}

\* The peer gets slices in order, none twice, and until the queue has once
\* been full or the sender has given up it has got every slice that is not
\* still on its way.
StreamInOrder ==
  /\ Increasing(written)
  /\ overflows = 0 /\ ~serror /\ ~m_stop_flag =>
       Members(written) \cup InHand \cup Members(m_send_q) = 1 .. slice - 1

\* However slow the peer is, no slice is withheld from it of the last frames
\* that the queue has room for: only older frames are torn.
FittingFrames == (MAX_SENDQ_SIZE + 1) \div Slices
OnlyOldFramesTorn ==
  bpc = "frame" /\ ~serror /\ ~m_stop_flag =>
    \A s \in 1 .. slice - 1 :
      s > slice - 1 - FittingFrames * Slices
        => s \in Members(written) \cup Members(m_send_q) \cup InHand

\* What the comment on stream_onoff, "default OFF", says of a client: it is
\* sent no stream before a command of its own, whatever other clients asked
\* the broker for.  It does not hold: the field starts as STREAM_ON and
\* nothing changes it.
DefaultOff == done = << >> => written = << >>

\* A lost connection ends the client: its socket is closed and it is no
\* longer streamed to.
ClientDies == ~connected ~> m_stop_flag

\* A received command is carried out, unless 33 newer ones came in while it
\* waited, also when the connection is lost in between.
CommandsDone ==
  \A n \in 1 .. MaxCommands :
    sent >= n ~> \/ n \in Members(done)
                 \/ sent > n + MAX_RECVQ_SIZE

=============================================================================
