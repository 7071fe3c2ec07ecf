---------------------------- MODULE PacketQueue ----------------------------
(***************************************************************************)
(* One packet queue of an agent_client, call by call: any number of        *)
(* threads push (PushSendPacket, PushRecvPacket), one takes (SendProc,     *)
(* ComPacketProc), and a mutex is held by whoever touches the deque.       *)
(* Pushing to a queue that is too long deletes packets from its front.     *)
(* SendProc deletes a packet after writing it, but not one that it skips   *)
(* while the stream is off; ComPacketProc deletes none.                    *)
(*                                                                         *)
(* A packet stands for its heap object; packets are numbered as they are   *)
(* made.                                                                   *)
(***************************************************************************)
EXTENDS Naturals, Sequences

CONSTANTS
  Pushers,         \* threads that call Push...Packet
  Taker,           \* the thread that calls Pop...Packet
  Free,            \* the holder of a free lock
  MAX_SIZE,        \* MAX_SENDQ_SIZE, MAX_RECVQ_SIZE
  MaxPackets       \* bound: packets made

Threads == Pushers \cup {Taker}

ASSUME PacketQueueAssumption ==
  /\ Taker \notin Pushers
  /\ Free \notin Threads
  /\ MAX_SIZE \in Nat
  /\ MaxPackets \in Nat

VARIABLES
  queue,           \* which queue this is: "m_send_q" or "m_recv_q"
  q,               \* the packets in it, the front first
  lock,            \* m_send_q_lock or m_recv_q_lock
  pc,              \* what each thread does next
  packet,          \* the packet it is about to push, or has taken; 0: nullptr
  made,            \* number of packets so far
  freed,           \* the packets deleted
  forgotten,       \* the packets the taker let go of without deleting them
  spilled,         \* history: what the push in progress has dropped
  taken            \* history: what PopPacket found last

heap == <<queue, made, freed, forgotten>>
vars == <<queue, q, lock, pc, packet, made, freed, forgotten, spilled, taken>>

Packets == 1 .. MaxPackets
nullptr == 0

Init ==
  /\ queue \in {"m_send_q", "m_recv_q"}
  /\ q = << >>
  /\ lock = Free
  /\ pc = [t \in Threads |-> "idle"]
  /\ packet = [t \in Threads |-> nullptr]
  /\ made = 0
  /\ freed = {}
  /\ forgotten = {}
  /\ spilled = << >>
  /\ taken = nullptr

Goto(t, l) == pc' = [pc EXCEPT ![t] = l]

-----------------------------------------------------------------------------
(* Pushing.                                                                *)

\* new xpacket(packet)
Make(t) ==
  /\ pc[t] = "idle" /\ made < MaxPackets
  /\ made' = made + 1
  /\ packet' = [packet EXCEPT ![t] = made + 1]
  /\ Goto(t, "lock")
  /\ UNCHANGED <<queue, q, lock, freed, forgotten, spilled, taken>>

LockPush(t) ==
  /\ pc[t] = "lock"
  /\ lock = Free
  /\ lock' = t
  /\ Goto(t, "size")
  /\ UNCHANGED <<q, packet, heap, spilled, taken>>

TooLong == Len(q) > MAX_SIZE

\* Mutant: a packet that is dropped is not deleted.
DeleteNothing(t) ==
  /\ pc[t] = "size" /\ TooLong
  /\ Goto(t, "drop")
  /\ UNCHANGED <<q, lock, packet, heap, spilled, taken>>

\* delete q.front()
DeleteFront(t) ==
  /\ pc[t] = "size" /\ TooLong
  /\ freed' = freed \cup {Head(q)}
  /\ Goto(t, "drop")
  /\ UNCHANGED <<queue, q, lock, packet, made, forgotten, spilled, taken>>

DropFront(t) ==
  /\ pc[t] = "drop"
  /\ spilled' = Append(spilled, Head(q))
  /\ q' = Tail(q)
  /\ Goto(t, "size")
  /\ UNCHANGED <<lock, packet, heap, taken>>

\* Mutant: push_front.
PushFront(t) ==
  /\ pc[t] = "size" /\ ~TooLong
  /\ q' = <<packet[t]>> \o q
  /\ packet' = [packet EXCEPT ![t] = nullptr]
  /\ spilled' = << >>
  /\ Goto(t, "unlock")
  /\ UNCHANGED <<lock, heap, taken>>

PushBack(t) ==
  /\ pc[t] = "size" /\ ~TooLong
  /\ q' = Append(q, packet[t])
  /\ packet' = [packet EXCEPT ![t] = nullptr]
  /\ spilled' = << >>
  /\ Goto(t, "unlock")
  /\ UNCHANGED <<lock, heap, taken>>

Unlock(t) ==
  /\ pc[t] = "unlock"
  /\ lock' = Free
  /\ Goto(t, IF packet[t] = nullptr THEN "idle" ELSE "use")
  /\ UNCHANGED <<q, packet, heap, spilled, taken>>

Push(t) ==
  \/ LockPush(t) \/ DeleteFront(t) \/ DropFront(t) \/ PushBack(t)
  \/ Unlock(t)

-----------------------------------------------------------------------------
(* Taking.                                                                 *)

\* Mutant: the taker does not wait for the lock.
LockPopAnyway ==
  /\ pc[Taker] = "idle"
  /\ lock' = Taker
  /\ Goto(Taker, "front")
  /\ UNCHANGED <<q, packet, heap, spilled, taken>>

LockPop ==
  /\ pc[Taker] = "idle"
  /\ lock = Free
  /\ lock' = Taker
  /\ Goto(Taker, "front")
  /\ UNCHANGED <<q, packet, heap, spilled, taken>>

FindEmpty ==
  /\ pc[Taker] = "front" /\ q = << >>
  /\ taken' = nullptr
  /\ Goto(Taker, "unlock")
  /\ UNCHANGED <<q, lock, packet, heap, spilled>>

Front ==
  /\ pc[Taker] = "front" /\ q # << >>
  /\ packet' = [packet EXCEPT ![Taker] = Head(q)]
  /\ Goto(Taker, "pop")
  /\ UNCHANGED <<q, lock, heap, spilled, taken>>

PopFront ==
  /\ pc[Taker] = "pop"
  /\ q' = Tail(q)
  /\ taken' = packet[Taker]
  /\ Goto(Taker, "unlock")
  /\ UNCHANGED <<lock, packet, heap, spilled>>

\* SendProc has written the packet, or could not.
Write ==
  /\ pc[Taker] = "use" /\ queue = "m_send_q"
  /\ freed' = freed \cup {packet[Taker]}
  /\ packet' = [packet EXCEPT ![Taker] = nullptr]
  /\ Goto(Taker, "idle")
  /\ UNCHANGED <<queue, q, lock, made, forgotten, spilled, taken>>

\* SendProc skips a stream packet while the stream is off (it may be, on the
\* send queue), ComPacketProc has carried a command out: the pointer is gone.
LetGo ==
  /\ pc[Taker] = "use"
  /\ forgotten' = forgotten \cup {packet[Taker]}
  /\ packet' = [packet EXCEPT ![Taker] = nullptr]
  /\ Goto(Taker, "idle")
  /\ UNCHANGED <<queue, q, lock, made, freed, spilled, taken>>

Pop ==
  \/ LockPop \/ FindEmpty \/ Front \/ PopFront \/ Unlock(Taker)
  \/ Write \/ LetGo

-----------------------------------------------------------------------------

Next ==
  \/ Pop
  \/ \E t \in Pushers : Make(t) \/ Push(t)

Spec == Init /\ [][Next]_vars

-----------------------------------------------------------------------------

Queued == {q[i] : i \in 1 .. Len(q)}

\* Nobody holds a deleted packet: what waits in the queue is alive, but for
\* the front while its pusher is between delete and pop_front, and so is the
\* packet that the taker uses, whatever the pushers throw away meanwhile.
\* That also means that no packet is deleted twice.
NothingFreedIsHeld ==
  /\ (\A t \in Pushers : pc[t] # "drop") => Queued \cap freed = {}
  /\ \A t \in Threads : packet[t] \notin freed

InHand == {packet[t] : t \in Threads} \ {nullptr}

\* A packet that was made has one place: it waits in the queue, is in the hand
\* of one thread, is deleted, or was let go of by the taker.  So what leaks is
\* what the taker lets go of and nothing else: pushing, dropping and popping
\* lose track of no packet, and nobody refers to one that has leaked.  Only
\* the front may be in the queue and elsewhere, while it is taken or dropped.
OnePlaceEach ==
  /\ 1 .. made = Queued \cup InHand \cup freed \cup forgotten
  /\ forgotten \cap (Queued \cup InHand \cup freed) = {}
  /\ InHand \cap freed = {}
  /\ \A t, u \in Threads : packet[t] = packet[u] /\ packet[t] # nullptr => t = u
  /\ \A p \in Queued \cap (InHand \cup freed) :
       p = Head(q) /\ \E t \in Threads : pc[t] \in {"pop", "drop"}

\* Between two calls, and while a push drops packets, the queue looks like a
\* window of the newest packets; a drop and the push it makes room for are
\* one step of it.
Window == INSTANCE NewestWindow
            WITH waiting <- spilled \o q, taken <- taken, NoPacket <- nullptr

ImplementsWindow == Window!Spec

=============================================================================
