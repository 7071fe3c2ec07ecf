---------------------------- MODULE NewestWindow ----------------------------
(***************************************************************************)
(* What a packet queue of agent_client promises: packets come out in the   *)
(* order in which they went in, each at most once, and a packet is given   *)
(* up only when MAX_SIZE newer ones are waiting behind it.                 *)
(***************************************************************************)
EXTENDS Naturals, Sequences

CONSTANTS
  Packets,       \* packets that may be queued
  NoPacket,      \* what a look into an empty queue yields
  MAX_SIZE       \* MAX_SENDQ_SIZE, MAX_RECVQ_SIZE

VARIABLES
  waiting,       \* the packets in the queue, the oldest first
  taken          \* what the last look yielded

Init == waiting = << >> /\ taken = NoPacket

\* The newest MAX_SIZE packets of s.
Newest(s) ==
  IF Len(s) > MAX_SIZE THEN SubSeq(s, Len(s) - MAX_SIZE + 1, Len(s)) ELSE s

Put(p) ==
  /\ waiting' = Append(Newest(waiting), p)
  /\ UNCHANGED taken

Get ==
  IF waiting = << >>
  THEN taken' = NoPacket /\ UNCHANGED waiting
  ELSE taken' = Head(waiting) /\ waiting' = Tail(waiting)

Next == Get \/ \E p \in Packets : Put(p)

Spec == Init /\ [][Next]_<<waiting, taken>>
=============================================================================
