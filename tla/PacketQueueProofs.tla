-------------------------- MODULE PacketQueueProofs --------------------------
(***************************************************************************)
(* For any number of pushing threads and any MAX_SIZE: a packet has one    *)
(* place at a time, so that none is used or deleted twice and none is lost *)
(* but by the taker, and the queue is a NewestWindow.                      *)
(***************************************************************************)
EXTENDS PacketQueue, TLAPS

Critical == {"size", "drop", "front", "pop", "unlock"}

QueueTypes ==
  /\ q \in Seq(Packets) /\ spilled \in Seq(Packets)
  /\ lock \in Threads \cup {Free}
  /\ pc \in [Threads -> {"idle", "lock", "use"} \cup Critical]
  /\ packet \in [Threads -> Packets \cup {nullptr}]
  /\ made \in 0 .. MaxPackets
  /\ freed \in SUBSET Packets /\ forgotten \in SUBSET Packets
  /\ taken \in Packets \cup {nullptr}

\* Who touches the queue holds the lock.
Locked == \A t \in Threads : pc[t] \in Critical => lock = t

\* The steps of each thread, and what it has in its hand there.
Places ==
  /\ \A t \in Pushers :
       /\ pc[t] \in {"idle", "lock", "size", "drop", "unlock"}
       /\ packet[t] # nullptr <=> pc[t] \in {"lock", "size", "drop"}
       /\ pc[t] = "drop" => Len(q) > MAX_SIZE
  /\ pc[Taker] \in {"idle", "front", "pop", "unlock", "use"}
  /\ pc[Taker] \in {"idle", "front"} => packet[Taker] = nullptr
  /\ pc[Taker] \in {"pop", "use"} => packet[Taker] # nullptr
  /\ pc[Taker] = "pop" => q # << >> /\ packet[Taker] = q[1]

Dropping == \E t \in Pushers : pc[t] = "drop"

\* A packet is in the queue once, in one hand, or deleted; only the front is
\* in the queue and elsewhere, when it is being taken or dropped.
OneOwner ==
  /\ \A i \in 1 .. Len(q) : q[i] <= made
  /\ \A i, j \in 1 .. Len(q) : q[i] = q[j] => i = j
  /\ \A i \in 1 .. Len(q) : q[i] \in freed => i = 1 /\ Dropping
  /\ Dropping => q[1] \in freed
  /\ \A t \in Threads :
       /\ packet[t] <= made /\ packet[t] \notin freed
       /\ \A i \in 1 .. Len(q) : packet[t] = q[i] => i = 1 /\ pc[t] = "pop"
  /\ \A t, u \in Threads : packet[t] = packet[u] /\ packet[t] # nullptr => t = u
  /\ \A p \in freed : p <= made

\* What the taker let go of is nowhere else.
LetGoOf ==
  /\ \A p \in forgotten : p \notin freed /\ p <= made
  /\ \A i \in 1 .. Len(q) : q[i] \notin forgotten
  /\ \A t \in Threads : packet[t] \notin forgotten

\* Every packet made is somewhere.
SomePlace == 1 .. made = Queued \cup InHand \cup freed \cup forgotten

\* Packets are dropped only as far as to make room for the new one.
Room ==
  \/ spilled = << >>
  \/ \E t \in Pushers : pc[t] \in {"size", "drop"} /\ Len(q) >= MAX_SIZE

Inv == QueueTypes /\ Locked /\ Places /\ OneOwner /\ Room /\ LetGoOf /\ SomePlace

LEMMA InvInit == Init => Inv
  <1> SUFFICES ASSUME Init PROVE Inv
    OBVIOUS
  <1> USE PacketQueueAssumption DEF Init, nullptr, Threads
  <1>1. QueueTypes
    BY DEF QueueTypes, Packets, Critical
  <1>2. Locked /\ Places /\ OneOwner /\ Room
    BY <1>1 DEF Locked, Places, OneOwner, Room, Dropping, Critical, Packets, QueueTypes
  <1>3. LetGoOf
    BY <1>1 DEF LetGoOf
  <1>4. SomePlace
    BY DEF SomePlace, Queued, InHand
  <1> QED BY <1>1, <1>2, <1>3, <1>4 DEF Inv

LEMMA MakePreserves ==
  ASSUME Inv, NEW t \in Pushers, Make(t)
  PROVE  Inv'
  <1> USE PacketQueueAssumption DEF Make, Goto, Threads, nullptr
  <1>0. QueueTypes /\ Locked /\ Places /\ OneOwner /\ Room /\ LetGoOf /\ SomePlace
    BY DEF Inv
  <1>1. QueueTypes'
    BY <1>0 DEF QueueTypes, Critical, Packets
  <1>2. Locked'
    BY <1>0 DEF Locked, QueueTypes, Critical
  <1>3. Places'
    BY <1>0 DEF Places, QueueTypes, Packets
  <1>4. OneOwner'
    <2>1. Dropping' <=> Dropping
      BY <1>0 DEF Dropping, QueueTypes
    <2>2. /\ made \in Nat /\ packet'[t] = made + 1 /\ q' = q /\ freed' = freed /\ made' = made + 1
          /\ \A i \in 1 .. Len(q) : q[i] \in Nat
      BY <1>0 DEF QueueTypes, Packets
    <2>3. \A u \in Threads :
            u # t => /\ packet'[u] = packet[u] /\ pc'[u] = pc[u]
                     /\ packet[u] \in Nat /\ packet[u] <= made
      BY <1>0 DEF OneOwner, QueueTypes, Packets
    <2>4. \A u \in Threads :
            /\ packet'[u] <= made' /\ packet'[u] \notin freed
            /\ \A i \in 1 .. Len(q) : packet'[u] = q[i] => i = 1 /\ pc'[u] = "pop"
      <3>1. made + 1 \notin freed /\ \A i \in 1 .. Len(q) : q[i] # made + 1
        BY <1>0, <2>2 DEF OneOwner
      <3> QED BY <1>0, <2>2, <2>3, <3>1 DEF OneOwner
    <2>5. \A u, v \in Threads : packet'[u] = packet'[v] /\ packet'[u] # nullptr => u = v
      BY <1>0, <2>2, <2>3 DEF OneOwner
    <2>6. \A p \in freed : p \in Nat /\ p <= made'
      BY <1>0, <2>2 DEF OneOwner, QueueTypes, Packets
    <2>7. \A i \in 1 .. Len(q) : q[i] <= made'
      BY <1>0, <2>2 DEF OneOwner
    <2> QED BY <1>0, <2>1, <2>2, <2>4, <2>5, <2>6, <2>7 DEF OneOwner
  <1>5. Room'
    <2>1. pc' = [pc EXCEPT ![t] = "lock"] /\ pc[t] = "idle" /\ q' = q /\ spilled' = spilled
      OBVIOUS
    <2>2. \A u \in Pushers : pc[u] \in {"size", "drop"} => pc'[u] = pc[u]
      BY <1>0, <2>1 DEF QueueTypes
    <2> QED BY <1>0, <2>1, <2>2 DEF Room
  <1>f. LetGoOf'
    BY <1>0 DEF LetGoOf, QueueTypes, Packets
  <1>6. SomePlace'
    <2>1. {packet'[u] : u \in Threads} \ {nullptr}
            = ({packet[u] : u \in Threads} \ {nullptr}) \cup {made + 1}
      BY <1>0 DEF Places, QueueTypes
    <2>2. 1 .. made' = 1 .. made \cup {made + 1}
      BY <1>0 DEF QueueTypes
    <2>3. Queued' = Queued /\ freed' = freed
      BY DEF Queued
    <2> QED BY <1>0, <2>1, <2>2, <2>3 DEF SomePlace, InHand
  <1> QED BY <1>1, <1>2, <1>3, <1>4, <1>5, <1>6, <1>f DEF Inv

LEMMA PushPreserves ==
  ASSUME Inv, NEW t \in Pushers, Push(t)
  PROVE  Inv'
  <1> USE PacketQueueAssumption DEF Goto, Threads, nullptr, heap
  <1>0. QueueTypes /\ Locked /\ Places /\ OneOwner /\ Room /\ LetGoOf /\ SomePlace
    BY DEF Inv
  <1>1. CASE LockPush(t)
    <2> USE <1>0, <1>1 DEF LockPush
    <2>1. QueueTypes'
      BY DEF QueueTypes, Critical, Packets
    <2>2. Locked'
      BY DEF Locked, QueueTypes, Critical
    <2>3. Places'
      BY DEF Places, QueueTypes, Packets
    <2>4. OneOwner'
      BY DEF OneOwner, Dropping, Places, QueueTypes, Packets
    <2>5. Room'
      BY DEF Room, QueueTypes, Places
    <2>f. LetGoOf'
      BY <1>0 DEF LetGoOf, QueueTypes, Packets
    <2>6. SomePlace'
      BY DEF SomePlace, Queued, InHand
    <2> QED BY <2>1, <2>2, <2>3, <2>4, <2>5, <2>6, <2>f DEF Inv
  <1>2. CASE DeleteFront(t)
    <2> USE <1>0, <1>2 DEF DeleteFront, TooLong
    <2>0. q # << >> /\ Head(q) = q[1] /\ q[1] \in Packets /\ 1 \in 1 .. Len(q)
      BY DEF QueueTypes
    <2>1. QueueTypes'
      BY <2>0 DEF QueueTypes, Critical, Packets
    <2>2. Locked'
      BY DEF Locked, QueueTypes, Critical
    <2>3. Places'
      BY DEF Places, QueueTypes, Packets
    <2>4. \A u \in Threads : pc[u] # "pop"
      BY DEF Locked, Places, Critical
    <2>5. OneOwner'
      <3>1. Dropping'
        BY DEF Dropping, QueueTypes
      <3> QED BY <2>0, <2>4, <3>1 DEF OneOwner, Places, QueueTypes, Packets
    <2>6. Room'
      BY DEF Room, QueueTypes, Places
    <2>f. LetGoOf'
      BY <1>0 DEF LetGoOf, QueueTypes, Packets
    <2>7. SomePlace'
      BY <2>0 DEF SomePlace, Queued, InHand
    <2> QED BY <2>1, <2>2, <2>3, <2>5, <2>6, <2>7, <2>f DEF Inv
  <1>3. CASE DropFront(t)
    <2> USE <1>0, <1>3 DEF DropFront
    <2>0. /\ q # << >> /\ Head(q) = q[1] /\ q[1] \in Packets /\ 1 \in 1 .. Len(q)
          /\ Len(q') = Len(q) - 1 /\ \A i \in 1 .. Len(q') : q'[i] = q[i + 1]
      BY DEF QueueTypes, Places
    <2>1. QueueTypes'
      BY <2>0 DEF QueueTypes, Critical, Packets
    <2>2. Locked'
      BY DEF Locked, QueueTypes, Critical
    <2>3. \A u \in Threads : u # t => pc[u] \notin Critical
      BY DEF Locked, Critical
    <2>4. Places'
      BY <2>0, <2>3 DEF Places, QueueTypes, Packets, Critical
    <2>5. OneOwner'
      <3>1. ~Dropping'
        BY <2>3 DEF Dropping, QueueTypes, Critical
      <3>2. \A i \in 1 .. Len(q') : i + 1 \in 1 .. Len(q) /\ i + 1 # 1
        BY <2>0 DEF QueueTypes
      <3>3. \A i \in 1 .. Len(q') : q'[i] <= made /\ q'[i] \notin freed
        BY <2>0, <3>2 DEF OneOwner
      <3>4. \A i, j \in 1 .. Len(q') : q'[i] = q'[j] => i = j
        BY <2>0, <3>2 DEF OneOwner
      <3>5. \A u \in Threads : \A i \in 1 .. Len(q') : packet[u] # q'[i]
        BY <2>0, <3>2 DEF OneOwner
      <3> QED BY <3>1, <3>3, <3>4, <3>5 DEF OneOwner
    <2>6. Room'
      BY <2>0 DEF Room, QueueTypes, Places
    <2>f. LetGoOf'
      BY <1>0 DEF LetGoOf, QueueTypes, Packets
    <2>7. SomePlace'
      <3>1. q[1] \in freed
        BY DEF OneOwner, Dropping
      <3>2. Queued \cup freed = Queued' \cup freed
        <4>1. \A i \in 2 .. Len(q) : i - 1 \in 1 .. Len(q') /\ q[i] = q'[i - 1]
          BY <2>0 DEF QueueTypes
        <4>2. \A i \in 1 .. Len(q') : i + 1 \in 1 .. Len(q)
          BY <2>0 DEF QueueTypes
        <4>3. \A i \in 1 .. Len(q) : i = 1 \/ i \in 2 .. Len(q)
          BY DEF QueueTypes
        <4>4. \A i \in 1 .. Len(q) : q[i] \in Queued' \cup freed
          BY <3>1, <4>1, <4>3 DEF Queued
        <4>5. \A i \in 1 .. Len(q') : q'[i] \in Queued
          BY <2>0, <4>2 DEF Queued
        <4> QED BY <4>4, <4>5 DEF Queued
      <3> QED BY <3>2 DEF SomePlace, InHand
    <2> QED BY <2>1, <2>2, <2>4, <2>5, <2>6, <2>7, <2>f DEF Inv
  <1>4. CASE PushBack(t)
    <2> USE <1>0, <1>4 DEF PushBack, TooLong
    <2>0. /\ packet[t] \in Packets /\ Len(q') = Len(q) + 1 /\ q'[Len(q) + 1] = packet[t]
          /\ \A i \in 1 .. Len(q) : q'[i] = q[i]
          /\ Len(q) \in Nat
      BY DEF QueueTypes, Places
    <2>1. QueueTypes'
      BY <2>0 DEF QueueTypes, Critical, Packets
    <2>2. Locked'
      BY DEF Locked, QueueTypes, Critical
    <2>3. \A u \in Threads : u # t => pc[u] \notin Critical
      BY DEF Locked, Critical
    <2>4. Places'
      BY <2>3 DEF Places, QueueTypes, Packets, Critical
    <2>5. OneOwner'
      <3>1. ~Dropping /\ ~Dropping'
        BY <2>3 DEF Dropping, QueueTypes, Critical
      <3>2. \A i \in 1 .. Len(q') : i \in 1 .. Len(q) \/ i = Len(q) + 1
        BY <2>0
      <3>3. \A i \in 1 .. Len(q) : packet[t] # q[i]
        BY DEF OneOwner
      <3>4. packet[t] <= made /\ packet[t] \notin freed
        BY DEF OneOwner
      <3>5. \A i \in 1 .. Len(q') : q'[i] <= made /\ q'[i] \notin freed
        BY <2>0, <3>1, <3>2, <3>4 DEF OneOwner
      <3>6. \A i, j \in 1 .. Len(q') : q'[i] = q'[j] => i = j
        <4> SUFFICES ASSUME NEW i \in 1 .. Len(q'), NEW j \in 1 .. Len(q'), q'[i] = q'[j]
                     PROVE  i = j
          OBVIOUS
        <4>1. CASE i \in 1 .. Len(q) /\ j \in 1 .. Len(q)
          BY <2>0, <4>1 DEF OneOwner
        <4> QED BY <2>0, <3>2, <3>3, <4>1
      <3>7. \A u \in Threads :
              \/ packet'[u] = nullptr
              \/ u # t /\ packet'[u] = packet[u] /\ packet[u] # packet[t]
        BY DEF OneOwner, QueueTypes, Places
      <3>8. \A u \in Threads : \A i \in 1 .. Len(q') :
              packet'[u] = q'[i] => i = 1 /\ pc'[u] = "pop"
        <4> SUFFICES ASSUME NEW u \in Threads, NEW i \in 1 .. Len(q'), packet'[u] = q'[i]
                     PROVE  i = 1 /\ pc'[u] = "pop"
          OBVIOUS
        <4>1. q'[i] \in Packets
          BY <2>1 DEF QueueTypes
        <4>2. u # t /\ packet'[u] = packet[u] /\ packet[u] # packet[t]
          BY <3>7, <4>1 DEF Packets
        <4>3. i \in 1 .. Len(q)
          BY <2>0, <3>2, <4>2
        <4>4. packet[u] = q[i] /\ pc'[u] = pc[u]
          BY <2>0, <4>2, <4>3 DEF QueueTypes
        <4> QED BY <4>3, <4>4 DEF OneOwner
      <3>9. \A u \in Threads : packet'[u] <= made /\ packet'[u] \notin freed
        BY <3>7 DEF OneOwner, QueueTypes, Packets
      <3>10. \A u, v \in Threads : packet'[u] = packet'[v] /\ packet'[u] # nullptr => u = v
        BY <3>7 DEF OneOwner
      <3> QED BY <3>1, <3>5, <3>6, <3>8, <3>9, <3>10 DEF OneOwner
    <2>6. Room'
      BY DEF Room
    <2>f. LetGoOf'
      BY <1>0 DEF LetGoOf, QueueTypes, Packets
    <2>7. SomePlace'
      <3>1. Queued' = Queued \cup {packet[t]}
        BY <2>0 DEF Queued
      <3>2. {packet'[u] : u \in Threads} \cup {packet[t], nullptr}
              = {packet[u] : u \in Threads} \cup {packet[t], nullptr}
        BY DEF QueueTypes
      <3>3. packet[t] # nullptr
        BY DEF Places
      <3> QED BY <3>1, <3>2, <3>3 DEF SomePlace, InHand
    <2> QED BY <2>1, <2>2, <2>4, <2>5, <2>6, <2>7, <2>f DEF Inv
  <1>5. CASE Unlock(t)
    <2> USE <1>0, <1>5 DEF Unlock
    <2>0. packet[t] = nullptr /\ Taker # t
      BY DEF Places
    <2>1. QueueTypes'
      BY <2>0 DEF QueueTypes, Critical, Packets
    <2>2. Locked'
      BY <2>0 DEF Locked, QueueTypes, Critical
    <2>3. Places'
      BY <2>0 DEF Places, QueueTypes, Packets
    <2>4. OneOwner'
      BY <2>0 DEF OneOwner, Dropping, Places, QueueTypes, Packets
    <2>5. Room'
      BY <2>0 DEF Room, QueueTypes, Places
    <2>f. LetGoOf'
      BY <1>0 DEF LetGoOf, QueueTypes, Packets
    <2>6. SomePlace'
      BY DEF SomePlace, Queued, InHand
    <2> QED BY <2>1, <2>2, <2>3, <2>4, <2>5, <2>6, <2>f DEF Inv
  <1> QED BY <1>1, <1>2, <1>3, <1>4, <1>5 DEF Push

LEMMA PopPreserves ==
  ASSUME Inv, Pop
  PROVE  Inv'
  <1> USE PacketQueueAssumption DEF Goto, Threads, nullptr, heap
  <1>0. QueueTypes /\ Locked /\ Places /\ OneOwner /\ Room /\ LetGoOf /\ SomePlace
    BY DEF Inv
  <1>1. CASE LockPop
    <2> USE <1>0, <1>1 DEF LockPop
    <2>1. QueueTypes'
      BY DEF QueueTypes, Critical, Packets
    <2>2. Locked'
      BY DEF Locked, QueueTypes, Critical
    <2>3. Places'
      BY DEF Places, QueueTypes, Packets
    <2>4. OneOwner'
      BY DEF OneOwner, Dropping, Places, QueueTypes, Packets
    <2>5. Room'
      BY DEF Room, QueueTypes, Places
    <2>f. LetGoOf'
      BY <1>0 DEF LetGoOf, QueueTypes, Packets
    <2>6. SomePlace'
      BY DEF SomePlace, Queued, InHand
    <2> QED BY <2>1, <2>2, <2>3, <2>4, <2>5, <2>6, <2>f DEF Inv
  <1>2. CASE FindEmpty
    <2> USE <1>0, <1>2 DEF FindEmpty
    <2>1. QueueTypes'
      BY DEF QueueTypes, Critical, Packets
    <2>2. Locked'
      BY DEF Locked, QueueTypes, Critical
    <2>3. Places'
      BY DEF Places, QueueTypes, Packets
    <2>4. OneOwner'
      BY DEF OneOwner, Dropping, Places, QueueTypes, Packets
    <2>5. Room'
      BY DEF Room, QueueTypes, Places
    <2>f. LetGoOf'
      BY <1>0 DEF LetGoOf, QueueTypes, Packets
    <2>6. SomePlace'
      BY DEF SomePlace, Queued, InHand
    <2> QED BY <2>1, <2>2, <2>3, <2>4, <2>5, <2>6, <2>f DEF Inv
  <1>3. CASE Front
    <2> USE <1>0, <1>3 DEF Front
    <2>0. Head(q) = q[1] /\ q[1] \in Packets /\ 1 \in 1 .. Len(q)
      BY DEF QueueTypes
    <2>1. QueueTypes'
      BY <2>0 DEF QueueTypes, Critical, Packets
    <2>2. Locked'
      BY DEF Locked, QueueTypes, Critical
    <2>3. Places'
      BY <2>0 DEF Places, QueueTypes, Packets
    <2>4. OneOwner'
      <3>1. ~Dropping /\ ~Dropping'
        BY DEF Dropping, Locked, QueueTypes, Critical
      <3>2. \A u \in Pushers : packet[u] # q[1]
        BY <2>0 DEF OneOwner, Places
      <3>3. packet' = [packet EXCEPT ![Taker] = q[1]] /\ q[1] \notin freed /\ q[1] <= made
        BY <2>0, <3>1 DEF OneOwner
      <3> QED BY <2>0, <3>1, <3>2, <3>3 DEF OneOwner, QueueTypes, Packets
    <2>5. Room'
      BY DEF Room, QueueTypes, Places
    <2>f. LetGoOf'
      BY <1>0 DEF LetGoOf, QueueTypes, Packets
    <2>6. SomePlace'
      <3>1. {packet'[u] : u \in Threads} \ {nullptr}
              = ({packet[u] : u \in Threads} \ {nullptr}) \cup {q[1]}
        BY <2>0 DEF Places, QueueTypes, Packets
      <3>2. q[1] \in Queued /\ Queued' = Queued
        BY <2>0 DEF Queued
      <3> QED BY <2>0, <3>1, <3>2 DEF SomePlace, InHand
    <2> QED BY <2>1, <2>2, <2>3, <2>4, <2>5, <2>6, <2>f DEF Inv
  <1>4. CASE PopFront
    <2> USE <1>0, <1>4 DEF PopFront
    <2>0. /\ q # << >> /\ packet[Taker] = q[1] /\ q[1] \in Packets /\ 1 \in 1 .. Len(q)
          /\ Len(q') = Len(q) - 1 /\ \A i \in 1 .. Len(q') : q'[i] = q[i + 1]
      BY DEF QueueTypes, Places
    <2>1. QueueTypes'
      BY <2>0 DEF QueueTypes, Critical, Packets
    <2>2. Locked'
      BY DEF Locked, QueueTypes, Critical
    <2>3. \A u \in Threads : u # Taker => pc[u] \notin Critical
      BY DEF Locked, Critical
    <2>4. Places'
      BY <2>0, <2>3 DEF Places, QueueTypes, Packets, Critical
    <2>5. OneOwner'
      <3>1. ~Dropping /\ ~Dropping'
        BY <2>3 DEF Dropping, QueueTypes, Critical
      <3>2. \A i \in 1 .. Len(q') : i + 1 \in 1 .. Len(q) /\ i + 1 # 1
        BY <2>0 DEF QueueTypes
      <3>3. \A i \in 1 .. Len(q') : q'[i] <= made /\ q'[i] \notin freed
        BY <2>0, <3>2 DEF OneOwner
      <3>4. \A i, j \in 1 .. Len(q') : q'[i] = q'[j] => i = j
        BY <2>0, <3>2 DEF OneOwner
      <3>5. \A u \in Threads : \A i \in 1 .. Len(q') : packet[u] # q'[i]
        BY <2>0, <3>2 DEF OneOwner
      <3> QED BY <3>1, <3>3, <3>4, <3>5 DEF OneOwner
    <2>6. Room'
      BY <2>0, <2>3 DEF Room, QueueTypes, Places, Critical
    <2>f. LetGoOf'
      BY <1>0 DEF LetGoOf, QueueTypes, Packets
    <2>7. SomePlace'
      <3>1. Queued \cup {packet[Taker]} = Queued' \cup {packet[Taker]}
        <4>1. \A i \in 2 .. Len(q) : i - 1 \in 1 .. Len(q') /\ q[i] = q'[i - 1]
          BY <2>0 DEF QueueTypes
        <4>2. \A i \in 1 .. Len(q') : i + 1 \in 1 .. Len(q)
          BY <2>0 DEF QueueTypes
        <4>3. \A i \in 1 .. Len(q) : i = 1 \/ i \in 2 .. Len(q)
          BY DEF QueueTypes
        <4>4. \A i \in 1 .. Len(q) : q[i] \in Queued' \cup {packet[Taker]}
          BY <2>0, <4>1, <4>3 DEF Queued
        <4>5. \A i \in 1 .. Len(q') : q'[i] \in Queued
          BY <2>0, <4>2 DEF Queued
        <4> QED BY <4>4, <4>5 DEF Queued
      <3>2. packet[Taker] \in {packet[u] : u \in Threads} \ {nullptr}
        BY DEF Places
      <3> QED BY <3>1, <3>2 DEF SomePlace, InHand
    <2> QED BY <2>1, <2>2, <2>4, <2>5, <2>6, <2>7, <2>f DEF Inv
  <1>5. CASE Unlock(Taker)
    <2> USE <1>0, <1>5 DEF Unlock
    <2>1. QueueTypes'
      BY DEF QueueTypes, Critical, Packets
    <2>2. Locked'
      BY DEF Locked, QueueTypes, Critical
    <2>3. Places'
      BY DEF Places, QueueTypes, Packets
    <2>4. OneOwner'
      BY DEF OneOwner, Dropping, Places, QueueTypes, Packets
    <2>5. Room'
      BY DEF Room, QueueTypes, Places
    <2>f. LetGoOf'
      BY <1>0 DEF LetGoOf, QueueTypes, Packets
    <2>6. SomePlace'
      BY DEF SomePlace, Queued, InHand
    <2> QED BY <2>1, <2>2, <2>3, <2>4, <2>5, <2>6, <2>f DEF Inv
  <1>6. CASE Write \/ LetGo
    <2> USE <1>0, <1>6 DEF Write, LetGo
    <2>0. packet[Taker] \in Packets
      BY DEF Places, QueueTypes
    <2>1. QueueTypes'
      BY <2>0 DEF QueueTypes, Critical, Packets
    <2>2. Locked'
      BY DEF Locked, QueueTypes, Critical
    <2>3. Places'
      BY DEF Places, QueueTypes, Packets
    <2>4. OneOwner'
      <3>1. \A i \in 1 .. Len(q) : packet[Taker] # q[i]
        BY DEF OneOwner
      <3>2. \A u \in Pushers : packet[u] # packet[Taker] /\ u # Taker
        BY <2>0 DEF OneOwner, Places, Packets
      <3>3. Dropping' <=> Dropping
        BY DEF Dropping, QueueTypes
      <3>4. freed' \subseteq freed \cup {packet[Taker]} /\ freed \subseteq freed'
        OBVIOUS
      <3>5. packet'[Taker] = nullptr /\ \A u \in Pushers : packet'[u] = packet[u] /\ pc'[u] = pc[u]
        BY <3>2 DEF QueueTypes
      <3>6. \A i \in 1 .. Len(q) : q[i] \in freed' => q[i] \in freed
        BY <3>1, <3>4
      <3>7. \A p \in freed' : p <= made /\ p \in Packets
        BY <2>0, <3>4 DEF OneOwner, QueueTypes
      <3>8. \A u \in Threads :
              /\ packet'[u] <= made /\ packet'[u] \notin freed'
              /\ \A i \in 1 .. Len(q) : packet'[u] = q[i] => i = 1 /\ pc'[u] = "pop"
        <4>1. \A u \in Pushers :
                /\ packet'[u] <= made /\ packet'[u] \notin freed'
                /\ \A i \in 1 .. Len(q) : packet'[u] = q[i] => i = 1 /\ pc'[u] = "pop"
          BY <3>2, <3>4, <3>5 DEF OneOwner
        <4>2. nullptr \notin freed' /\ \A i \in 1 .. Len(q) : q[i] # nullptr
          BY <3>7 DEF QueueTypes, Packets
        <4> QED BY <3>5, <4>1, <4>2 DEF QueueTypes
      <3>9. \A u, v \in Threads : packet'[u] = packet'[v] /\ packet'[u] # nullptr => u = v
        BY <3>5 DEF OneOwner
      <3>10. Dropping' => q'[1] \in freed'
        BY <3>3, <3>4 DEF OneOwner
      <3> QED BY <3>3, <3>6, <3>7, <3>8, <3>9, <3>10 DEF OneOwner
    <2>5. Room'
      BY DEF Room, QueueTypes, Places
    <2>e. /\ \A i \in 1 .. Len(q) : packet[Taker] # q[i] /\ q[i] # nullptr
          /\ \A u \in Pushers : packet[u] # packet[Taker] /\ packet'[u] = packet[u]
          /\ packet'[Taker] = nullptr /\ packet[Taker] # nullptr
          /\ packet[Taker] \notin freed /\ packet[Taker] <= made /\ q' = q
      BY <2>0 DEF OneOwner, Places, QueueTypes, Packets
    <2>f. LetGoOf'
      <3>1. forgotten' \subseteq forgotten \cup {packet[Taker]} /\ nullptr \notin forgotten'
        BY <2>0 DEF QueueTypes, Packets
      <3>2. \A p \in forgotten' : p \notin freed' /\ p <= made
        <4>1. CASE Write
          BY <2>e, <4>1 DEF LetGoOf, Write
        <4>2. CASE LetGo
          BY <2>e, <4>2 DEF LetGoOf, LetGo
        <4> QED BY <4>1, <4>2
      <3>3. \A i \in 1 .. Len(q) : q[i] \notin forgotten'
        BY <2>e, <3>1 DEF LetGoOf
      <3>4. \A t \in Threads : packet'[t] \notin forgotten'
        BY <2>e, <3>1 DEF LetGoOf
      <3> QED BY <2>e, <3>2, <3>3, <3>4 DEF LetGoOf
    <2>6. SomePlace'
      <3>1. InHand = InHand' \cup {packet[Taker]}
        <4>1. \A u \in Threads : u = Taker \/ (u \in Pushers /\ packet'[u] = packet[u])
          BY <2>e
        <4>2. InHand \subseteq InHand' \cup {packet[Taker]}
          BY <4>1 DEF InHand
        <4>3. InHand' \subseteq InHand
          BY <2>e, <4>1 DEF InHand
        <4>4. packet[Taker] \in InHand
          BY <2>e DEF InHand
        <4> QED BY <4>2, <4>3, <4>4
      <3>2. freed' \cup forgotten' = freed \cup forgotten \cup {packet[Taker]}
        OBVIOUS
      <3>3. Queued' = Queued /\ made' = made
        BY DEF Queued
      <3> QED BY <3>1, <3>2, <3>3 DEF SomePlace
    <2> QED BY <2>1, <2>2, <2>3, <2>4, <2>5, <2>6, <2>f DEF Inv
  <1> QED BY <1>1, <1>2, <1>3, <1>4, <1>5, <1>6 DEF Pop

LEMMA Inductive == Inv /\ [Next]_vars => Inv'
  <1> SUFFICES ASSUME Inv, [Next]_vars PROVE Inv'
    OBVIOUS
  <1>1. CASE UNCHANGED vars
    BY <1>1 DEF vars, heap, Inv, QueueTypes, Locked, Places, OneOwner, Dropping, Room,
       LetGoOf, SomePlace, InHand, Queued
  <1> QED BY <1>1, MakePreserves, PushPreserves, PopPreserves DEF Next

\* The packets have one owner each, in every run of the queue.
THEOREM Invariance == Spec => []Inv
  BY InvInit, Inductive, PTL DEF Spec

\* No thread uses or queues a packet that was deleted, whatever the other
\* threads push and drop (PushSendPacket, PopSendPacket).
THEOREM NothingFreedIsHeldTheorem == Spec => []NothingFreedIsHeld
  <1>1. Inv => NothingFreedIsHeld
    BY DEF Inv, OneOwner, Dropping, NothingFreedIsHeld, Queued
  <1> QED BY <1>1, Invariance, PTL

\* Every packet that was made is in one place: queued, in one hand, deleted, or
\* let go of by the taker; nothing but the taker leaks a packet.
THEOREM OnePlaceEachTheorem == Spec => []OnePlaceEach
  <1>1. ASSUME Inv PROVE OnePlaceEach
    <2>1. QueueTypes /\ Places /\ OneOwner /\ LetGoOf /\ SomePlace
      BY <1>1 DEF Inv
    <2>2. forgotten \cap (Queued \cup InHand \cup freed) = {}
      BY <2>1 DEF LetGoOf, Queued, InHand
    <2>3. /\ InHand \cap freed = {}
          /\ \A t, u \in Threads : packet[t] = packet[u] /\ packet[t] # nullptr => t = u
      BY <2>1 DEF OneOwner, InHand
    <2>4. ASSUME NEW p \in Queued \cap (InHand \cup freed)
          PROVE  p = Head(q) /\ \E t \in Threads : pc[t] \in {"pop", "drop"}
      <3>1. PICK i \in 1 .. Len(q) : p = q[i]
        BY DEF Queued
      <3>2. i = 1 /\ \E t \in Threads : pc[t] \in {"pop", "drop"}
        <4>1. CASE p \in freed
          BY <2>1, <3>1, <4>1 DEF OneOwner, Dropping, Threads
        <4>2. CASE p \in InHand
          BY <2>1, <3>1, <4>2 DEF OneOwner, InHand
        <4> QED BY <4>1, <4>2
      <3>3. q \in Seq(Packets) /\ q # << >>
        BY <2>1, <3>1 DEF QueueTypes
      <3> QED BY <3>1, <3>2, <3>3
    <2> QED BY <2>1, <2>2, <2>3, <2>4 DEF OnePlaceEach, SomePlace
  <1> QED BY <1>1, Invariance, PTL

-----------------------------------------------------------------------------
(* The refinement of NewestWindow.                                         *)

window == spilled \o q

\* What SubSeq and \o say of a queue of which a part is set aside.
LEMMA NewestIsRest ==
  ASSUME NEW S, NEW r \in Seq(S), NEW s \in Seq(S), Len(s) = MAX_SIZE
  PROVE  Window!Newest(r \o s) = s
  <1> USE PacketQueueAssumption
  <1>1. /\ r \o s \in Seq(S) /\ Len(r \o s) = Len(r) + Len(s)
        /\ \A i \in 1 .. Len(s) : (r \o s)[Len(r) + i] = s[i]
    OBVIOUS
  <1>2. CASE Len(r) = 0
    <2>1. r \o s = s
      BY <1>2
    <2> QED BY <2>1, <1>2 DEF Window!Newest
  <1>3. CASE Len(r) # 0
    <2>1. Window!Newest(r \o s) = SubSeq(r \o s, Len(r) + 1, Len(r) + Len(s))
      BY <1>1, <1>3 DEF Window!Newest
    <2>2. /\ SubSeq(r \o s, Len(r) + 1, Len(r) + Len(s)) \in Seq(S)
          /\ Len(SubSeq(r \o s, Len(r) + 1, Len(r) + Len(s))) = Len(s)
          /\ \A i \in 1 .. Len(s) : SubSeq(r \o s, Len(r) + 1, Len(r) + Len(s))[i] = s[i]
      BY <1>1
    <2> QED BY <2>1, <2>2
  <1> QED BY <1>2, <1>3

LEMMA DropKeepsWindow ==
  ASSUME NEW S, NEW r \in Seq(S), NEW s \in Seq(S), s # << >>
  PROVE  Append(r, Head(s)) \o Tail(s) = r \o s
  OBVIOUS

LEMMA EmptyIsUnit ==
  ASSUME NEW S, NEW s \in Seq(S)
  PROVE  << >> \o s = s
  OBVIOUS

\* A drop belongs to the push it makes room for.
LEMMA PushRefines ==
  ASSUME Inv, NEW t \in Pushers, Push(t)
  PROVE  [Window!Next]_<<window, taken>>
  <1> USE PacketQueueAssumption DEF Goto, Threads, nullptr, heap
  <1>0. QueueTypes /\ Locked /\ Places /\ Room
    BY DEF Inv
  <1>1. CASE LockPush(t) \/ DeleteFront(t) \/ Unlock(t)
    BY <1>1 DEF LockPush, DeleteFront, Unlock, window
  <1>2. CASE DropFront(t)
    <2>1. q # << >>
      BY <1>0, <1>2 DEF DropFront, Places, QueueTypes
    <2>2. window' = window
      BY <1>0, <1>2, <2>1, DropKeepsWindow DEF DropFront, QueueTypes, window
    <2> QED BY <1>2, <2>2 DEF DropFront
  <1>3. CASE PushBack(t)
    <2>1. packet[t] \in Packets
      BY <1>0, <1>3 DEF PushBack, Places, QueueTypes
    <2>2. window' = Append(q, packet[t])
      <3>1. Append(q, packet[t]) \in Seq(Packets)
        BY <1>0, <2>1 DEF QueueTypes
      <3> QED BY <1>3, <3>1, EmptyIsUnit DEF PushBack, window
    <2>3. Window!Newest(window) = q
      <3>1. CASE spilled = << >>
        <4>1. window = q
          BY <1>0, <3>1, EmptyIsUnit DEF QueueTypes, window
        <4> QED BY <1>3, <4>1 DEF PushBack, TooLong, Window!Newest
      <3>2. CASE spilled # << >>
        <4>1. PICK u \in Pushers : pc[u] \in {"size", "drop"} /\ Len(q) >= MAX_SIZE
          BY <1>0, <3>2 DEF Room
        <4>2. Len(q) = MAX_SIZE
          BY <1>0, <1>3, <4>1 DEF PushBack, TooLong, QueueTypes
        <4> QED BY <1>0, <4>2, NewestIsRest DEF QueueTypes, window
      <3> QED BY <3>1, <3>2
    <2>4. Window!Put(packet[t])
      BY <1>3, <2>2, <2>3 DEF Window!Put, window, PushBack
    <2> QED BY <2>1, <2>4 DEF Window!Next
  <1> QED BY <1>1, <1>2, <1>3 DEF Push

LEMMA PopRefines ==
  ASSUME Inv, Pop
  PROVE  [Window!Next]_<<window, taken>>
  <1> USE PacketQueueAssumption DEF Goto, Threads, nullptr, heap
  <1>0. QueueTypes /\ Locked /\ Places /\ Room
    BY DEF Inv
  <1>1. CASE LockPop \/ Front \/ Unlock(Taker) \/ Write \/ LetGo
    BY <1>1 DEF LockPop, Front, Unlock, Write, LetGo, window
  \* Nobody is dropping packets while the taker holds the lock.
  <1>2. ASSUME pc[Taker] \in {"front", "pop"}
        PROVE  spilled = << >> /\ window = q
    <2>1. spilled = << >>
      BY <1>0, <1>2 DEF Locked, Room, Critical
    <2> QED BY <1>0, <2>1, EmptyIsUnit DEF QueueTypes, window
  <1>3. CASE FindEmpty
    <2>1. Window!Get
      BY <1>2, <1>3 DEF FindEmpty, Window!Get, window
    <2> QED BY <2>1 DEF Window!Next
  <1>4. CASE PopFront
    <2>1. window = q /\ window' = Tail(q)
      BY <1>0, <1>2, <1>4, EmptyIsUnit DEF PopFront, QueueTypes, window
    <2>2. q # << >> /\ packet[Taker] = Head(q)
      BY <1>0, <1>4 DEF PopFront, Places, QueueTypes
    <2>3. Window!Get
      BY <1>4, <2>1, <2>2 DEF PopFront, Window!Get, window
    <2> QED BY <2>3 DEF Window!Next
  <1> QED BY <1>1, <1>3, <1>4 DEF Pop

\* The queue with its lock and its loop of deletions is a NewestWindow: the
\* newest packets come out in their order, each once, and none is given up
\* while fewer than MAX_SIZE newer ones wait behind it.
THEOREM ImplementsWindowTheorem == Spec => ImplementsWindow
  <1>1. Init => Window!Init
    <2>1. << >> \o << >> = << >>
      OBVIOUS
    <2> QED BY <2>1 DEF Init, Window!Init
  <1>2. Inv /\ [Next]_vars => [Window!Next]_<<window, taken>>
    <2> SUFFICES ASSUME Inv, [Next]_vars PROVE [Window!Next]_<<window, taken>>
      OBVIOUS
    <2>1. CASE UNCHANGED vars
      BY <2>1 DEF vars, window
    <2>2. ASSUME NEW t \in Pushers, Make(t)
          PROVE  UNCHANGED <<window, taken>>
      BY <2>2 DEF Make, window
    <2> QED BY <2>1, <2>2, PushRefines, PopRefines DEF Next
  <1> QED BY <1>1, <1>2, Invariance, PTL DEF Spec, ImplementsWindow, Window!Spec, window
=============================================================================
