------------------------- MODULE StreamPipelineProofs -------------------------
(***************************************************************************)
(* For any number of agents, clients, slices and pictures: the slot's lock *)
(* keeps the stream thread and the agents apart, so that no picture is     *)
(* copied or deleted after it was deleted, and none is lost; no client     *)
(* joins the list while the stream thread walks through it, and a client   *)
(* gets whole frames; after OFF one frame at most is still sent.  The last *)
(* part is about what the frames are made of: for a body and a slice of    *)
(* any size, Merge undoes Split.                                           *)
(***************************************************************************)
EXTENDS StreamPipeline, XPacket, SequenceTheorems, TLAPS

SlotTypes ==
  /\ apc \in [Agents -> {"status", "draw", "lock", "delete", "assign"}]
  /\ hand \in [Agents -> Nat] /\ pictures \in Nat
  /\ m_cur_hlds_img \in 0 .. pictures /\ freed \subseteq 1 .. pictures

Critical(a) == apc[a] \in {"delete", "assign"}

\* The lock is held by whoever is between lock and unlock, and by one only.
Exclusion ==
  /\ \A a \in Agents : Critical(a) => m_img_set_lock /\ spc # "clone"
  /\ spc = "clone" => m_img_set_lock
  /\ \A a, b \in Agents : Critical(a) /\ Critical(b) => a = b

\* A picture in a hand is nowhere else; the slot's was deleted only while the
\* agent that deleted it is about to put in its own.
Owned ==
  /\ \A a \in Agents :
       IF apc[a] \in {"lock", "delete", "assign"}
         THEN hand[a] \in 1 .. pictures /\ hand[a] \notin freed /\ hand[a] # m_cur_hlds_img
         ELSE hand[a] = nullptr
  /\ \A a, b \in Agents : hand[a] = hand[b] /\ hand[a] # nullptr => a = b
  /\ m_cur_hlds_img \in freed => \E a \in Agents : apc[a] = "assign"
  /\ (\E a \in Agents : apc[a] = "assign") => m_cur_hlds_img \in freed \cup {nullptr}

SlotInv == SlotTypes /\ Exclusion /\ Owned /\ NoImageLeaks

LEMMA SlotInvInit == Init => SlotInv
  BY DEF Init, SlotInv, SlotTypes, Exclusion, Critical, Owned, NoImageLeaks, nullptr

\* What the invariant speaks of, but for the place of the stream thread.
slotVars == <<apc, hand, slot, heap>>

LEMMA SlotFrame ==
  ASSUME SlotInv, UNCHANGED slotVars, spc' = "clone" => spc = "clone"
  PROVE  SlotInv'
  <1> USE DEF slotVars, slot, heap
  <1>1. SlotTypes'
    BY DEF SlotInv, SlotTypes
  <1>2. Exclusion'
    BY DEF SlotInv, Exclusion, Critical
  <1>3. Owned'
    BY DEF SlotInv, Owned
  <1>4. NoImageLeaks'
    BY DEF SlotInv, NoImageLeaks
  <1> QED BY <1>1, <1>2, <1>3, <1>4 DEF SlotInv

LEMMA AgentPreserves ==
  ASSUME NEW a \in Agents, SlotInv, Proc(a)
  PROVE  SlotInv'
  <1> USE DEF slot, heap, Goto
  <1>1. SlotTypes /\ Exclusion /\ Owned /\ NoImageLeaks
    BY DEF SlotInv
  <1>2. spc' = spc
    BY DEF Proc, StatusInfo, DrawNothing, Draw, UpdateHLDSImage, LockSlot, DeleteOld, Delete,
           SetSlot, PutInSlot, stream
  <1>3. CASE StatusInfo(a) \/ DrawNothing(a)
    <2>1. /\ apc[a] \in {"status", "draw"}
          /\ \E to \in {"status", "draw"} : apc' = [apc EXCEPT ![a] = to]
          /\ UNCHANGED <<hand, slot, heap>>
      BY <1>3 DEF StatusInfo, DrawNothing
    <2>2. /\ apc' \in [Agents -> {"status", "draw", "lock", "delete", "assign"}]
          /\ apc'[a] \in {"status", "draw"}
          /\ \A b \in Agents \ {a} : apc'[b] = apc[b]
      BY <1>1, <2>1 DEF SlotTypes
    <2>3. SlotTypes'
      BY <1>1, <2>1, <2>2 DEF SlotTypes
    <2>4. Exclusion'
      BY <1>1, <1>2, <2>1, <2>2 DEF Exclusion, Critical
    <2>5. Owned'
      BY <1>1, <2>1, <2>2 DEF Owned
    <2>6. NoImageLeaks'
      BY <1>1, <2>1 DEF NoImageLeaks
    <2> QED BY <2>3, <2>4, <2>5, <2>6 DEF SlotInv
  <1>4. CASE Draw(a)
    <2>1. /\ apc[a] = "draw" /\ apc' = [apc EXCEPT ![a] = "lock"]
          /\ pictures' = pictures + 1 /\ hand' = [hand EXCEPT ![a] = pictures + 1]
          /\ UNCHANGED <<slot, freed>>
      BY <1>4 DEF Draw
    <2>2. /\ apc'[a] = "lock" /\ \A b \in Agents \ {a} : apc'[b] = apc[b]
          /\ hand'[a] = pictures + 1 /\ \A b \in Agents \ {a} : hand'[b] = hand[b]
          /\ hand[a] = nullptr /\ \A b \in Agents : hand[b] <= pictures
      BY <1>1, <2>1 DEF SlotTypes, Owned, nullptr
    <2>3. SlotTypes'
      BY <1>1, <2>1 DEF SlotTypes
    <2>4. Exclusion'
      BY <1>1, <1>2, <2>1, <2>2 DEF Exclusion, Critical
    <2>5. Owned'
      BY <1>1, <2>1, <2>2 DEF Owned, SlotTypes, nullptr
    <2>6. NoImageLeaks'
      BY <1>1, <2>1, <2>2 DEF NoImageLeaks, SlotTypes, nullptr
    <2> QED BY <2>3, <2>4, <2>5, <2>6 DEF SlotInv
  <1>5. CASE LockSlot(a)
    <2>1. /\ apc[a] = "lock" /\ apc' = [apc EXCEPT ![a] = "delete"]
          /\ ~m_img_set_lock /\ m_img_set_lock' = TRUE
          /\ UNCHANGED <<hand, m_cur_hlds_img, heap>>
      BY <1>5 DEF LockSlot
    <2>2. apc'[a] = "delete" /\ \A b \in Agents \ {a} : apc'[b] = apc[b]
      BY <1>1, <2>1 DEF SlotTypes
    <2>3. SlotTypes'
      BY <1>1, <2>1 DEF SlotTypes
    <2>4. Exclusion'
      BY <1>1, <1>2, <2>1, <2>2 DEF Exclusion, Critical
    <2>5. Owned'
      BY <1>1, <2>1, <2>2 DEF Owned
    <2>6. NoImageLeaks'
      BY <1>1, <2>1 DEF NoImageLeaks
    <2> QED BY <2>3, <2>4, <2>5, <2>6 DEF SlotInv
  <1>6. CASE DeleteOld(a)
    <2>1. /\ apc[a] = "delete" /\ apc' = [apc EXCEPT ![a] = "assign"]
          /\ freed' = freed \cup ({m_cur_hlds_img} \ {nullptr})
          /\ UNCHANGED <<hand, slot, pictures>>
      BY <1>6 DEF DeleteOld, Delete
    <2>2. apc'[a] = "assign" /\ \A b \in Agents \ {a} : apc'[b] = apc[b]
      BY <1>1, <2>1 DEF SlotTypes
    <2>3. SlotTypes'
      BY <1>1, <2>1 DEF SlotTypes, nullptr
    <2>4. Exclusion'
      BY <1>1, <1>2, <2>1, <2>2 DEF Exclusion, Critical
    <2>5. Owned'
      BY <1>1, <2>1, <2>2 DEF Owned
    <2>6. NoImageLeaks'
      BY <1>1, <2>1 DEF NoImageLeaks
    <2> QED BY <2>3, <2>4, <2>5, <2>6 DEF SlotInv
  <1>7. CASE SetSlot(a)
    <2>1. /\ apc[a] = "assign" /\ apc' = [apc EXCEPT ![a] = "status"]
          /\ m_cur_hlds_img' = hand[a] /\ m_img_set_lock' = FALSE
          /\ hand' = [hand EXCEPT ![a] = nullptr]
          /\ UNCHANGED heap
      BY <1>7 DEF SetSlot, PutInSlot
    <2>2. /\ apc'[a] = "status" /\ \A b \in Agents \ {a} : apc'[b] = apc[b]
          /\ hand'[a] = nullptr /\ \A b \in Agents \ {a} : hand'[b] = hand[b]
      BY <1>1, <2>1 DEF SlotTypes
    <2>3. /\ \A b \in Agents : apc'[b] \notin {"delete", "assign"}
          /\ spc' # "clone"
      BY <1>1, <1>2, <2>1, <2>2 DEF Exclusion, Critical
    <2>4. hand[a] \in 1 .. pictures /\ hand[a] \notin freed
          /\ m_cur_hlds_img \in freed \cup {nullptr}
      BY <1>1, <2>1 DEF Owned
    <2>5. SlotTypes'
      BY <1>1, <2>1, <2>4 DEF SlotTypes, nullptr
    <2>6. Exclusion'
      BY <2>3 DEF Exclusion, Critical
    <2>7. Owned'
      BY <1>1, <2>1, <2>2, <2>3, <2>4 DEF Owned, nullptr
    <2>8. NoImageLeaks'
      BY <1>1, <2>1, <2>2, <2>4 DEF NoImageLeaks, nullptr
    <2> QED BY <2>5, <2>6, <2>7, <2>8 DEF SlotInv
  <1> QED BY <1>3, <1>4, <1>5, <1>6, <1>7 DEF Proc, UpdateHLDSImage

LEMMA StreamPreserves == SlotInv /\ Stream => SlotInv'
  <1> SUFFICES ASSUME SlotInv, Stream PROVE SlotInv'
    OBVIOUS
  <1>1. CASE LockImage \/ GetCurImage
    <2>1. UNCHANGED <<apc, hand, m_cur_hlds_img, pictures, freed>>
      BY <1>1 DEF LockImage, GetCurImage, agents, heap
    <2>2. SlotTypes'
      BY <2>1 DEF SlotInv, SlotTypes
    <2>3. Exclusion'
      BY <1>1, <2>1 DEF SlotInv, Exclusion, Critical, LockImage, GetCurImage
    <2>4. Owned'
      BY <2>1 DEF SlotInv, Owned
    <2>5. NoImageLeaks'
      BY <2>1 DEF SlotInv, NoImageLeaks
    <2> QED BY <2>2, <2>3, <2>4, <2>5 DEF SlotInv
  <1>2. CASE GetStreamStatus \/ StreamHLDSClients
    BY <1>2, SlotFrame
    DEF GetStreamStatus, Begin, StreamHLDSClients, LockClients, NextClient, PushSendPacket,
        PushUpTo, UnlockClients, agents, slotVars
  <1> QED BY <1>1, <1>2 DEF Stream

LEMMA SlotInvNext == SlotInv /\ [Next]_vars => SlotInv'
  <1> SUFFICES ASSUME SlotInv, [Next]_vars PROVE SlotInv'
    OBVIOUS
  <1>1. CASE \E onoff \in 0 .. 2 : SetStreamStatus(onoff)
    BY <1>1, SlotFrame DEF SetStreamStatus, agents, stream, slotVars
  <1>2. ASSUME NEW c \in Clients, AddClient(c) \/ Die(c) PROVE SlotInv'
    BY <1>2, SlotFrame DEF AddClient, PushBack, Die, agents, stream, slotVars
  <1>3. ASSUME NEW a \in Agents, SetRunFlag(a) PROVE SlotInv'
    BY <1>3, SlotFrame DEF SetRunFlag, agents, stream, slotVars
  <1>4. CASE UNCHANGED vars
    BY <1>4, SlotFrame DEF vars, agents, stream, slotVars
  <1> QED BY <1>1, <1>2, <1>3, <1>4, AgentPreserves, StreamPreserves DEF Next

\* The slot's picture is alive whenever it is copied or deleted
\* (agent_broker.cpp:350-373).
THEOREM SlotIsAliveTheorem == Spec => []SlotIsAlive
  <1>1. SlotInv => SlotIsAlive
    BY DEF SlotInv, Exclusion, Critical, Owned, SlotIsAlive
  <1> QED BY <1>1, SlotInvInit, SlotInvNext, PTL DEF Spec

\* Every picture is in the slot, in a hand or deleted (agent_broker.cpp:354-357).
THEOREM NoImageLeaksTheorem == Spec => []NoImageLeaks
  <1>1. SlotInv => NoImageLeaks
    BY DEF SlotInv
  <1> QED BY <1>1, SlotInvInit, SlotInvNext, PTL DEF Spec

-----------------------------------------------------------------------------

\* The list is locked from its first client to the last.
WalkLocked == spc \in {"client", "push"} => m_agent_clients_lock

LEMMA WalkLockedNext == WalkLocked /\ [Next]_vars => WalkLocked'
  <1> SUFFICES ASSUME WalkLocked, [Next]_vars PROVE WalkLocked'
    OBVIOUS
  <1> USE DEF WalkLocked
  <1>1. CASE Stream
    BY <1>1
    DEF Stream, GetStreamStatus, Begin, LockImage, GetCurImage, StreamHLDSClients,
        LockClients, NextClient, PushSendPacket, PushUpTo, UnlockClients
  <1>2. CASE UNCHANGED stream
    BY <1>2 DEF stream
  <1>3. Stream \/ UNCHANGED stream
    BY DEF Next, SetStreamStatus, AddClient, PushBack, Die, SetRunFlag, Proc, StatusInfo,
           DrawNothing, Draw, UpdateHLDSImage, LockSlot, DeleteOld, Delete, SetSlot,
           PutInSlot, vars
  <1> QED BY <1>1, <1>2, <1>3

\* No client joins while the stream thread walks through the list
\* (agent_broker.cpp:74-80 against 388-399).
THEOREM WalkUndisturbedTheorem == Spec => WalkUndisturbed
  <1>1. Init => WalkLocked
    BY DEF Init, WalkLocked
  <1>2. WalkLocked /\ [Next]_vars
          => [m_clients' # m_clients => spc \notin {"client", "push"}]_vars
    <2> SUFFICES ASSUME WalkLocked, [Next]_vars, m_clients' # m_clients
                 PROVE  spc \notin {"client", "push"}
      OBVIOUS
    <2>1. PICK c \in Clients : AddClient(c)
      BY DEF Next, SetStreamStatus, Die, SetRunFlag, Proc, StatusInfo, DrawNothing, Draw,
             UpdateHLDSImage, LockSlot, DeleteOld, Delete, SetSlot, PutInSlot, Stream,
             GetStreamStatus, Begin, LockImage, GetCurImage, StreamHLDSClients, LockClients,
             NextClient, PushSendPacket, PushUpTo, UnlockClients, clients, vars
    <2> QED BY <2>1 DEF AddClient, WalkLocked
  <1> QED BY <1>1, <1>2, WalkLockedNext, PTL DEF Spec, WalkUndisturbed
-----------------------------------------------------------------------------

\* Only the frame whose turn began before OFF comes after it.
LateInv ==
  /\ late \in {0, 1}
  /\ m_stream_onoff # 0 => late = 0
  /\ late = 1 => spc \notin {"lock", "clone", "slices"}
  /\ m_stream_onoff \in Nat

LEMMA LateInvNext == LateInv /\ [Next]_vars => LateInv'
  <1> SUFFICES ASSUME LateInv, [Next]_vars PROVE LateInv'
    OBVIOUS
  <1> USE DEF LateInv, switches
  <1>1. CASE \E onoff \in 0 .. 2 : SetStreamStatus(onoff)
    BY <1>1 DEF SetStreamStatus, stream
  <1>2. CASE Stream
    BY <1>2
    DEF Stream, GetStreamStatus, Begin, LockImage, GetCurImage, StreamHLDSClients,
        LockClients, NextClient, PushSendPacket, PushUpTo, UnlockClients
  <1>3. CASE UNCHANGED <<m_stream_onoff, stream, late>>
    BY <1>3 DEF stream
  <1>4. \/ \E onoff \in 0 .. 2 : SetStreamStatus(onoff)
        \/ Stream
        \/ UNCHANGED <<m_stream_onoff, stream, late>>
    BY DEF Next, AddClient, PushBack, Die, SetRunFlag, Proc, StatusInfo, DrawNothing, Draw,
           UpdateHLDSImage, LockSlot, DeleteOld, Delete, SetSlot, PutInSlot, vars
  <1> QED BY <1>1, <1>2, <1>3, <1>4

\* After OFF at most one frame is sent (stream_hlds.cpp:17-30).
THEOREM OffStopsTheorem == Spec => []OffStops
  <1>1. Init => LateInv
    BY DEF Init, LateInv
  <1>2. LateInv => OffStops
    BY DEF LateInv, OffStops
  <1> QED BY <1>1, <1>2, LateInvNext, PTL DEF Spec

-----------------------------------------------------------------------------

\* Between two slices of a frame the client that is pushed to has the slices
\* before; every other client has a whole frame, or none.
AtClient(c) == spc = "push" /\ k > 1 /\ c = m_clients[i]

FrameInv ==
  /\ k \in 1 .. Slices /\ (spc # "push" => k = 1)
  /\ DOMAIN got = Clients
  /\ \A c \in Clients :
       IF AtClient(c) THEN got[c] = <<cur_img, k - 1>> ELSE got[c][2] = Slices

\* The part of the state that slices are pushed from.
pushing == <<m_clients, spc, cur_img, i, k, got>>

LEMMA FrameInvPush ==
  ASSUME FrameInv, PushSendPacket
  PROVE  /\ FrameInv'
         /\ \A c \in Clients :
              got'[c] # got[c] =>
                IF got[c][2] < Slices THEN got'[c] = <<got[c][1], got[c][2] + 1>>
                                      ELSE got'[c][2] = 1
  <1> DEFINE here == m_clients[i]
  <1>1. /\ spc = "push" /\ got' = [got EXCEPT ![here] = <<cur_img, k>>]
        /\ UNCHANGED <<m_clients, cur_img>>
        /\ IF k < Slices
             THEN k' = k + 1 /\ UNCHANGED <<spc, i>>
             ELSE k' = 1 /\ i' = i + 1 /\ spc' = "client"
    BY DEF PushSendPacket, PushUpTo, clients
  <1>2. k \in 1 .. Slices /\ Slices \in Nat \ {0} /\ DOMAIN got = Clients
    BY StreamPipelineAssumption DEF FrameInv
  <1>3. ASSUME NEW c \in Clients
        PROVE  got'[c] = IF c = here THEN <<cur_img, k>> ELSE got[c]
    BY <1>1, <1>2
  <1>4. ASSUME NEW c \in Clients
        PROVE  /\ c = here /\ k > 1 => got[c] = <<cur_img, k - 1>>
               /\ ~(c = here /\ k > 1) => got[c][2] = Slices
    BY <1>1 DEF FrameInv, AtClient
  <1> HIDE DEF here
  <1>5. FrameInv'
    <2>1. CASE k < Slices
      <3>1. k' \in 1 .. Slices /\ spc' = "push" /\ k' > 1 /\ k' - 1 = k /\ cur_img' = cur_img
        BY <1>1, <1>2, <2>1
      <3>2. m_clients'[i'] = here
        BY <1>1, <2>1 DEF here
      <3>3. ASSUME NEW c \in Clients
            PROVE  IF c = here THEN got'[c] = <<cur_img, k>> ELSE got'[c][2] = Slices
        BY <1>3, <1>4
      <3> QED BY <1>1, <1>2, <3>1, <3>2, <3>3 DEF FrameInv, AtClient
    <2>2. CASE ~(k < Slices)
      <3>1. k = Slices /\ k' = 1 /\ spc' = "client"
        BY <1>1, <1>2, <2>2
      <3>2. ASSUME NEW c \in Clients PROVE got'[c][2] = Slices
        BY <1>3, <1>4, <3>1
      <3> QED BY <1>1, <1>2, <3>1, <3>2 DEF FrameInv, AtClient
    <2> QED BY <2>1, <2>2
  <1>6. ASSUME NEW c \in Clients, got'[c] # got[c]
        PROVE  IF got[c][2] < Slices THEN got'[c] = <<got[c][1], got[c][2] + 1>>
                                     ELSE got'[c][2] = 1
    <2>1. c = here /\ got'[c] = <<cur_img, k>>
      BY <1>3, <1>6
    <2>2. CASE k > 1
      <3>1. got[c] = <<cur_img, k - 1>> /\ k - 1 < Slices
        BY <1>2, <1>4, <2>1, <2>2
      <3> QED BY <1>2, <2>1, <3>1
    <2>3. CASE k = 1
      <3>1. got[c][2] = Slices
        BY <1>4, <2>1, <2>3
      <3> QED BY <1>2, <2>1, <2>3, <3>1
    <2> QED BY <1>2, <2>2, <2>3
  <1> QED BY <1>5, <1>6

LEMMA FrameInvRest ==
  ASSUME WalkLocked, FrameInv, [Next]_vars, ~PushSendPacket
  PROVE  FrameInv' /\ got' = got
  <1>1. CASE UNCHANGED pushing
    BY <1>1 DEF pushing, FrameInv, AtClient
  <1>2. CASE spc # "push" /\ UNCHANGED <<got, k>>
    <2>1. k = 1 /\ DOMAIN got = Clients /\ \A c \in Clients : got[c][2] = Slices
      BY <1>2 DEF FrameInv, AtClient
    <2> QED BY <1>2, <2>1 DEF FrameInv, AtClient
  <1>3. CASE Stream
    BY <1>2, <1>3
    DEF Stream, GetStreamStatus, Begin, LockImage, GetCurImage, StreamHLDSClients,
        LockClients, NextClient, UnlockClients
  <1>4. ASSUME NEW c \in Clients, AddClient(c) PROVE FrameInv' /\ got' = got
    BY <1>2, <1>4 DEF AddClient, PushBack, WalkLocked, stream
  <1>5. Stream \/ (\E c \in Clients : AddClient(c)) \/ UNCHANGED pushing
    BY DEF Next, SetStreamStatus, Die, SetRunFlag, Proc, StatusInfo, DrawNothing, Draw,
           UpdateHLDSImage, LockSlot, DeleteOld, Delete, SetSlot, PutInSlot, clients, stream,
           vars, pushing
  <1> QED BY <1>1, <1>3, <1>4, <1>5

\* The slices a client gets make whole frames (agent_broker.cpp:388-399).
THEOREM WholeFramesTheorem == Spec => WholeFrames
  <1>1. Init => WalkLocked /\ FrameInv
    BY StreamPipelineAssumption DEF Init, WalkLocked, FrameInv, AtClient, NoSlice
  <1>2. WalkLocked /\ FrameInv /\ [Next]_vars => (WalkLocked /\ FrameInv)'
    BY WalkLockedNext, FrameInvPush, FrameInvRest
  <1>3. WalkLocked /\ FrameInv /\ [Next]_vars
          => [\A c \in Clients :
                got'[c] # got[c] =>
                  IF got[c][2] < Slices THEN got'[c] = <<got[c][1], got[c][2] + 1>>
                                        ELSE got'[c][2] = 1]_vars
    BY FrameInvPush, FrameInvRest
  <1> QED BY <1>1, <1>2, <1>3, PTL DEF Spec, WholeFrames
-----------------------------------------------------------------------------
(* The packets.  What the stream thread pushes are the slices that Split   *)
(* makes of a packet of the picture; XPacket is the module that describes  *)
(* them, here for any body, any split size and any width of the slice      *)
(* counter.                                                                *)

Packet == [size : Nat, pos : Nat, data : Seq(Nat), packed : Nat, index : Nat, total : Nat]

\* The packet that is cut, and the size of the slices.
Cuttable ==
  /\ org \in Packet
  /\ org.packed = Len(org.data) + OVERHEAD
  /\ split_size \in Nat /\ split_size > OVERHEAD

\* How much of the body the first n slices hold.
Cut(n) == Least(split_body_size * n, total_body_size)

\* Slice n holds the bytes from one cut to the next.
IsSlice(n, p) ==
  /\ p \in Packet
  /\ p.data = SubSeq(org.data, Cut(n - 1) + 1, Cut(n))
  /\ p.packed = Cut(n) - Cut(n - 1) + OVERHEAD

CutUp ==
  /\ slices \in Seq(Packet) /\ Len(slices) <= total_slices
  /\ \A n \in 1 .. Len(slices) : IsSlice(n, slices[n])
  /\ slice \in Nat
  /\ pc = "split" => slice = Len(slices) /\ pos = Cut(slice)
  /\ pc \in {"length", "merge"} => slice <= Len(slices)
  /\ pc = "length" => slices # << >>
  /\ pc # "split" => Len(slices) = total_slices

\* merged holds the body up to a cut.
Joined(n) ==
  /\ merged \in Packet
  /\ merged.size = Cut(Len(slices)) + OVERHEAD
  /\ merged.data = SubSeq(org.data, 1, Cut(n))

JoinedUp ==
  /\ pc \in {"split", "length", "merge"} => read = << >>
  /\ pc = "length" => length = Cut(slice)
  /\ pc = "merge" => Joined(slice) /\ merged.pos = Cut(slice) + XPACKET_HEADER_SIZE
  /\ pc \in {"merged", "read"} => Joined(Len(slices)) /\ merged.packed = merged.size
  /\ pc = "merged" => read = << >> /\ merged.pos = merged.packed - XPACKET_TAIL_SIZE
  /\ pc = "read" =>
       /\ merged.pos >= XPACKET_HEADER_SIZE
       /\ merged.pos <= merged.packed - XPACKET_TAIL_SIZE
       /\ read = SubSeq(org.data, 1, merged.pos - XPACKET_HEADER_SIZE)

CutInv == Cuttable /\ CutUp /\ JoinedUp

\* Division.
LEMMA DivNat ==
  ASSUME NEW n \in Nat, NEW m \in Nat \ {0}
  PROVE  n \div m >= 0
  OBVIOUS

LEMMA DivMod ==
  ASSUME NEW n \in Nat, NEW m \in Nat \ {0}
  PROVE  /\ n \div m \in Nat /\ n % m \in 0 .. m - 1
         /\ n = m * (n \div m) + (n % m)
         /\ n % m <= n
         /\ n < m => n % m = n
  <1>1. PICK q : q = n \div m
    OBVIOUS
  <1>2. PICK r : r = n % m
    OBVIOUS
  <1>3. q \in Int /\ r \in 0 .. m - 1 /\ n = m * q + r
    BY <1>1, <1>2
  <1>4. q >= 0
    BY <1>1, DivNat
  <1>5. m * q >= 0
    BY <1>3, <1>4
  <1>6. n < m => q = 0
    <2>1. q >= 1 => m * q >= m
      BY <1>3
    <2> QED BY <1>3, <1>4, <2>1
  <1>7. q \in Nat /\ r <= n /\ (n < m => r = n)
    <2>1. q = 0 => m * q = 0
      BY <1>3
    <2>2. PICK a \in Nat : a = m * q
      BY <1>3, <1>5
    <2> QED BY <1>3, <1>4, <1>6, <2>1, <2>2
  <1> QED BY <1>1, <1>2, <1>3, <1>7

LEMMA Grows ==
  ASSUME NEW m \in Nat, NEW a \in Nat, NEW b \in Nat, a <= b
  PROVE  m * a \in Nat /\ m * a <= m * b /\ m * (a + 1) = m * a + m /\ m * 0 = 0
  OBVIOUS

\* The names of the sizes, once what is cut is known.
LEMMA Sizes ==
  ASSUME Cuttable, XPacketAssumption
  PROVE  /\ total_body_size = Len(org.data) /\ total_body_size \in Nat
         /\ split_body_size \in Nat \ {0}
         /\ split_size = split_body_size + OVERHEAD
         /\ org.data \in Seq(Nat)
         /\ WORD \in Nat \ {0}
  BY DEF Cuttable, Packet, XPacketAssumption, total_body_size, split_body_size,
         BodySize, OVERHEAD, XPACKET_HEADER_SIZE, XPACKET_TAIL_SIZE

\* Where the cuts are: they start at 0, never go back, are one slice apart
\* until the end, and the slices needed reach the end.
LEMMA Cuts ==
  ASSUME Cuttable, XPacketAssumption
  PROVE  /\ \A n \in Nat : Cut(n) \in 0 .. Len(org.data) /\ Cut(n) \in Nat
         /\ \A n, m \in Nat : n <= m => Cut(n) <= Cut(m)
         /\ \A n \in Nat : Cut(n + 1) <= Cut(n) + split_body_size
         /\ Cut(0) = 0
         /\ Needed \in Nat /\ Cut(Needed) = Len(org.data)
         /\ \A n \in Nat : n < Needed =>
              /\ Cut(n) = split_body_size * n
              /\ Cut(n + 1) = Cut(n) + Least(split_body_size, total_body_size - split_body_size * n)
  <1>1. PICK T \in Nat : T = total_body_size /\ T = Len(org.data)
    BY Sizes
  <1>2. PICK S \in Nat \ {0} : S = split_body_size
    BY Sizes
  <1>3. \A n : Cut(n) = IF S * n <= T THEN S * n ELSE T
    BY <1>1, <1>2 DEF Cut, Least
  <1>4. \A n, m \in Nat : n <= m => S * n \in Nat /\ S * n <= S * m
    BY Grows
  <1>5. \A n \in Nat : S * (n + 1) = S * n + S /\ S * 0 = 0
    BY Grows
  <1>6. PICK q \in Nat, r \in 0 .. S - 1 :
          q = T \div S /\ r = T % S /\ T = S * q + r
    BY DivMod
  <1>7. Needed = IF r = 0 THEN q ELSE q + 1
    BY <1>1, <1>2, <1>6 DEF Needed
  <1>8. \A n \in Nat : n < Needed => S * n < T
    <2> SUFFICES ASSUME NEW n \in Nat, n < Needed PROVE S * n < T
      OBVIOUS
    <2>1. CASE r = 0
      <3>1. S * (n + 1) <= S * q
        BY <1>4, <1>7, <2>1
      <3>2. S * n \in Nat /\ S * (n + 1) = S * n + S
        BY <1>4, <1>5
      <3> QED BY <1>6, <2>1, <3>1, <3>2
    <2>2. CASE r # 0
      <3>1. S * n <= S * q /\ S * n \in Nat /\ S * q \in Nat
        BY <1>4, <1>7, <2>2
      <3> QED BY <1>6, <2>2, <3>1
    <2> QED BY <2>1, <2>2
  <1>9. Needed \in Nat /\ S * Needed >= T
    <2>1. S * q \in Nat /\ S * (q + 1) = S * q + S
      BY <1>4, <1>5
    <2> QED BY <1>6, <1>7, <2>1
  <1>10. \A n \in Nat : Cut(n) \in 0 .. Len(org.data)
    BY <1>1, <1>3, <1>4
  <1>11. \A n, m \in Nat : n <= m => Cut(n) <= Cut(m)
    <2> SUFFICES ASSUME NEW n \in Nat, NEW m \in Nat, n <= m PROVE Cut(n) <= Cut(m)
      OBVIOUS
    <2>1. PICK a \in Nat, b \in Nat : a = S * n /\ b = S * m /\ a <= b
      BY <1>4
    <2> QED BY <1>3, <2>1
  <1>12. \A n \in Nat : Cut(n + 1) <= Cut(n) + S
    <2> SUFFICES ASSUME NEW n \in Nat PROVE Cut(n + 1) <= Cut(n) + S
      OBVIOUS
    <2>1. PICK a \in Nat : a = S * n /\ S * (n + 1) = a + S
      BY <1>4, <1>5
    <2> QED BY <1>3, <2>1
  <1>13. Cut(0) = 0 /\ Cut(Needed) = T
    <2>1. PICK a \in Nat : a = S * Needed
      BY <1>4, <1>9
    <2> QED BY <1>3, <1>5, <1>9, <2>1
  <1>14. ASSUME NEW n \in Nat, n < Needed
         PROVE  /\ Cut(n) = S * n
                /\ Cut(n + 1) = Cut(n) + Least(S, T - S * n)
    <2>1. PICK a \in Nat : a = S * n /\ S * (n + 1) = a + S /\ a < T
      BY <1>4, <1>5, <1>8, <1>14
    <2>2. Cut(n) = a /\ Cut(n + 1) = IF a + S <= T THEN a + S ELSE T
      BY <1>3, <2>1
    <2>3. Least(S, T - S * n) = IF S <= T - a THEN S ELSE T - a
      BY <2>1 DEF Least
    <2> QED BY <2>1, <2>2, <2>3
  <1>15. \A n \in Nat : Cut(n) \in 0 .. Len(org.data) /\ Cut(n) \in Nat
    BY <1>1, <1>10
  <1>16. \A n \in Nat : Cut(n + 1) <= Cut(n) + split_body_size
    BY <1>2, <1>12
  <1>17. \A n \in Nat : n < Needed =>
           /\ Cut(n) = split_body_size * n
           /\ Cut(n + 1) = Cut(n) + Least(split_body_size, total_body_size - split_body_size * n)
    BY <1>1, <1>2, <1>14
  <1>18. Cut(0) = 0 /\ Needed \in Nat /\ Cut(Needed) = Len(org.data)
    BY <1>1, <1>9, <1>13
  <1> QED BY <1>11, <1>15, <1>16, <1>17, <1>18

\* PushMem into a packet with room.
LEMMA PushFits ==
  ASSUME NEW p \in Packet, NEW mem \in Seq(Nat), Fits(p, Len(mem))
  PROVE  /\ PushMem(p, mem) \in Packet
         /\ PushMem(p, mem).data = p.data \o mem
         /\ PushMem(p, mem).pos = p.pos + Len(mem)
         /\ PushMem(p, mem).size = p.size
  <1>1. PICK d \in Seq(Nat), n \in Nat : d = p.data \o mem /\ n = p.pos + Len(mem)
    <2>1. p.data \in Seq(Nat) /\ p.pos \in Nat /\ Len(mem) \in Nat
      BY DEF Packet
    <2>2. p.data \o mem \in Seq(Nat)
      BY <2>1, ConcatProperties
    <2>3. p.pos + Len(mem) \in Nat
      BY <2>1
    <2> QED BY <2>2, <2>3
  <1>2. PICK r : r = [p EXCEPT !.data = d, !.pos = n]
    OBVIOUS
  <1>3. PushMem(p, mem) = r
    BY <1>1, <1>2 DEF PushMem
  <1>4. r \in Packet /\ r.data = d /\ r.pos = n /\ r.size = p.size
    BY <1>2 DEF Packet
  <1> QED BY <1>1, <1>3, <1>4

LEMMA PackFields ==
  ASSUME NEW p \in Packet
  PROVE  /\ Pack(p) \in Packet /\ Pack(p).packed = p.pos + XPACKET_TAIL_SIZE
         /\ Pack(p).data = p.data /\ Pack(p).size = p.size /\ Pack(p).pos = p.pos
  BY DEF Packet, Pack, XPACKET_TAIL_SIZE

\* A new packet with the header of a slice.
Headed(n, a, b) == [New(n) EXCEPT !.index = a, !.total = b]

LEMMA NewFields ==
  ASSUME NEW n \in Nat, NEW a \in Nat, NEW b \in Nat
  PROVE  /\ Headed(n, a, b) \in Packet /\ Headed(n, a, b).data = << >>
         /\ Headed(n, a, b).size = n
         /\ Headed(n, a, b).pos = XPACKET_HEADER_SIZE
  <1>1. << >> \in Seq(Nat)
    OBVIOUS
  <1> QED BY <1>1 DEF Headed, Packet, New, XPACKET_HEADER_SIZE

\* A part of the body.
LEMMA Part ==
  ASSUME NEW s \in Seq(Nat), NEW a \in 0 .. Len(s), NEW b \in a .. Len(s)
  PROVE  /\ SubSeq(s, a + 1, b) \in Seq(Nat) /\ Len(SubSeq(s, a + 1, b)) = b - a
         /\ SubSeq(s, 1, a) \o SubSeq(s, a + 1, b) = SubSeq(s, 1, b)
  <1>1. PICK n \in Nat : n = Len(s)
    OBVIOUS
  <1>2. PICK c \in Nat : c = a + 1
    <2>1. a + 1 \in Nat
      OBVIOUS
    <2> QED BY <2>1
  <1>3. \A j \in c .. b : s[j] \in Nat
    BY <1>1, <1>2
  <1>4. /\ SubSeq(s, c, b) \in Seq(Nat)
        /\ Len(SubSeq(s, c, b)) = IF c <= b THEN b - c + 1 ELSE 0
    BY <1>2, <1>3, SubSeqProperties
  <1>5. (IF c <= b THEN b - c + 1 ELSE 0) = b - a
    BY <1>2
  <1>6. SubSeq(s, 1, a) \o SubSeq(s, a + 1, b) = SubSeq(s, 1, b)
    <2>1. 1 \in 1 .. Len(s) + 1 /\ a \in 1 - 1 .. Len(s) /\ b \in a .. Len(s)
      OBVIOUS
    <2> QED BY <2>1, ConcatAdjacentSubSeq
  <1> QED BY <1>2, <1>4, <1>5, <1>6

\* The slice counter does not wrap while slices are cut.
LEMMA SliceCount ==
  ASSUME Cuttable, XPacketAssumption
  PROVE  /\ total_slices \in Nat /\ total_slices <= Needed
         /\ Needed < WORD => total_slices = Needed
         /\ \A n \in Nat : n < total_slices => (n + 1) % WORD = n + 1
  <1>1. PICK W \in Nat \ {0} : W = WORD
    BY Sizes
  <1>2. PICK N \in Nat : N = Needed
    BY Cuts
  <1>3. PICK t \in Nat : t = total_slices /\ t < W /\ t <= N /\ (N < W => t = N)
    <2>1. N % W \in 0 .. W - 1 /\ N % W <= N /\ (N < W => N % W = N)
      BY DivMod
    <2> QED BY <1>1, <1>2, <2>1 DEF total_slices
  <1>4. \A n \in Nat : n < t => (n + 1) % W = n + 1
    <2> SUFFICES ASSUME NEW n \in Nat, n < t PROVE (n + 1) % W = n + 1
      OBVIOUS
    <2>1. PICK m \in Nat : m = n + 1 /\ m < W
      BY <1>3
    <2> QED BY <2>1, DivMod
  <1> QED BY <1>1, <1>2, <1>3, <1>4

LEMMA CutInvInit == XPacketAssumption /\ XPacketInit => CutInv
  <1> SUFFICES ASSUME XPacketAssumption, XPacketInit PROVE CutInv
    OBVIOUS
  <1>1. PICK len \in Lengths :
          org = Pack(PushMem(New(len + OVERHEAD), Body(len)))
    BY DEF XPacketInit
  <1>2. len \in Nat
    BY DEF XPacketAssumption
  <1>3. Body(len) \in Seq(Nat) /\ Len(Body(len)) = len
    BY <1>2 DEF Body
  <1>4. PICK new \in Packet :
          /\ new = New(len + OVERHEAD) /\ new.data = << >>
          /\ new.size = len + OVERHEAD /\ new.pos = XPACKET_HEADER_SIZE
    <2>1. << >> \in Seq(Nat)
      OBVIOUS
    <2>2. PICK n \in Nat : n = len + OVERHEAD
      BY <1>2 DEF OVERHEAD, XPACKET_HEADER_SIZE, XPACKET_TAIL_SIZE
    <2>3. /\ New(n) \in Packet /\ New(n).data = << >> /\ New(n).size = n
          /\ New(n).pos = XPACKET_HEADER_SIZE
      BY <2>1 DEF Packet, New, XPACKET_HEADER_SIZE
    <2> QED BY <2>2, <2>3
  <1>5. Fits(new, Len(Body(len)))
    BY <1>2, <1>3, <1>4
    DEF Fits, OVERHEAD, XPACKET_HEADER_SIZE, XPACKET_TAIL_SIZE
  <1>6. PICK full \in Packet :
          /\ full = PushMem(new, Body(len))
          /\ full.data = Body(len) /\ full.pos = XPACKET_HEADER_SIZE + len
    <2>1. << >> \o Body(len) = Body(len)
      BY <1>3, ConcatEmptySeq
    <2>2. PICK full \in Packet :
            /\ full = PushMem(new, Body(len))
            /\ full.data = new.data \o Body(len)
            /\ full.pos = new.pos + Len(Body(len))
      BY <1>3, <1>5, PushFits
    <2> QED BY <1>3, <1>4, <2>1, <2>2
  <1>7. Cuttable
    <2>1. /\ org \in Packet /\ org.data = Body(len)
          /\ org.packed = XPACKET_HEADER_SIZE + len + XPACKET_TAIL_SIZE
      BY <1>1, <1>4, <1>6, PackFields
    <2>2. org.packed = Len(org.data) + OVERHEAD
      BY <1>2, <1>3, <2>1 DEF OVERHEAD, XPACKET_HEADER_SIZE, XPACKET_TAIL_SIZE
    <2>3. split_size \in Nat /\ split_size > OVERHEAD
      BY DEF XPacketInit, XPacketAssumption
    <2> QED BY <2>1, <2>2, <2>3 DEF Cuttable
  <1>8. CutUp
    <2>1. Cut(0) = 0 /\ total_slices \in Nat
      BY <1>7, Cuts, SliceCount
    <2>2. slices = << >> /\ slice = 0 /\ pos = 0 /\ pc = "split"
      BY DEF XPacketInit
    <2>3. slices \in Seq(Packet) /\ Len(slices) = 0
      BY <2>2
    <2> QED BY <2>1, <2>2, <2>3 DEF CutUp
  <1>9. JoinedUp
    BY DEF JoinedUp, XPacketInit
  <1> QED BY <1>7, <1>8, <1>9 DEF CutInv

LEMMA SplitStep == XPacketAssumption /\ CutInv /\ SplitOne => CutInv'
  <1> SUFFICES ASSUME XPacketAssumption, CutInv, SplitOne PROVE CutInv'
    OBVIOUS
  <1>1. Cuttable /\ CutUp /\ JoinedUp
    BY DEF CutInv
  <1>2. PICK S \in Nat \ {0} : S = split_body_size /\ split_size = S + OVERHEAD
    BY <1>1, Sizes
  <1>3. PICK j \in Nat : j = slice /\ j = Len(slices) /\ pos = Cut(j)
    BY <1>1 DEF CutUp, SplitOne
  <1>4. j < total_slices /\ total_slices <= Needed /\ total_slices \in Nat
        /\ Needed \in Nat /\ (j + 1) % WORD = j + 1
    BY <1>1, <1>3, SliceCount, Cuts DEF SplitOne
  <1>5. PICK a \in 0 .. Len(org.data), b \in 0 .. Len(org.data) :
          /\ b \in a .. Len(org.data)
          /\ a = Cut(j) /\ b = Cut(j + 1) /\ b = a + cp_len /\ b - a <= S
    <2>1. PICK a \in 0 .. Len(org.data), b \in 0 .. Len(org.data) :
            a = Cut(j) /\ b = Cut(j + 1) /\ a <= b /\ b <= a + S
      <3>1. j + 1 \in Nat /\ j <= j + 1
        OBVIOUS
      <3>2. Cut(j) \in 0 .. Len(org.data) /\ Cut(j + 1) \in 0 .. Len(org.data)
        BY <1>1, <3>1, Cuts
      <3>3. Cut(j) <= Cut(j + 1) /\ Cut(j + 1) <= Cut(j) + S
        BY <1>1, <1>2, <3>1, Cuts
      <3> QED BY <3>2, <3>3
    <2>2. Cut(j + 1) = Cut(j) + Least(split_body_size,
                                       total_body_size - split_body_size * j)
      BY <1>1, <1>4, Cuts
    <2>3. b = a + cp_len
      BY <1>3, <2>1, <2>2 DEF cp_len
    <2>4. b \in a .. Len(org.data) /\ b - a <= S
      BY <2>1
    <2> QED BY <2>1, <2>3, <2>4
  <1>6. PICK m : m = SubSeq(org.data, a + 1, b)
    OBVIOUS
  <1>7. m \in Seq(Nat) /\ Len(m) = b - a
    <2>1. org.data \in Seq(Nat)
      BY <1>1 DEF Cuttable, Packet
    <2> QED BY <1>5, <1>6, <2>1, Part
  <1>8. PICK head \in Packet :
          /\ head = Headed(split_size, slice, total_slices)
          /\ head.data = << >> /\ head.size = split_size
          /\ head.pos = XPACKET_HEADER_SIZE
    <2>1. split_size \in Nat /\ slice \in Nat /\ total_slices \in Nat
      BY <1>1, <1>3, <1>4 DEF Cuttable
    <2> QED BY <2>1, NewFields
  <1>9. Fits(head, Len(m))
    <2>1. PICK l \in Nat : l = Len(m) /\ l <= S
      BY <1>5, <1>7
    <2>2. head.pos + l <= head.size - XPACKET_TAIL_SIZE
      BY <1>2, <1>8, <2>1 DEF OVERHEAD, XPACKET_HEADER_SIZE, XPACKET_TAIL_SIZE
    <2> QED BY <2>1, <2>2 DEF Fits
  <1>10. PICK full \in Packet :
           /\ full = PushMem(head, m) /\ full.data = m
           /\ full.pos = XPACKET_HEADER_SIZE + (b - a)
    <2>1. << >> \o m = m
      BY <1>7, ConcatEmptySeq
    <2>2. PICK full \in Packet :
            /\ full = PushMem(head, m) /\ full.data = head.data \o m
            /\ full.pos = head.pos + Len(m)
      BY <1>7, <1>9, PushFits
    <2> QED BY <1>7, <1>8, <2>1, <2>2
  <1>11. PICK p \in Packet :
           /\ p = Pack(full) /\ p.data = m
           /\ p.packed = XPACKET_HEADER_SIZE + (b - a) + XPACKET_TAIL_SIZE
    BY <1>10, PackFields
  <1>12. /\ slices' = Append(slices, p) /\ pos' = b /\ slice' = j + 1
         /\ UNCHANGED <<pc, org, split_size, length, merged, read>> /\ pc = "split"
    BY <1>3, <1>4, <1>5, <1>6, <1>8, <1>10, <1>11 DEF SplitOne, Headed
  <1>13. /\ Cuttable' /\ total_slices' = total_slices
         /\ \A n : Cut(n)' = Cut(n)
    BY <1>1, <1>12 DEF Cuttable, Cut, total_slices, Needed, total_body_size,
                       split_body_size
  <1>14. IsSlice(j + 1, p)
    <2>1. p.packed = b - a + OVERHEAD
      BY <1>5, <1>11 DEF OVERHEAD, XPACKET_HEADER_SIZE, XPACKET_TAIL_SIZE
    <2>2. j + 1 - 1 = j
      OBVIOUS
    <2>3. Cut(j + 1 - 1) = a
      BY <1>5, <2>2
    <2>4. p.data = SubSeq(org.data, Cut(j + 1 - 1) + 1, Cut(j + 1))
      BY <1>5, <1>6, <1>11, <2>3
    <2>5. p.packed = Cut(j + 1) - Cut(j + 1 - 1) + OVERHEAD
      BY <1>5, <2>1, <2>3
    <2> QED BY <1>11, <2>4, <2>5 DEF IsSlice
  <1>15. CutUp'
    <2>1. /\ slices' \in Seq(Packet) /\ Len(slices') = j + 1
          /\ slices'[j + 1] = p /\ \A n \in 1 .. j : slices'[n] = slices[n]
      BY <1>1, <1>3, <1>12, AppendProperties DEF CutUp
    <2>2. \A n \in 1 .. j : IsSlice(n, slices[n])
      BY <1>1, <1>3 DEF CutUp
    <2>3. \A n \in 1 .. j + 1 : IsSlice(n, slices'[n])
      BY <1>14, <2>1, <2>2
    <2>4. \A n, q : IsSlice(n, q) => IsSlice(n, q)'
      BY <1>12, <1>13 DEF IsSlice
    <2>5. \A n \in 1 .. Len(slices') : IsSlice(n, slices[n])'
      BY <2>1, <2>3, <2>4
    <2>6. j + 1 <= total_slices /\ slice' \in Nat
      BY <1>4, <1>12
    <2> QED BY <1>5, <1>12, <1>13, <2>1, <2>5, <2>6 DEF CutUp
  <1>16. JoinedUp'
    BY <1>1, <1>12 DEF JoinedUp
  <1> QED BY <1>13, <1>15, <1>16 DEF CutInv

\* What is cut, and the slices, stay as they are once they are made.
LEMMA CutsKept ==
  ASSUME UNCHANGED <<org, split_size>>
  PROVE  /\ Cuttable => Cuttable' 
         /\ total_slices' = total_slices
         /\ \A n : Cut(n)' = Cut(n)
         /\ \A n, q : IsSlice(n, q)' <=> IsSlice(n, q)
  <1>1. total_slices' = total_slices /\ \A n : Cut(n)' = Cut(n)
    BY DEF Cut, total_slices, Needed, total_body_size, split_body_size
  <1> QED BY <1>1 DEF Cuttable, IsSlice

LEMMA CutUpKept ==
  ASSUME CutInv, UNCHANGED <<org, split_size, slices>>, slice' \in Nat, pc' # "split",
         pc' \in {"length", "merge"} => slice' <= Len(slices),
         pc' = "length" => slices # << >>,
         Len(slices) = total_slices
  PROVE  Cuttable' /\ CutUp'
  <1>1. Cuttable /\ CutUp
    BY DEF CutInv
  <1>2. \A n \in 1 .. Len(slices) : IsSlice(n, slices[n])'
    BY <1>1, CutsKept DEF CutUp
  <1> QED BY <1>1, <1>2, CutsKept DEF CutUp

LEMMA StartMergeStep == XPacketAssumption /\ CutInv /\ StartMerge => CutInv'
  <1> SUFFICES ASSUME XPacketAssumption, CutInv, StartMerge PROVE CutInv'
    OBVIOUS
  <1>1. /\ pc' = "length" /\ slice' = 0 /\ length' = 0 /\ read' = << >>
        /\ UNCHANGED <<org, split_size, slices>> /\ slices # << >>
        /\ Len(slices) = total_slices
    BY DEF StartMerge, CutInv, CutUp, JoinedUp
  <1>2. slices \in Seq(Packet) /\ Cut(0)' = 0
    BY <1>1, CutsKept, Cuts DEF CutInv, CutUp
  <1>3. Cuttable' /\ CutUp'
    BY <1>1, <1>2, CutUpKept
  <1>4. JoinedUp'
    BY <1>1, <1>2 DEF JoinedUp
  <1> QED BY <1>3, <1>4 DEF CutInv

LEMMA NothingStep == CutInv /\ NothingToMerge => CutInv'
  <1> SUFFICES ASSUME CutInv, NothingToMerge PROVE CutInv'
    OBVIOUS
  <1>1. /\ pc' = "done" /\ slice' = slice
        /\ UNCHANGED <<org, split_size, slices>>
        /\ Len(slices) = total_slices /\ slice \in Nat
    BY DEF NothingToMerge, CutInv, CutUp
  <1>2. Cuttable' /\ CutUp'
    BY <1>1, CutUpKept
  <1>3. JoinedUp'
    BY <1>1 DEF JoinedUp
  <1> QED BY <1>2, <1>3 DEF CutInv

\* The next slice of the ones that are joined.
LEMMA NextSlice ==
  ASSUME XPacketAssumption, CutInv, NEW j \in Nat, j < Len(slices)
  PROVE  /\ IsSlice(j + 1, slices[j + 1])
         /\ Cut(j) \in 0 .. Len(org.data)
         /\ Cut(j + 1) \in Cut(j) .. Len(org.data)
         /\ Cut(j + 1) <= Cut(Len(slices))
         /\ Len(slices) \in Nat
  <1>1. Cuttable /\ slices \in Seq(Packet)
    BY DEF CutInv, CutUp
  <1>2. PICK n \in Nat : n = Len(slices)
    BY <1>1
  <1>3. j + 1 \in 1 .. n /\ j + 1 \in Nat /\ j <= j + 1 /\ j + 1 <= n
    BY <1>2
  <1>4. IsSlice(j + 1, slices[j + 1])
    BY <1>2, <1>3 DEF CutInv, CutUp
  <1>5. /\ Cut(j) \in 0 .. Len(org.data) /\ Cut(j + 1) \in 0 .. Len(org.data)
        /\ Cut(j) <= Cut(j + 1) /\ Cut(j + 1) <= Cut(n)
    BY <1>1, <1>3, Cuts
  <1> QED BY <1>2, <1>4, <1>5

LEMMA AddLengthStep == XPacketAssumption /\ CutInv /\ AddLength => CutInv'
  <1> SUFFICES ASSUME XPacketAssumption, CutInv, AddLength PROVE CutInv'
    OBVIOUS
  <1>1. PICK j \in Nat : j = slice /\ j < Len(slices)
    BY DEF CutInv, CutUp, AddLength
  <1>2. /\ pc = "length" /\ pc' = pc /\ slice' = j + 1 /\ read' = read
        /\ length' = length + BodySize(slices[j + 1])
        /\ UNCHANGED <<org, split_size, slices>> /\ slices # << >>
        /\ Len(slices) = total_slices /\ length = Cut(j) /\ read = << >>
    BY <1>1 DEF AddLength, CutInv, CutUp, JoinedUp
  <1>3. /\ IsSlice(j + 1, slices[j + 1])
        /\ Cut(j) \in 0 .. Len(org.data) /\ Cut(j + 1) \in Cut(j) .. Len(org.data)
        /\ Len(slices) \in Nat
    BY <1>1, NextSlice
  <1>4. BodySize(slices[j + 1]) = Cut(j + 1) - Cut(j)
    <2>1. j + 1 - 1 = j
      OBVIOUS
    <2>2. slices[j + 1].packed = Cut(j + 1) - Cut(j) + OVERHEAD
      BY <1>3, <2>1 DEF IsSlice
    <2> QED
      BY <1>3, <2>2 DEF BodySize, OVERHEAD, XPACKET_HEADER_SIZE, XPACKET_TAIL_SIZE
  <1>5. length' = Cut(j + 1)
    BY <1>2, <1>3, <1>4
  <1>6. Cuttable' /\ CutUp'
    <2>1. j + 1 \in Nat /\ j + 1 <= Len(slices)
      BY <1>1, <1>3
    <2> QED BY <1>2, <2>1, CutUpKept
  <1>7. JoinedUp'
    <2>1. Cut(j + 1)' = Cut(j + 1)
      BY <1>2, CutsKept
    <2>2. Cut(slice)' = Cut(j + 1)
      BY <1>2, <2>1 DEF Cut
    <2> QED BY <1>2, <1>5, <2>2 DEF JoinedUp
  <1> QED BY <1>6, <1>7 DEF CutInv

LEMMA AllocateStep == XPacketAssumption /\ CutInv /\ Allocate => CutInv'
  <1> SUFFICES ASSUME XPacketAssumption, CutInv, Allocate PROVE CutInv'
    OBVIOUS
  <1>1. PICK n \in Nat : n = slice /\ n = Len(slices)
    BY DEF CutInv, CutUp, Allocate
  <1>2. /\ pc' = "merge" /\ slice' = 0 /\ read' = << >>
        /\ UNCHANGED <<org, split_size, slices>>
        /\ Len(slices) = total_slices /\ length = Cut(n)
        /\ merged' = Headed(length + OVERHEAD, slices[1].index, slices[1].total)
    BY <1>1 DEF Allocate, CutInv, CutUp, JoinedUp, Headed
  <1>3. slices[1] \in Packet
    <2>1. slices \in Seq(Packet) /\ slices # << >>
      BY DEF Allocate, CutInv, CutUp
    <2> QED BY <2>1
  <1>4. /\ Cut(n) \in Nat /\ Cut(0) = 0
    BY Cuts DEF CutInv
  <1>5. /\ merged' \in Packet /\ merged'.data = << >>
        /\ merged'.size = Cut(n) + OVERHEAD /\ merged'.pos = XPACKET_HEADER_SIZE
    <2>1. length + OVERHEAD \in Nat
      BY <1>2, <1>4 DEF OVERHEAD, XPACKET_HEADER_SIZE, XPACKET_TAIL_SIZE
    <2>2. slices[1].index \in Nat /\ slices[1].total \in Nat
      BY <1>3 DEF Packet
    <2>3. PICK l \in Nat, a \in Nat, b \in Nat :
            l = length + OVERHEAD /\ a = slices[1].index /\ b = slices[1].total
      BY <2>1, <2>2
    <2>4. merged' = Headed(l, a, b)
      BY <1>2, <2>3
    <2>5. l = Cut(n) + OVERHEAD
      BY <1>2, <2>3
    <2>6. /\ Headed(l, a, b) \in Packet /\ Headed(l, a, b).data = << >>
          /\ Headed(l, a, b).size = l /\ Headed(l, a, b).pos = XPACKET_HEADER_SIZE
      <3>1. Headed(l, a, b) \in Packet
        BY NewFields
      <3>2. Headed(l, a, b).data = << >> /\ Headed(l, a, b).size = l
        BY NewFields
      <3>3. Headed(l, a, b).pos = XPACKET_HEADER_SIZE
        BY NewFields
      <3> QED BY <3>1, <3>2, <3>3
    <2> QED BY <2>4, <2>5, <2>6
  <1>6. Cuttable' /\ CutUp'
    BY <1>1, <1>2, CutUpKept
  <1>7. JoinedUp'
    <2>1. Cut(0)' = 0 /\ Cut(slice)' = 0 /\ Cut(Len(slices))' = Cut(n)
      BY <1>1, <1>2, <1>4, CutsKept DEF Cut
    <2>2. SubSeq(org.data, 1, 0) = << >>
      BY SubSeqEmpty
    <2>3. Joined(slice)'
      BY <1>2, <1>5, <2>1, <2>2 DEF Joined
    <2>4. merged'.pos = 0 + XPACKET_HEADER_SIZE
      BY <1>5 DEF XPACKET_HEADER_SIZE
    <2> QED BY <1>2, <2>1, <2>3, <2>4 DEF JoinedUp
  <1> QED BY <1>6, <1>7 DEF CutInv

LEMMA MergeStep == XPacketAssumption /\ CutInv /\ MergeOne => CutInv'
  <1> SUFFICES ASSUME XPacketAssumption, CutInv, MergeOne PROVE CutInv'
    OBVIOUS
  <1>1. PICK j \in Nat : j = slice /\ j < Len(slices)
    BY DEF CutInv, CutUp, MergeOne
  <1>2. PICK m : m = slices[j + 1].data
    OBVIOUS
  <1>3. /\ pc = "merge" /\ pc' = pc /\ slice' = j + 1 /\ read' = read /\ read = << >>
        /\ merged' = PushMem(merged, m)
        /\ UNCHANGED <<org, split_size, slices>>
        /\ Len(slices) = total_slices
        /\ Joined(j) /\ merged.pos = Cut(j) + XPACKET_HEADER_SIZE
    BY <1>1, <1>2 DEF MergeOne, CutInv, CutUp, JoinedUp
  <1>4. /\ IsSlice(j + 1, slices[j + 1])
        /\ Cut(j) \in 0 .. Len(org.data) /\ Cut(j + 1) \in Cut(j) .. Len(org.data)
        /\ Cut(j + 1) <= Cut(Len(slices)) /\ Len(slices) \in Nat
    BY <1>1, NextSlice
  <1>5. Cut(Len(slices)) \in Nat
    BY <1>4, Cuts DEF CutInv
  <1>6. m = SubSeq(org.data, Cut(j) + 1, Cut(j + 1))
    <2>1. PICK h : h = j + 1
      OBVIOUS
    <2>2. m = SubSeq(org.data, Cut(h - 1) + 1, Cut(h))
      <3>1. IsSlice(h, slices[h])
        BY <1>4, <2>1
      <3>2. slices[h].data = SubSeq(org.data, Cut(h - 1) + 1, Cut(h))
        BY <3>1 DEF IsSlice
      <3>3. m = slices[h].data
        BY <1>2, <2>1
      <3> QED BY <3>2, <3>3
    <2>3. h - 1 = j
      BY <2>1
    <2>4. Cut(h - 1) = Cut(j) /\ Cut(h) = Cut(j + 1)
      BY <2>1, <2>3
    <2> QED BY <2>2, <2>4
  <1>7. /\ m \in Seq(Nat) /\ Len(m) = Cut(j + 1) - Cut(j)
        /\ SubSeq(org.data, 1, Cut(j)) \o m = SubSeq(org.data, 1, Cut(j + 1))
    <2>1. org.data \in Seq(Nat)
      BY DEF CutInv, Cuttable, Packet
    <2> QED BY <1>4, <1>6, <2>1, Part
  <1>8. Fits(merged, Len(m))
    <2>1. PICK l \in Nat : l = Len(m) /\ l = Cut(j + 1) - Cut(j)
      BY <1>7
    <2>2. merged.size = Cut(Len(slices)) + OVERHEAD
      BY <1>3 DEF Joined
    <2>3. merged.pos + l <= merged.size - XPACKET_TAIL_SIZE
      BY <1>3, <1>4, <1>5, <2>1, <2>2
      DEF OVERHEAD, XPACKET_HEADER_SIZE, XPACKET_TAIL_SIZE
    <2> QED BY <2>1, <2>3 DEF Fits
  <1>9. /\ merged' \in Packet /\ merged'.data = SubSeq(org.data, 1, Cut(j + 1))
        /\ merged'.pos = Cut(j + 1) + XPACKET_HEADER_SIZE
        /\ merged'.size = Cut(Len(slices)) + OVERHEAD
    <2>1. /\ merged \in Packet /\ merged.data = SubSeq(org.data, 1, Cut(j))
          /\ merged.size = Cut(Len(slices)) + OVERHEAD
      BY <1>3 DEF Joined
    <2>2. /\ merged' \in Packet /\ merged'.data = merged.data \o m
          /\ merged'.pos = merged.pos + Len(m) /\ merged'.size = merged.size
      BY <1>3, <1>7, <1>8, <2>1, PushFits
    <2>3. merged.pos + Len(m) = Cut(j + 1) + XPACKET_HEADER_SIZE
      <3>1. PICK l \in Nat : l = Len(m) /\ l = Cut(j + 1) - Cut(j)
        BY <1>7
      <3> QED BY <1>3, <1>4, <3>1 DEF XPACKET_HEADER_SIZE
    <2> QED BY <1>7, <2>1, <2>2, <2>3
  <1>10. Cuttable' /\ CutUp'
    <2>1. j + 1 \in Nat /\ j + 1 <= Len(slices)
      BY <1>1, <1>4
    <2> QED BY <1>3, <2>1, CutUpKept
  <1>11. JoinedUp'
    <2>1. Cut(slice)' = Cut(j + 1) /\ Cut(Len(slices))' = Cut(Len(slices))
      BY <1>3, CutsKept DEF Cut
    <2>2. Joined(slice)'
      BY <1>3, <1>9, <2>1 DEF Joined
    <2> QED BY <1>3, <1>9, <2>1, <2>2 DEF JoinedUp
  <1> QED BY <1>10, <1>11 DEF CutInv

LEMMA EndMergeStep == XPacketAssumption /\ CutInv /\ EndMerge => CutInv'
  <1> SUFFICES ASSUME XPacketAssumption, CutInv, EndMerge PROVE CutInv'
    OBVIOUS
  <1>1. PICK n \in Nat : n = slice /\ n = Len(slices)
    BY DEF CutInv, CutUp, EndMerge
  <1>2. /\ pc' = "merged" /\ slice' = slice /\ read' = << >>
        /\ merged' = Pack(merged)
        /\ UNCHANGED <<org, split_size, slices>>
        /\ Len(slices) = total_slices
        /\ merged \in Packet /\ merged.size = Cut(n) + OVERHEAD
        /\ merged.data = SubSeq(org.data, 1, Cut(n))
        /\ merged.pos = Cut(n) + XPACKET_HEADER_SIZE
    <2>1. pc = "merge" /\ Joined(n) /\ merged.pos = Cut(n) + XPACKET_HEADER_SIZE
      BY <1>1 DEF EndMerge, CutInv, JoinedUp
    <2>2. Cut(Len(slices)) = Cut(n)
      BY <1>1
    <2> QED BY <1>1, <2>1, <2>2 DEF EndMerge, CutInv, CutUp, JoinedUp, Joined
  <1>3. Cut(n) \in Nat
    BY Cuts DEF CutInv
  <1>4. PICK p \in Packet :
          /\ p = Pack(merged) /\ p.data = merged.data /\ p.size = merged.size
          /\ p.packed = merged.pos + XPACKET_TAIL_SIZE
    BY <1>2, PackFields
  <1>5. /\ merged' = p /\ p.pos = merged.pos
    BY <1>2, <1>4 DEF Pack
  <1>6. p.packed = p.size
    BY <1>2, <1>3, <1>4 DEF OVERHEAD, XPACKET_HEADER_SIZE, XPACKET_TAIL_SIZE
  <1>7. Cuttable' /\ CutUp'
    BY <1>1, <1>2, CutUpKept
  <1>8. JoinedUp'
    <2>1. Cut(Len(slices))' = Cut(n)
      BY <1>1, <1>2, CutsKept DEF Cut
    <2>2. Joined(Len(slices))'
      BY <1>2, <1>4, <1>5, <2>1 DEF Joined
    <2>3. merged'.packed = merged'.size
      BY <1>5, <1>6
    <2>4. merged'.pos = merged'.packed - XPACKET_TAIL_SIZE
      BY <1>2, <1>3, <1>4, <1>5 DEF XPACKET_HEADER_SIZE, XPACKET_TAIL_SIZE
    <2> QED BY <1>2, <2>2, <2>3, <2>4 DEF JoinedUp
  <1> QED BY <1>7, <1>8 DEF CutInv

LEMMA RewindStep == XPacketAssumption /\ CutInv /\ Rewind => CutInv'
  <1> SUFFICES ASSUME XPacketAssumption, CutInv, Rewind PROVE CutInv'
    OBVIOUS
  <1>1. /\ pc' = "read" /\ slice' = slice /\ read' = << >>
        /\ merged' = ResetPos(merged)
        /\ UNCHANGED <<org, split_size, slices>>
        /\ slice \in Nat /\ Len(slices) \in Nat /\ Len(slices) = total_slices
        /\ merged \in Packet /\ merged.packed = merged.size
        /\ Joined(Len(slices))
    BY DEF Rewind, CutInv, CutUp, JoinedUp, Joined
  <1>2. /\ merged' \in Packet /\ merged'.data = merged.data
        /\ merged'.size = merged.size /\ merged'.packed = merged.packed
        /\ merged'.pos = XPACKET_HEADER_SIZE
    BY <1>1 DEF ResetPos, Packet, XPACKET_HEADER_SIZE
  <1>3. PICK t \in Nat : t = Cut(Len(slices)) /\ merged.size = t + OVERHEAD
    BY <1>1, Cuts DEF CutInv, Joined
  <1>4. Cuttable' /\ CutUp'
    BY <1>1, CutUpKept
  <1>5. JoinedUp'
    <2>1. Cut(Len(slices))' = Cut(Len(slices))
      BY <1>1, CutsKept DEF Cut
    <2>2. Joined(Len(slices))'
      BY <1>1, <1>2, <2>1 DEF Joined
    <2>3. /\ merged'.pos >= XPACKET_HEADER_SIZE
          /\ merged'.pos <= merged'.packed - XPACKET_TAIL_SIZE
      BY <1>1, <1>2, <1>3 DEF OVERHEAD, XPACKET_HEADER_SIZE, XPACKET_TAIL_SIZE
    <2>4. SubSeq(org.data, 1, merged'.pos - XPACKET_HEADER_SIZE) = << >>
      <3>1. merged'.pos - XPACKET_HEADER_SIZE = 0
        BY <1>2 DEF XPACKET_HEADER_SIZE
      <3>2. SubSeq(org.data, 1, 0) = << >>
        BY SubSeqEmpty
      <3> QED BY <3>1, <3>2
    <2>5. read' = SubSeq(org.data, 1, merged.pos - XPACKET_HEADER_SIZE)'
      BY <1>1, <2>4
    <2>6. merged'.packed = merged'.size
      BY <1>1, <1>2
    <2> QED BY <1>1, <2>2, <2>3, <2>5, <2>6 DEF JoinedUp
  <1> QED BY <1>4, <1>5 DEF CutInv

\* A packet as Merge returns it has no room left after its position.
LEMMA NothingFits ==
  ASSUME CutInv, pc = "merged", NEW len \in Nat \ {0}
  PROVE  ~Fits(merged, len)
  <1>1. merged \in Packet /\ merged.pos = merged.size - XPACKET_TAIL_SIZE
    BY DEF CutInv, JoinedUp, Joined
  <1> QED BY <1>1 DEF Fits, Packet, XPACKET_TAIL_SIZE

LEMMA PopStep ==
  ASSUME NEW len \in Pieces, XPacketAssumption, CutInv, PopMem(len)
  PROVE  CutInv'
  <1>0. pc = "read"
    <2>1. pc \in {"merged", "read"} /\ Fits(merged, len) /\ len \in Nat \ {0}
      BY DEF PopMem, XPacketAssumption
    <2> QED BY <2>1, NothingFits
  <1>1. /\ pc = "read" /\ pc' = pc /\ slice' = slice /\ slice \in Nat
        /\ UNCHANGED <<org, split_size, slices>>
        /\ Len(slices) = total_slices
        /\ Joined(Len(slices)) /\ merged.packed = merged.size
        /\ merged.pos >= XPACKET_HEADER_SIZE
        /\ read = SubSeq(org.data, 1, merged.pos - XPACKET_HEADER_SIZE)
        /\ slices \in Seq(Packet)
    BY <1>0 DEF PopMem, CutInv, CutUp, JoinedUp
  <1>2. len \in Nat \ {0} /\ org.data \in Seq(Nat)
    BY DEF XPacketAssumption, CutInv, Cuttable, Packet
  <1>3. PICK t \in 0 .. Len(org.data) : t = Cut(Len(slices))
    <2>1. Len(slices) \in Nat
      BY <1>1
    <2> QED BY <2>1, Cuts DEF CutInv
  <1>4. /\ merged \in Packet /\ merged.data = SubSeq(org.data, 1, t)
        /\ merged.size = t + OVERHEAD
    BY <1>1, <1>3 DEF Joined
  <1>5. PICK a \in Nat : a = merged.pos - XPACKET_HEADER_SIZE
    <2>1. merged.pos \in Nat
      BY <1>4 DEF Packet
    <2> QED BY <1>1, <2>1 DEF XPACKET_HEADER_SIZE
  <1>6. PICK b \in Nat : b = a + len
    BY <1>2
  <1>7. b <= t /\ a \in 0 .. Len(org.data) /\ b \in a .. Len(org.data)
    <2>1. merged.pos + len <= merged.size - XPACKET_TAIL_SIZE
      BY DEF PopMem, Fits
    <2>2. merged.pos = a + XPACKET_HEADER_SIZE
      BY <1>4, <1>5 DEF Packet, XPACKET_HEADER_SIZE
    <2>3. b <= t
      BY <1>2, <1>4, <1>6, <2>1, <2>2
      DEF OVERHEAD, XPACKET_HEADER_SIZE, XPACKET_TAIL_SIZE
    <2> QED BY <1>2, <1>6, <2>3
  <1>8. BytesAt(merged, len) = SubSeq(org.data, a + 1, b)
    <2>1. BytesAt(merged, len) = SubSeq(merged.data, a + 1, b)
      BY <1>5, <1>6 DEF BytesAt
    <2>2. /\ 1 \in 1 .. Len(org.data) /\ t \in 1 .. Len(org.data)
          /\ a + 1 \in 1 .. t - 1 + 1 /\ b \in 1 .. t - 1 + 1
          /\ 1 + (a + 1) - 1 = a + 1 /\ 1 + b - 1 = b
      BY <1>2, <1>6, <1>7
    <2>3. SubSeq(SubSeq(org.data, 1, t), a + 1, b)
            = SubSeq(org.data, 1 + (a + 1) - 1, 1 + b - 1)
      BY <1>2, <2>2, SubSeqOfSubSeq
    <2> QED BY <1>4, <2>1, <2>2, <2>3
  <1>9. read' = SubSeq(org.data, 1, b)
    <2>1. read' = SubSeq(org.data, 1, a) \o SubSeq(org.data, a + 1, b)
      BY <1>1, <1>5, <1>8 DEF PopMem
    <2> QED BY <1>2, <1>7, <2>1, Part
  <1>10. /\ merged' \in Packet /\ merged'.data = merged.data
         /\ merged'.size = merged.size /\ merged'.packed = merged.packed
         /\ merged'.pos = merged.pos + len
    <2>1. merged.pos \in Nat
      BY <1>4 DEF Packet
    <2>2. PICK n \in Nat : n = merged.pos + len
      BY <1>2, <2>1
    <2>3. merged' = [merged EXCEPT !.pos = n]
      BY <2>2 DEF PopMem
    <2> QED BY <1>4, <2>2, <2>3 DEF Packet
  <1>11. /\ merged'.pos - XPACKET_HEADER_SIZE = b
         /\ merged'.pos >= XPACKET_HEADER_SIZE
         /\ merged'.pos <= merged'.packed - XPACKET_TAIL_SIZE
    <2>1. merged.pos = a + XPACKET_HEADER_SIZE
      BY <1>4, <1>5 DEF Packet, XPACKET_HEADER_SIZE
    <2> QED BY <1>1, <1>2, <1>4, <1>6, <1>7, <1>10, <2>1
            DEF OVERHEAD, XPACKET_HEADER_SIZE, XPACKET_TAIL_SIZE
  <1>12. Cuttable' /\ CutUp'
    BY <1>1, CutUpKept
  <1>13. JoinedUp'
    <2>1. Cut(Len(slices))' = t
      BY <1>1, <1>3, CutsKept DEF Cut
    <2>2. Joined(Len(slices))'
      BY <1>1, <1>4, <1>10, <2>1 DEF Joined
    <2> QED BY <1>1, <1>9, <1>10, <1>11, <2>2 DEF JoinedUp
  <1> QED BY <1>12, <1>13 DEF CutInv

LEMMA CutInvNext == XPacketAssumption /\ CutInv /\ [XPacketNext]_(xpacket_vars) => CutInv'
  <1> SUFFICES ASSUME XPacketAssumption, CutInv, [XPacketNext]_(xpacket_vars) PROVE CutInv'
    OBVIOUS
  <1>1. ASSUME NEW len \in Pieces, PopMemFails(len) PROVE CutInv'
    <2>1. /\ pc' = "done" /\ slice' = slice
          /\ UNCHANGED <<org, split_size, slices>>
          /\ Len(slices) = total_slices /\ slice \in Nat
      BY <1>1 DEF PopMemFails, CutInv, CutUp
    <2>2. Cuttable' /\ CutUp'
      BY <2>1, CutUpKept
    <2>3. JoinedUp'
      BY <2>1 DEF JoinedUp
    <2> QED BY <2>2, <2>3 DEF CutInv
  <1>2. CASE UNCHANGED xpacket_vars
    <2>1. UNCHANGED <<pc, org, split_size, slice, pos, slices, length, merged, read>>
      BY <1>2 DEF xpacket_vars
    <2>2. Cuttable /\ CutUp /\ JoinedUp
      BY DEF CutInv
    <2>3. Cuttable' /\ total_slices' = total_slices /\ \A n : Cut(n)' = Cut(n)
      BY <2>1, <2>2, CutsKept
    <2>4. \A n \in 1 .. Len(slices) : IsSlice(n, slices[n])'
      BY <2>1, <2>2, CutsKept DEF CutUp
    <2>5. CutUp'
      BY <2>1, <2>2, <2>3, <2>4 DEF CutUp, Cut
    <2>6. JoinedUp'
      BY <2>1, <2>2, <2>3 DEF JoinedUp, Joined, Cut
    <2> QED BY <2>3, <2>5, <2>6 DEF CutInv
  <1> QED
    BY <1>1, <1>2, SplitStep, StartMergeStep, NothingStep, AddLengthStep, AllocateStep,
       MergeStep, EndMergeStep, RewindStep, PopStep DEF XPacketNext

\* Merge undoes Split for every body and every size of the slices, as long as
\* the number of slices fits into its field; the reader gets nothing before
\* ResetPos, and after it every byte once and in order (xpacket.cpp:57-99,
\* 211-234).
THEOREM MergeUndoesSplitTheorem ==
  ASSUME XPacketAssumption
  PROVE  XPacketSpec => []MergeUndoesSplit
  <1>1. CutInv => MergeUndoesSplit
    <2> SUFFICES ASSUME CutInv, pc \in {"merged", "read"}, Needed < WORD
                 PROVE  /\ merged.data = org.data /\ merged.packed = org.packed
                        /\ Valid(merged)
                        /\ pc = "merged" => /\ read = << >>
                                           /\ \A len \in Pieces : ~Fits(merged, len)
                        /\ pc = "read" =>
                             read = SubSeq(org.data, 1, merged.pos - XPACKET_HEADER_SIZE)
      BY DEF MergeUndoesSplit
    <2>1. /\ Cuttable /\ Len(slices) = total_slices /\ Joined(Len(slices))
          /\ merged.packed = merged.size
          /\ pc = "merged" => read = << >>
          /\ pc = "read" =>
               read = SubSeq(org.data, 1, merged.pos - XPACKET_HEADER_SIZE)
      BY DEF CutInv, CutUp, JoinedUp
    <2>2. Cut(Len(slices)) = Len(org.data)
      BY <2>1, SliceCount, Cuts
    <2>3. /\ merged.size = Len(org.data) + OVERHEAD
          /\ merged.data = SubSeq(org.data, 1, Len(org.data))
      BY <2>1, <2>2 DEF Joined
    <2>4. SubSeq(org.data, 1, Len(org.data)) = org.data
      BY <2>1, SubSeqFull DEF Cuttable, Packet
    <2>5. org.packed = Len(org.data) + OVERHEAD
      BY <2>1 DEF Cuttable
    <2>6. ASSUME pc = "merged" PROVE \A len \in Pieces : ~Fits(merged, len)
      BY <2>6, NothingFits DEF XPacketAssumption
    <2> QED BY <2>1, <2>3, <2>4, <2>5, <2>6 DEF Valid
  <1>2. XPacketInit => CutInv
    BY CutInvInit
  <1>3. CutInv /\ [XPacketNext]_(xpacket_vars) => CutInv'
    BY CutInvNext
  <1> QED BY <1>1, <1>2, <1>3, PTL DEF XPacketSpec
=============================================================================
