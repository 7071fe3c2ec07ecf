--------------------------- MODULE StreamPipeline ---------------------------
(***************************************************************************)
(* The way of a picture from the agents to the clients: every agent that   *)
(* streams puts its newest picture into the broker's one slot, and the     *)
(* stream thread copies what it finds there, cuts it into slices and       *)
(* pushes them to every client.  The slot, the list of clients and the     *)
(* switch m_stream_onoff are shared by the agents, the stream thread, the  *)
(* accept thread and the clients' command threads.                         *)
(*                                                                         *)
(* Pictures are numbered in the order in which they are made.              *)
(***************************************************************************)
EXTENDS Naturals, Sequences

CONSTANTS
  Agents, Clients,
  Slices,          \* slices per frame
  MaxPictures      \* bound: pictures the agents make

ASSUME StreamPipelineAssumption ==
  /\ Slices \in Nat \ {0}
  /\ MaxPictures \in Nat

VARIABLES
  m_stream_onoff,     \* the switch
  m_agent_run_flag,   \* the agents that are selected
  m_stream_status,    \* the switch, as each agent read it last
  apc, hand,          \* each agent: where it is, and the picture it made
  m_cur_hlds_img, m_img_set_lock,  \* the slot and its lock
  pictures, freed,    \* how many were made, and which of them were deleted
  m_clients, stopped, m_agent_clients_lock,
  spc,                \* the stream thread
  cur_img, i, k,      \* its copy, and the client and the slice it is at
  got,                \* the slice pushed last to each client
  late                \* history: frames sent since the switch was turned OFF

switches == <<m_stream_onoff, m_agent_run_flag>>
agents == <<m_stream_status, apc, hand>>
slot == <<m_cur_hlds_img, m_img_set_lock>>
heap == <<pictures, freed>>
clients == <<m_clients, stopped>>
stream == <<m_agent_clients_lock, spc, cur_img, i, k, got>>
vars == <<switches, agents, slot, heap, clients, stream, late>>

nullptr == 0
NoSlice == <<nullptr, Slices>>

Init ==
  /\ m_stream_onoff = 0
  /\ m_agent_run_flag = Agents
  /\ m_stream_status = [a \in Agents |-> 0]
  /\ apc = [a \in Agents |-> "status"] /\ hand = [a \in Agents |-> nullptr]
  /\ m_cur_hlds_img = nullptr /\ m_img_set_lock = FALSE
  /\ pictures = 0 /\ freed = {}
  /\ m_clients = << >> /\ stopped = {} /\ m_agent_clients_lock = FALSE
  /\ spc = "test" /\ cur_img = nullptr /\ i = 1 /\ k = 1
  /\ got = [c \in Clients |-> NoSlice]
  /\ late = 0

-----------------------------------------------------------------------------
(* Clients: a command sets the switch to the byte it carries, or chooses   *)
(* agents; a client joins, and dies.                                       *)

\* 2 stands for every byte that is neither of STREAM_OFF and STREAM_ON.
SetStreamStatus(onoff) ==
  /\ m_stream_onoff' = onoff
  /\ late' = IF onoff = 0 THEN late ELSE 0
  /\ UNCHANGED <<m_agent_run_flag, agents, slot, heap, clients, stream>>

SetRunFlag(a) ==
  /\ \/ m_agent_run_flag' = m_agent_run_flag \cup {a}
     \/ m_agent_run_flag' = m_agent_run_flag \ {a}
  /\ UNCHANGED <<m_stream_onoff, agents, slot, heap, clients, stream, late>>

Member(c) == \E n \in 1 .. Len(m_clients) : m_clients[n] = c

PushBack(c) ==
  /\ ~Member(c)
  /\ m_clients' = Append(m_clients, c)
  /\ UNCHANGED <<switches, agents, slot, heap, stopped, stream, late>>

\* Mutant: the list is changed without its lock.
AddClientAnyway(c) == PushBack(c)

AddClient(c) == ~m_agent_clients_lock /\ PushBack(c)

Die(c) ==
  /\ Member(c)
  /\ stopped' = stopped \cup {c}
  /\ UNCHANGED <<switches, agents, slot, heap, m_clients, stream, late>>

-----------------------------------------------------------------------------
(* An agent's turn.                                                        *)

Goto(a, from, to) == apc[a] = from /\ apc' = [apc EXCEPT ![a] = to]

StatusInfo(a) ==
  /\ Goto(a, "status", "draw")
  /\ m_stream_status' = [m_stream_status EXCEPT
       ![a] = IF a \in m_agent_run_flag THEN m_stream_onoff ELSE @]
  /\ UNCHANGED <<switches, hand, slot, heap, clients, stream, late>>

\* No new frame, an error, or a picture that is not to be streamed.
DrawNothing(a) ==
  /\ Goto(a, "draw", "status")
  /\ UNCHANGED <<switches, m_stream_status, hand, slot, heap, clients, stream, late>>

Draw(a) ==
  /\ Goto(a, "draw", "lock")
  /\ m_stream_status[a] = 1
  /\ pictures < MaxPictures
  /\ pictures' = pictures + 1
  /\ hand' = [hand EXCEPT ![a] = pictures + 1]
  /\ UNCHANGED <<switches, m_stream_status, slot, freed, clients, stream, late>>

\* Mutant: the slot is used without its lock (use_lock is false).
LockSlotNot(a) ==
  /\ Goto(a, "lock", "delete")
  /\ UNCHANGED <<switches, m_stream_status, hand, slot, heap, clients, stream, late>>

LockSlot(a) ==
  /\ Goto(a, "lock", "delete")
  /\ ~m_img_set_lock /\ m_img_set_lock' = TRUE
  /\ UNCHANGED <<switches, m_stream_status, hand, m_cur_hlds_img, heap, clients,
                 stream, late>>

Delete(a, old) ==
  /\ Goto(a, "delete", "assign")
  /\ freed' = freed \cup (old \ {nullptr})
  /\ UNCHANGED <<switches, m_stream_status, hand, slot, pictures, clients, stream, late>>

\* Mutant: the old picture is not deleted.
DeleteNothing(a) == Delete(a, {})

DeleteOld(a) == Delete(a, {m_cur_hlds_img})

PutInSlot(a, locked) ==
  /\ Goto(a, "assign", "status")
  /\ m_cur_hlds_img' = hand[a] /\ m_img_set_lock' = locked
  /\ hand' = [hand EXCEPT ![a] = nullptr]
  /\ UNCHANGED <<switches, m_stream_status, heap, clients, stream, late>>

\* Mutant: the lock is not given back.
SetSlotKeepsLock(a) == PutInSlot(a, TRUE)

SetSlot(a) == PutInSlot(a, FALSE)

UpdateHLDSImage(a) == LockSlot(a) \/ DeleteOld(a) \/ SetSlot(a)

Proc(a) == StatusInfo(a) \/ DrawNothing(a) \/ Draw(a) \/ UpdateHLDSImage(a)

-----------------------------------------------------------------------------
(* The stream thread.                                                      *)

Begin(on) ==
  /\ spc = "test" /\ on
  /\ spc' = "lock"
  /\ UNCHANGED <<switches, agents, slot, heap, clients, m_agent_clients_lock,
                 cur_img, i, k, got, late>>

\* Mutant: every value of the switch is on.
GetStreamStatusAny == Begin(m_stream_onoff >= 0)

GetStreamStatus == Begin(m_stream_onoff > 0)

LockImage ==
  /\ spc = "lock" /\ ~m_img_set_lock
  /\ m_img_set_lock' = TRUE
  /\ spc' = "clone"
  /\ UNCHANGED <<switches, agents, m_cur_hlds_img, heap, clients,
                 m_agent_clients_lock, cur_img, i, k, got, late>>

GetCurImage ==
  /\ spc = "clone"
  /\ m_img_set_lock' = FALSE
  /\ IF m_cur_hlds_img = nullptr
     THEN spc' = "test" /\ UNCHANGED cur_img
     ELSE spc' = "slices" /\ cur_img' = m_cur_hlds_img
  /\ UNCHANGED <<switches, agents, m_cur_hlds_img, heap, clients,
                 m_agent_clients_lock, i, k, got, late>>

LockClients ==
  /\ spc = "slices" /\ ~m_agent_clients_lock
  /\ m_agent_clients_lock' = TRUE
  /\ spc' = "client"
  /\ late' = IF m_stream_onoff = 0 /\ late < 2 THEN late + 1 ELSE late
  /\ UNCHANGED <<switches, agents, slot, heap, clients, cur_img, i, k, got>>

NextClient ==
  /\ spc = "client" /\ i <= Len(m_clients)
  /\ IF m_clients[i] \in stopped
     THEN i' = i + 1 /\ UNCHANGED spc
     ELSE spc' = "push" /\ UNCHANGED i
  /\ UNCHANGED <<switches, agents, slot, heap, clients, m_agent_clients_lock,
                 cur_img, k, got, late>>

PushUpTo(last) ==
  /\ spc = "push"
  /\ got' = [got EXCEPT ![m_clients[i]] = <<cur_img, k>>]
  /\ IF k < last
     THEN k' = k + 1 /\ UNCHANGED <<spc, i>>
     ELSE k' = 1 /\ i' = i + 1 /\ spc' = "client"
  /\ UNCHANGED <<switches, agents, slot, heap, clients, m_agent_clients_lock,
                 cur_img, late>>

\* Mutant: the last slice is forgotten.
PushAllButLast == PushUpTo(Slices - 1)

PushSendPacket == PushUpTo(Slices)

UnlockClients ==
  /\ spc = "client" /\ i > Len(m_clients)
  /\ m_agent_clients_lock' = FALSE
  /\ cur_img' = nullptr /\ i' = 1
  /\ spc' = "test"
  /\ UNCHANGED <<switches, agents, slot, heap, clients, k, got, late>>

StreamHLDSClients == LockClients \/ NextClient \/ PushSendPacket \/ UnlockClients

Stream == GetStreamStatus \/ LockImage \/ GetCurImage \/ StreamHLDSClients

-----------------------------------------------------------------------------

Next ==
  \/ \E onoff \in 0 .. 2 : SetStreamStatus(onoff)
  \/ \E c \in Clients : AddClient(c) \/ Die(c)
  \/ \E a \in Agents : SetRunFlag(a) \/ Proc(a)
  \/ Stream

\* The threads of the program run; the sensors owe no frame, and the clients
\* no command.
Spec == Init /\ [][Next]_vars
FairSpec ==
  /\ Spec
  /\ WF_vars(Stream)
  /\ \A a \in Agents : WF_vars(StatusInfo(a) \/ UpdateHLDSImage(a))

-----------------------------------------------------------------------------

\* The stream thread never copies, and no agent deletes, a picture that was
\* deleted before: the slot dangles between the delete and the assignment,
\* which only its lock hides.
SlotIsAlive ==
  spc = "clone" \/ (\E a \in Agents : apc[a] = "delete")
    => m_cur_hlds_img \notin freed

\* Every picture ever made is in the slot, in an agent's hand, or deleted.
NoImageLeaks ==
  \A p \in 1 .. pictures :
    p \in freed \/ p = m_cur_hlds_img \/ \E a \in Agents : hand[a] = p

\* No client joins the list while the stream thread walks through it.
WalkUndisturbed ==
  [][m_clients' # m_clients => spc \notin {"client", "push"}]_vars

\* A client gets whole frames, whenever it joins or others die: a slice is
\* followed by the next one of its picture, the last slice by a first one.
WholeFrames ==
  [][\A c \in Clients :
       got'[c] # got[c] =>
         IF got[c][2] < Slices THEN got'[c] = <<got[c][1], got[c][2] + 1>>
                               ELSE got'[c][2] = 1]_vars

\* When the switch has been turned off, at most the frame whose turn has
\* begun is still sent.
OffStops == late <= 1

\* A picture in the slot reaches every client of the list, unless the switch
\* is turned off, a newer picture takes its place or the client dies.
SlotIsStreamed ==
  \A p \in 1 .. MaxPictures :
    m_cur_hlds_img = p
      ~> \/ m_cur_hlds_img # p \/ m_stream_onoff = 0
         \/ \A c \in Clients : Member(c) => got[c][1] = p \/ c \in stopped

=============================================================================
