--------------------------- MODULE CommandMailbox ---------------------------
(***************************************************************************)
(* How a command reaches the sensors' agents: a client thread stores it in *)
(* the broker (SetFocusInOut, SetCameraAngle, SetPantiltData), and each    *)
(* running agent looks for it once per frame (StatusInfo).  Every kind of  *)
(* command has a box: a flag, the data, and a lock that only the writers   *)
(* take.  The flag is raised before the data is stored and lowered before  *)
(* the data is read, and a large value is copied in parts.                 *)
(*                                                                         *)
(* Commands are numbered as they are received; a box holds the number of   *)
(* the command whose data is in each part, 0 if it was never written.      *)
(***************************************************************************)
EXTENDS Naturals

CONSTANTS
  Clients,         \* client threads (ComPacketProc)
  NoClient,        \* the holder of a free lock
  Agents,          \* agents whose m_agent_run_flag is set
  Parts,           \* per box, the pieces in which its data is copied
  RECV_BUF_LEN,    \* size of the buffer of a received packet
  MaxCommands      \* bound: commands received

Boxes == {"focus", "angle", "move"}
XPACKET_HEADER_SIZE == 23
XPACKET_TAIL_SIZE == 2

ASSUME CommandMailboxAssumption ==
  /\ NoClient \notin Clients
  /\ Parts \in [Boxes -> Nat \ {0}]
  /\ RECV_BUF_LEN \in Nat
  /\ RECV_BUF_LEN > XPACKET_HEADER_SIZE + XPACKET_TAIL_SIZE
  /\ MaxCommands \in Nat

VARIABLES
  flag,      \* m_zoom_flag, m_cam_angle_flag, m_cam_move_flag
  data,      \* m_zoom, m_camera_angle_data, m_cam_status
  lock,      \* m_focus_mode_lock, m_camera_angle_lock, m_camera_move_lock
  cpc,       \* what each client does next
  cmd,       \* its command: [box, n, keep, size]
  stored,    \* parts it has stored
  apc, abox, \* where each agent is in StatusInfo
  got,       \* the parts it has read
  copied,    \* how many
  received,  \* number of commands so far
  last,      \* history: per box, the command completed last that had data
  raised,    \* history: per box, times the flag was raised
  takes,     \* history: per agent and box, times data was taken
  clean,     \* history: no command has met the take in progress
  crossed,   \* history: an agent lowered the flag while the command was stored
  applied    \* history: per box, the commands an agent has applied whole

boxes == <<flag, data, lock>>
clients == <<cpc, cmd, stored, received>>
agents == <<apc, abox, got, copied>>
vars == <<flag, data, lock, cpc, cmd, stored, apc, abox, got, copied, received,
          last, raised, takes, clean, crossed, applied>>

Numbers == 0 .. MaxCommands
PartsOf(b) == 1 .. Parts[b]
AllParts == UNION {PartsOf(b) : b \in Boxes}
Sizes == {XPACKET_HEADER_SIZE + XPACKET_TAIL_SIZE, RECV_BUF_LEN}
Command == [box : Boxes, n : Numbers, keep : BOOLEAN, size : Sizes]

NoCommand == [box |-> "focus", n |-> 0, keep |-> TRUE, size |-> RECV_BUF_LEN]
Nothing == [p \in AllParts |-> 0]

NextBox == [focus |-> "angle", angle |-> "move", move |-> "focus"]

Init ==
  /\ flag = [b \in Boxes |-> FALSE]
  /\ data = [b \in Boxes |-> [p \in PartsOf(b) |-> 0]]
  /\ lock = [b \in Boxes |-> NoClient]
  /\ cpc = [c \in Clients |-> "idle"]
  /\ cmd = [c \in Clients |-> NoCommand]
  /\ stored = [c \in Clients |-> 0]
  /\ apc = [a \in Agents |-> "check"]
  /\ abox = [a \in Agents |-> "focus"]
  /\ got = [a \in Agents |-> Nothing]
  /\ copied = [a \in Agents |-> 0]
  /\ received = 0
  /\ last = [b \in Boxes |-> 0]
  /\ raised = [b \in Boxes |-> 0]
  /\ takes = [a \in Agents |-> [b \in Boxes |-> 0]]
  /\ clean = [a \in Agents |-> TRUE]
  /\ crossed = [b \in Boxes |-> FALSE]
  /\ applied = [b \in Boxes |-> {0}]

-----------------------------------------------------------------------------
(* A client carries out the command of one received packet.                *)

\* The packet may be as short as a header and a tail.  A command that names
\* no direction ("keep": SET_OFF, an unknown byte) leaves the data as it is;
\* a camera angle always has data.
Receive(c) ==
  /\ cpc[c] = "idle"
  /\ received < MaxCommands
  /\ received' = received + 1
  /\ \E b \in Boxes, keep \in BOOLEAN, size \in Sizes :
       /\ b = "angle" => ~keep
       /\ cmd' = [cmd EXCEPT ![c] = [box |-> b, n |-> received + 1,
                                     keep |-> keep, size |-> size]]
  /\ cpc' = [cpc EXCEPT ![c] = "lock"]
  /\ UNCHANGED <<boxes, stored, agents, last, raised, takes, clean, crossed, applied>>

Lock(c) ==
  /\ cpc[c] = "lock"
  /\ lock[cmd[c].box] = NoClient
  /\ lock' = [lock EXCEPT ![cmd[c].box] = c]
  /\ cpc' = [cpc EXCEPT ![c] = "raise"]
  /\ clean' = [a \in Agents |-> clean[a] /\ abox[a] # cmd[c].box]
  /\ UNCHANGED <<flag, data, cmd, stored, received, agents, last, raised, takes,
                 crossed, applied>>

\* Mutant: the flag is not raised.
RaiseNothing(c) ==
  LET b == cmd[c].box IN
  /\ cpc[c] = "raise"
  /\ raised' = [raised EXCEPT ![b] = @ + 1]
  /\ crossed' = [crossed EXCEPT ![b] = FALSE]
  /\ cpc' = [cpc EXCEPT ![c] = "pop"]
  /\ UNCHANGED <<flag, data, lock, cmd, stored, received, agents, last, takes,
                 clean, applied>>

Raise(c) ==
  LET b == cmd[c].box IN
  /\ cpc[c] = "raise"
  /\ flag' = [flag EXCEPT ![b] = TRUE]
  /\ raised' = [raised EXCEPT ![b] = @ + 1]
  /\ crossed' = [crossed EXCEPT ![b] = FALSE]
  /\ cpc' = [cpc EXCEPT ![c] = "pop"]
  /\ UNCHANGED <<data, lock, cmd, stored, received, agents, last, takes, clean,
                 applied>>

\* Mutant: a received packet has a buffer of its own length.
BufSizeOfPacket(size) == size

\* PopByte compares the position with the size of the buffer, which is
\* RECV_BUF_LEN for every received packet, not the size of the packet.
BufSize(size) == RECV_BUF_LEN
PopByteFails(size) ==
  XPACKET_HEADER_SIZE + 1 > BufSize(size) - XPACKET_TAIL_SIZE

\* When PopByte fails the function returns without unlocking.
Pop(c) ==
  /\ cpc[c] = "pop"
  /\ cpc' = [cpc EXCEPT ![c] = IF PopByteFails(cmd[c].size) THEN "idle"
                               ELSE IF cmd[c].keep THEN "unlock" ELSE "store"]
  /\ stored' = [stored EXCEPT ![c] = 0]
  /\ UNCHANGED <<boxes, cmd, received, agents, last, raised, takes, clean,
                 crossed, applied>>

Store(c) ==
  LET b == cmd[c].box
      p == stored[c] + 1
  IN
  /\ cpc[c] = "store"
  /\ data' = [data EXCEPT ![b][p] = cmd[c].n]
  /\ stored' = [stored EXCEPT ![c] = p]
  /\ cpc' = [cpc EXCEPT ![c] = IF p = Parts[b] THEN "unlock" ELSE "store"]
  /\ last' = [last EXCEPT ![b] = IF p = Parts[b] THEN cmd[c].n ELSE @]
  /\ UNCHANGED <<flag, lock, cmd, received, agents, raised, takes, clean,
                 crossed, applied>>

Unlock(c) ==
  /\ cpc[c] = "unlock"
  /\ lock' = [lock EXCEPT ![cmd[c].box] = NoClient]
  /\ cpc' = [cpc EXCEPT ![c] = "idle"]
  /\ cmd' = [cmd EXCEPT ![c] = NoCommand]
  /\ stored' = [stored EXCEPT ![c] = 0]
  /\ UNCHANGED <<flag, data, received, agents, last, raised, takes, clean,
                 crossed, applied>>

Set(c) == Lock(c) \/ Raise(c) \/ Pop(c) \/ Store(c) \/ Unlock(c)

-----------------------------------------------------------------------------
(* An agent looks into the boxes one after the other, without a lock.      *)

CheckFlag(a) ==
  /\ apc[a] = "check"
  /\ IF flag[abox[a]]
     THEN /\ apc' = [apc EXCEPT ![a] = "clear"]
          /\ UNCHANGED abox
     ELSE /\ abox' = [abox EXCEPT ![a] = NextBox[@]]
          /\ UNCHANGED apc
  /\ UNCHANGED <<boxes, clients, got, copied, last, raised, takes, clean,
                 crossed, applied>>

\* Mutant: the flag is not lowered.
ClearFlagNever(a) ==
  LET b == abox[a] IN
  /\ apc[a] = "clear"
  /\ takes' = [takes EXCEPT ![a][b] = @ + 1]
  /\ clean' = [clean EXCEPT ![a] = lock[b] = NoClient]
  /\ crossed' = [crossed EXCEPT ![b] = @ \/ lock[b] # NoClient]
  /\ apc' = [apc EXCEPT ![a] = "read"]
  /\ UNCHANGED <<boxes, clients, abox, got, copied, last, raised, applied>>

ClearFlag(a) ==
  LET b == abox[a] IN
  /\ apc[a] = "clear"
  /\ flag' = [flag EXCEPT ![b] = FALSE]
  /\ takes' = [takes EXCEPT ![a][b] = @ + 1]
  /\ clean' = [clean EXCEPT ![a] = lock[b] = NoClient]
  /\ crossed' = [crossed EXCEPT ![b] = @ \/ lock[b] # NoClient]
  /\ apc' = [apc EXCEPT ![a] = "read"]
  /\ UNCHANGED <<data, lock, clients, abox, got, copied, last, raised, applied>>

\* Mutant: every part is copied to the start.
ReadPartToStart(a) ==
  LET b == abox[a]
      p == copied[a] + 1
  IN
  /\ apc[a] = "read"
  /\ got' = [got EXCEPT ![a][1] = data[b][p]]
  /\ copied' = [copied EXCEPT ![a] = p]
  /\ apc' = [apc EXCEPT ![a] = IF p = Parts[b] THEN "apply" ELSE "read"]
  /\ UNCHANGED <<boxes, clients, abox, last, raised, takes, clean, crossed, applied>>

ReadPart(a) ==
  LET b == abox[a]
      p == copied[a] + 1
  IN
  /\ apc[a] = "read"
  /\ got' = [got EXCEPT ![a][p] = data[b][p]]
  /\ copied' = [copied EXCEPT ![a] = p]
  /\ apc' = [apc EXCEPT ![a] = IF p = Parts[b] THEN "apply" ELSE "read"]
  /\ UNCHANGED <<boxes, clients, abox, last, raised, takes, clean, crossed, applied>>

\* The agent changes its own zoom, angles or shift by what it got.
Apply(a) ==
  LET b == abox[a] IN
  /\ apc[a] = "apply"
  /\ applied' = [applied EXCEPT ![b] =
                   @ \cup {n \in Numbers : \A p \in PartsOf(b) : got[a][p] = n}]
  /\ apc' = [apc EXCEPT ![a] = "check"]
  /\ abox' = [abox EXCEPT ![a] = NextBox[@]]
  /\ got' = [got EXCEPT ![a] = Nothing]
  /\ copied' = [copied EXCEPT ![a] = 0]
  /\ UNCHANGED <<boxes, clients, last, raised, takes, clean, crossed>>

StatusInfo(a) == CheckFlag(a) \/ ClearFlag(a) \/ ReadPart(a) \/ Apply(a)

Next ==
  \/ \E c \in Clients : Receive(c) \/ Set(c)
  \/ \E a \in Agents : StatusInfo(a)

\* A client finishes the command it received, and agents run all the time;
\* nobody has to send a command.
Spec == Init /\ [][Next]_vars
FairSpec ==
  /\ Spec
  /\ \A c \in Clients : WF_vars(Set(c))
  /\ \A a \in Agents : WF_vars(StatusInfo(a))

-----------------------------------------------------------------------------

TypeOK ==
  /\ flag \in [Boxes -> BOOLEAN]
  /\ DOMAIN data = Boxes /\ \A b \in Boxes : data[b] \in [PartsOf(b) -> Numbers]
  /\ lock \in [Boxes -> Clients \cup {NoClient}]
  /\ cpc \in [Clients -> {"idle", "lock", "raise", "pop", "store", "unlock"}]
  /\ cmd \in [Clients -> Command]
  /\ stored \in [Clients -> Nat]
  /\ apc \in [Agents -> {"check", "clear", "read", "apply"}]
  /\ abox \in [Agents -> Boxes]
  /\ got \in [Agents -> [AllParts -> Numbers]]
  /\ copied \in [Agents -> Nat]
  /\ received \in Numbers
  /\ last \in [Boxes -> Numbers]
  /\ raised \in [Boxes -> Nat]
  /\ takes \in [Agents -> [Boxes -> Nat]]
  /\ clean \in [Agents -> BOOLEAN]
  /\ crossed \in [Boxes -> BOOLEAN]
  /\ applied \in [Boxes -> SUBSET Numbers]

\* Whoever wrote to a box, and in whatever order, a box that no client has
\* locked holds all the parts of one command, the last one that had data.
WholeAtRest ==
  \A b \in Boxes :
    lock[b] = NoClient => \A p \in PartsOf(b) : data[b][p] = last[b]

\* A take that no command meets yields that command, whole, although agents
\* read without the lock.
CleanTakeIsLast ==
  \A a \in Agents :
    apc[a] = "apply" /\ clean[a]
      => \A p \in PartsOf(abox[a]) : got[a][p] = last[abox[a]]

\* An agent acts on a box at most once per command: a single order to move
\* the camera never moves one agent's view twice more than it was sent.
TakesAtMostOncePerCommand ==
  \A a \in Agents, b \in Boxes : takes[a][b] <= raised[b]

Quiet(b) ==
  /\ lock[b] = NoClient /\ ~flag[b]
  /\ \A a \in Agents : abox[a] = b => apc[a] = "check"

\* A command is lost only if an agent lowered the flag while its data was
\* being stored: otherwise, when the box is quiet again, some agent has
\* applied the box's last command.
LostOnlyIfCrossed == \A b \in Boxes : Quiet(b) /\ ~crossed[b] => last[b] \in applied[b]

\* No command holds a client up for good: every lock is given back.
CommandsComplete == \A c \in Clients : cpc[c] = "lock" ~> cpc[c] = "idle"

=============================================================================
