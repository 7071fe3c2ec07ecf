--------------------------- MODULE DeviceRegistry ---------------------------
(***************************************************************************)
(* The list of agents, one per sensor, and the commands that change it.    *)
(* Client threads store a device and raise a flag (ManageDeviceAddDel) or  *)
(* choose the agents that obey commands (SetDeviceCheck); the manager      *)
(* thread polls the flag and adds or deletes agents.  The mutexes exclude  *)
(* clients from each other, and nothing excludes the manager from them.    *)
(*                                                                         *)
(* An iterator is the position of its element in the list; m_agents.end()  *)
(* is one more than the length.  The loops of DelAgent and SetDeviceCheck  *)
(* advance before they dereference.  What lies beyond the list, and a      *)
(* deleted agent, is no longer an agent: touching it crashes the program,  *)
(* or it compares unequal to every device and nothing is seen to change.   *)
(* Erasing an element closes the gap from the nearer end of the list, as   *)
(* libstdc++ does it, and moves the elements under the other iterators.    *)
(*                                                                         *)
(* No Proc of an agent returns DEATH_CODE and nobody but its destructor    *)
(* stops it, so no agent in the list is ever stopped, and what the loops   *)
(* (and GetDeviceInfo, which does nothing else) do with stopped agents is  *)
(* left out.  A received packet's buffer is long enough for every pop, as  *)
(* in CommandMailbox.                                                      *)
(***************************************************************************)
EXTENDS Integers, Sequences

CONSTANTS
  Clients,         \* client threads (ComPacketProc)
  NoClient,        \* the holder of a free lock
  Devices,
  NoDevice,        \* what a device info holds before it is set
  MaxCommands      \* bound: commands received

ASSUME DeviceRegistryAssumption ==
  /\ NoClient \notin Clients
  /\ NoDevice \notin Devices
  /\ MaxCommands \in Nat

VARIABLES
  m_device_manage_flag,  \* "off" (2), "add" or "del"
  m_device_info,         \* in two parts, which are copied one by one
  m_device_manage_lock,
  m_device_check_lock,
  m_agents,        \* the list: agents are numbered as they are made
  agent,           \* per agent: [m_deviceinfo, m_agent_run_flag, alive]
  crashed,         \* a dangling pointer has brought the program down
  mpc, itr, info,  \* the manager: where it is, its iterator, what it has read
  cpc, cmd, stored, citr,  \* per client, likewise
  received,        \* number of commands so far
  pending,         \* history: the flag was raised and not polled since
  crossed,         \* history: it was raised while the manager was adding
  clean,           \* history: no client was in ManageDeviceAddDel since the poll
  last             \* history: the device stored last

command == <<m_device_manage_flag, m_device_info, m_device_manage_lock>>
list == <<m_agents, agent>>
manager == <<mpc, itr, info>>
clients == <<cpc, cmd, stored, citr, received>>
history == <<pending, crossed, clean, last>>
vars == <<command, m_device_check_lock, list, crashed, manager, clients, history>>

Kinds == {"add", "del", "other", "check"}
Whole(d) == [p \in 1 .. 2 |-> d]
NoCommand == [kind |-> "check", device |-> NoDevice]
NewAgent == [m_deviceinfo |-> Whole(NoDevice), m_agent_run_flag |-> TRUE, alive |-> TRUE]
end == Len(m_agents) + 1

Init ==
  /\ m_device_manage_flag = "off" /\ m_device_info = Whole(NoDevice)
  /\ m_device_manage_lock = NoClient /\ m_device_check_lock = NoClient
  /\ m_agents = << >> /\ agent = << >>
  /\ crashed = FALSE
  /\ mpc = "poll" /\ itr = 1 /\ info = << >>
  /\ cpc = [c \in Clients |-> "idle"]
  /\ cmd = [c \in Clients |-> NoCommand]
  /\ stored = [c \in Clients |-> 0] /\ citr = [c \in Clients |-> 1]
  /\ received = 0
  /\ pending = FALSE /\ crossed = FALSE /\ clean = FALSE
  /\ last = NoDevice

-----------------------------------------------------------------------------
(* A client: ManageDeviceAddDel.                                           *)

\* SetDeviceCheck reads nothing from its packet, the others read a device.
Receive(c) ==
  /\ cpc[c] = "idle" /\ received < MaxCommands
  /\ received' = received + 1
  /\ \E k \in Kinds, d \in Devices :
       /\ cmd' = [cmd EXCEPT ![c] = IF k = "check" THEN NoCommand
                                     ELSE [kind |-> k, device |-> d]]
       /\ cpc' = [cpc EXCEPT ![c] = IF k = "check" THEN "lock" ELSE "raise"]
  /\ UNCHANGED <<command, m_device_check_lock, list, crashed, manager, stored,
                 citr, history>>

\* The lock is taken and the flag set; a sub-command that is neither leaves
\* the flag alone.
RaiseFlag(c) ==
  LET k == cmd[c].kind IN
  /\ cpc[c] = "raise" /\ m_device_manage_lock = NoClient
  /\ m_device_manage_lock' = c
  /\ IF k = "other" THEN UNCHANGED <<m_device_manage_flag, pending, crossed>>
     ELSE /\ m_device_manage_flag' = k
          /\ pending' = TRUE
          /\ crossed' = (mpc \in {"push", "read", "reset"})
  /\ clean' = FALSE
  /\ cpc' = [cpc EXCEPT ![c] = "copy"]
  /\ UNCHANGED <<m_device_info, m_device_check_lock, list, manager, cmd, stored,
                 citr, received, last>>

\* Mutant: the last part is not copied.
CopyPartShort(c) ==
  LET p == stored[c] + 1 IN
  /\ cpc[c] = "copy"
  /\ m_device_info' = [m_device_info EXCEPT ![p] = cmd[c].device]
  /\ stored' = [stored EXCEPT ![c] = p]
  /\ cpc' = [cpc EXCEPT ![c] = IF p = 1 THEN "unlock" ELSE "copy"]
  /\ UNCHANGED <<m_device_manage_flag, m_device_manage_lock, m_device_check_lock,
                 list, manager, cmd, citr, received, history>>

CopyPart(c) ==
  LET p == stored[c] + 1 IN
  /\ cpc[c] = "copy"
  /\ m_device_info' = [m_device_info EXCEPT ![p] = cmd[c].device]
  /\ stored' = [stored EXCEPT ![c] = p]
  /\ cpc' = [cpc EXCEPT ![c] = IF p = 2 THEN "unlock" ELSE "copy"]
  /\ UNCHANGED <<m_device_manage_flag, m_device_manage_lock, m_device_check_lock,
                 list, manager, cmd, citr, received, history>>

UnlockManage(c) ==
  /\ cpc[c] = "unlock"
  /\ m_device_manage_lock' = NoClient
  /\ last' = cmd[c].device
  /\ cpc' = [cpc EXCEPT ![c] = "idle"]
  /\ cmd' = [cmd EXCEPT ![c] = NoCommand]
  /\ stored' = [stored EXCEPT ![c] = 0]
  /\ UNCHANGED <<m_device_manage_flag, m_device_info, m_device_check_lock, list,
                 manager, citr, received, pending, crossed, clean>>

ManageDeviceAddDel(c) ==
  /\ RaiseFlag(c) \/ CopyPart(c) \/ UnlockManage(c)
  /\ UNCHANGED crashed

-----------------------------------------------------------------------------
(* A client: SetDeviceCheck.                                               *)

LockCheck(c) ==
  /\ cpc[c] = "lock" /\ m_device_check_lock = NoClient
  /\ m_device_check_lock' = c
  /\ cpc' = [cpc EXCEPT ![c] = "test"]
  /\ UNCHANGED <<command, list, crashed, manager, cmd, stored, citr, received,
                 pending, crossed, clean, last>>

\* What position i holds: before the list, where an erasure has moved the
\* beginning away, still the first agent, which is never erased.
At(i) == m_agents[IF i < 1 THEN 1 ELSE i]

\* The agent at position i can be used.
IsAgent(i) == i < end /\ agent[At(i)].alive

\* The loop condition, IsStopped and ++itr.  Beyond end() the loop does not
\* find its end any more and leaves the program's memory.
CheckNext(c) ==
  /\ cpc[c] = "test" /\ citr[c] # end
  /\ crashed' \in IF IsAgent(citr[c]) THEN {FALSE}
                  ELSE IF citr[c] > end THEN {TRUE} ELSE BOOLEAN
  /\ citr' = [citr EXCEPT ![c] = @ + 1]
  /\ cpc' = [cpc EXCEPT ![c] = "mark"]
  /\ UNCHANGED <<command, m_device_check_lock, list, manager, cmd, stored,
                 received, history>>

CompareDeviceInfo(a) == agent[a].m_deviceinfo = m_device_info

\* The info of an agent that has none yet is not initialised.
Outcomes(a) ==
  IF agent[a].m_deviceinfo = Whole(NoDevice) THEN BOOLEAN ELSE {CompareDeviceInfo(a)}

CheckMark(c) ==
  /\ cpc[c] = "mark"
  /\ IF IsAgent(citr[c])
     THEN LET a == At(citr[c]) IN
          /\ \E same \in Outcomes(a) :
               agent' = [agent EXCEPT ![a].m_agent_run_flag = same]
          /\ UNCHANGED crashed
     ELSE crashed' \in BOOLEAN /\ UNCHANGED agent
  /\ cpc' = [cpc EXCEPT ![c] = "test"]
  /\ UNCHANGED <<command, m_device_check_lock, m_agents, manager, cmd, stored,
                 citr, received, history>>

UnlockCheck(c) ==
  /\ cpc[c] = "test" /\ citr[c] = end
  /\ m_device_check_lock' = NoClient
  /\ cpc' = [cpc EXCEPT ![c] = "idle"]
  /\ cmd' = [cmd EXCEPT ![c] = NoCommand]
  /\ citr' = [citr EXCEPT ![c] = 1]
  /\ UNCHANGED <<command, list, crashed, manager, stored, received, history>>

SetDeviceCheck(c) == LockCheck(c) \/ CheckNext(c) \/ CheckMark(c) \/ UnlockCheck(c)

-----------------------------------------------------------------------------
(* The manager.                                                            *)

\* m_device_exits_flag, true for an empty list and for any other.
GetDeviceInfo == TRUE

\* agent_manager::Proc reads the flag.
Poll ==
  /\ mpc = "poll" /\ m_device_manage_flag # "off"
  /\ mpc' = IF m_device_manage_flag = "del" THEN "del"
            ELSE IF GetDeviceInfo THEN "push" ELSE "poll"
  /\ pending' = FALSE
  /\ clean' = (m_device_manage_lock = NoClient)
  /\ UNCHANGED <<command, m_device_check_lock, list, crashed, itr, info, clients,
                 crossed, last>>

\* AddAgent: the agent is in the list before it has a device.
PushBack ==
  /\ mpc = "push"
  /\ agent' = Append(agent, NewAgent)
  /\ m_agents' = Append(m_agents, Len(agent) + 1)
  /\ mpc' = "read"
  /\ UNCHANGED <<command, m_device_check_lock, crashed, itr, info, clients, pending,
                 crossed, clean, last>>

\* m_device_info is passed by value, copied part by part.
SetDeviceInfo ==
  LET parts == Append(info, m_device_info[Len(info) + 1]) IN
  /\ mpc = "read"
  /\ IF Len(parts) < 2
     THEN info' = parts /\ UNCHANGED <<mpc, agent>>
     ELSE /\ agent' = [agent EXCEPT ![Len(agent)].m_deviceinfo = parts]
          /\ info' = << >>
          /\ mpc' = "reset"
  /\ UNCHANGED <<command, m_device_check_lock, m_agents, crashed, itr, clients,
                 history>>

\* m_device_manage_flag = 2: whatever it is by now.
ResetFlag ==
  /\ mpc = "reset"
  /\ m_device_manage_flag' = "off"
  /\ mpc' = "poll"
  /\ UNCHANGED <<m_device_info, m_device_manage_lock, m_device_check_lock, list,
                 crashed, itr, info, clients, history>>

AddAgent == PushBack \/ SetDeviceInfo \/ ResetFlag

\* One turn of the loop in DelAgent, up to the comparison.  The info is
\* compared as it is at one moment: a mixture equals no whole device.
DelNext ==
  /\ mpc = "del" /\ itr # end
  /\ itr' = itr + 1
  /\ IF IsAgent(itr + 1)
     THEN /\ mpc' = IF CompareDeviceInfo(m_agents[itr + 1]) THEN "delete" ELSE "del"
          /\ UNCHANGED crashed
     ELSE /\ crashed' \in BOOLEAN
          /\ UNCHANGED mpc
  /\ UNCHANGED <<command, m_device_check_lock, list, info, clients, history>>

DeleteAgent ==
  /\ mpc = "delete"
  /\ agent' = [agent EXCEPT ![m_agents[itr]].alive = FALSE]
  /\ mpc' = "erase"
  /\ UNCHANGED <<command, m_device_check_lock, m_agents, crashed, itr, info,
                 clients, pending, crossed, clean, last>>

\* Mutant: the iterator is advanced before the erasure.
EraseNext ==
  /\ mpc = "erase"
  /\ m_agents' = SubSeq(m_agents, 1, itr) \o SubSeq(m_agents, itr + 2, Len(m_agents))
  /\ LET shift == IF itr - 1 < Len(m_agents) \div 2 THEN 1 ELSE 0
     IN citr' = [c \in Clients |-> IF cpc[c] \in {"test", "mark"}
                                   THEN citr[c] - shift ELSE citr[c]]
  /\ mpc' = "del"
  /\ UNCHANGED <<command, m_device_check_lock, agent, crashed, itr, info, cpc, cmd,
                 stored, received, history>>

\* If the gap is closed from the front, every iterator of a client comes to
\* be one position nearer to the beginning.
Erase ==
  /\ mpc = "erase"
  /\ m_agents' = SubSeq(m_agents, 1, itr - 1) \o SubSeq(m_agents, itr + 1, Len(m_agents))
  /\ LET shift == IF itr - 1 < Len(m_agents) \div 2 THEN 1 ELSE 0
     IN citr' = [c \in Clients |-> IF cpc[c] \in {"test", "mark"}
                                   THEN citr[c] - shift ELSE citr[c]]
  /\ mpc' = "del"
  /\ UNCHANGED <<command, m_device_check_lock, agent, crashed, itr, info, cpc, cmd,
                 stored, received, history>>

\* Mutant: the flag is lowered after one pass, as in AddAgent.
DelEndResets ==
  /\ mpc = "del" /\ itr = end
  /\ mpc' = "poll" /\ itr' = 1
  /\ m_device_manage_flag' = "off"
  /\ UNCHANGED <<m_device_info, m_device_manage_lock, m_device_check_lock, list,
                 crashed, info, clients, history>>

\* The flag stays: the next Proc runs DelAgent again.
DelEnd ==
  /\ mpc = "del" /\ itr = end
  /\ mpc' = "poll" /\ itr' = 1
  /\ UNCHANGED <<command, m_device_check_lock, list, crashed, info, clients, history>>

DelAgent == DelNext \/ DeleteAgent \/ Erase \/ DelEnd

Manager == ~crashed /\ (Poll \/ AddAgent \/ DelAgent)
Client(c) == ~crashed /\ (ManageDeviceAddDel(c) \/ SetDeviceCheck(c))

Next ==
  \/ \E c \in Clients : ~crashed /\ Receive(c)
  \/ \E c \in Clients : Client(c)
  \/ Manager

\* The manager's Proc runs all the time, and a client finishes its command.
Spec == Init /\ [][Next]_vars
FairSpec == Spec /\ WF_vars(Manager) /\ \A c \in Clients : WF_vars(Client(c))

-----------------------------------------------------------------------------

\* An agent made while no client stored a device is for the device stored
\* last, whole, although m_device_info is copied without the clients' lock.
AgentForLastDevice ==
  mpc = "reset" /\ clean => agent[Len(agent)].m_deviceinfo = Whole(last)

\* A flag is lowered before the manager has seen it only if it was raised
\* while the manager was adding an agent: AddAgent lowers it blindly.
FlagLostOnlyIfCrossed == m_device_manage_flag = "off" /\ pending => crossed

\* The agents in the list are those that were not deleted, each once: the
\* manager itself never meets a deleted agent, and forgets no live one.
ListIsAlive ==
  /\ \A i, j \in 1 .. Len(m_agents) : i # j => m_agents[i] # m_agents[j]
  /\ \A a \in 1 .. Len(agent) :
       agent[a].alive <=> \E i \in 1 .. Len(m_agents) :
                            m_agents[i] = a /\ ~(mpc = "erase" /\ i = itr)

\* A DEL command is carried out in the end on every agent of the device but
\* the first of the list, although one pass of DelAgent skips the agent after
\* a deleted one: the flag stays until nothing is left to delete.  Excused is
\* a command that AddAgent's blind reset has swallowed or an ADD has replaced,
\* and a crash of the program.
DelCompletes ==
  m_device_manage_flag = "del" ~>
    \/ crashed \/ crossed \/ m_device_manage_flag = "add"
    \/ \A i \in 2 .. Len(m_agents) : ~CompareDeviceInfo(m_agents[i])

\* What the comment in agent_manager::Proc announces of GetDeviceInfo, that it
\* deals with duplicates: no two agents for one device.  It does not hold:
\* GetDeviceInfo says yes to every device.
NoDuplicateDevice ==
  \A i, j \in 1 .. Len(m_agents) : \A d \in Devices :
    /\ agent[m_agents[i]].m_deviceinfo = Whole(d)
    /\ agent[m_agents[j]].m_deviceinfo = Whole(d)
    => i = j

=============================================================================
