------------------------ MODULE DeviceRegistryProofs ------------------------
(***************************************************************************)
(* For any number of clients, devices and commands: the list holds every   *)
(* agent that lives, once; an agent that no command met is for the device  *)
(* stored last; and a command is lost only to AddAgent's blind reset.      *)
(***************************************************************************)
EXTENDS DeviceRegistry, SequenceTheorems, TLAPS

Infos == [1 .. 2 -> Devices \cup {NoDevice}]
Agents == [m_deviceinfo : Infos, m_agent_run_flag : BOOLEAN, alive : BOOLEAN]

CommandTypes ==
  /\ m_device_manage_flag \in {"off"} \cup Kinds
  /\ m_device_info \in Infos
  /\ m_device_manage_lock \in Clients \cup {NoClient}
  /\ last \in Devices \cup {NoDevice}
  /\ cpc \in [Clients -> {"idle", "raise", "copy", "unlock", "lock", "test", "mark"}]
  /\ cmd \in [Clients -> [kind : Kinds, device : Devices \cup {NoDevice}]]
  /\ stored \in [Clients -> 0 .. 2]

ListTypes ==
  /\ agent \in Seq(Agents)
  /\ m_agents \in Seq(Nat) /\ \A i \in 1 .. Len(m_agents) : m_agents[i] \in 1 .. Len(agent)
  /\ mpc \in {"poll", "push", "read", "reset", "del", "delete", "erase"}
  /\ itr \in Nat \ {0}
  /\ mpc \in {"delete", "erase"} => itr <= Len(m_agents)
  /\ info \in Seq(Devices \cup {NoDevice}) /\ Len(info) <= 1
  /\ mpc # "read" => info = << >>
  /\ mpc \in {"read", "reset"} => agent # << >>

\* What a client holds and has stored.
Storing(c) ==
  /\ cpc[c] \in {"copy", "unlock"} => m_device_manage_lock = c
  /\ cpc[c] = "copy" => stored[c] < 2
  /\ cpc[c] = "unlock" => stored[c] = 2
  /\ cpc[c] \notin {"copy", "unlock"} => stored[c] = 0
  /\ cpc[c] \in {"copy", "unlock"} =>
       \A p \in 1 .. stored[c] : m_device_info[p] = cmd[c].device

\* What was stored when nobody is storing.
AtRest ==
  /\ m_device_manage_lock = NoClient => m_device_info = Whole(last)
  /\ clean => m_device_manage_lock = NoClient

StoreInv == (\A c \in Clients : Storing(c)) /\ AtRest

\* What the manager has copied for the agent it is adding.
CopyInv ==
  /\ clean => \A i \in 1 .. Len(info) : info[i] = last
  /\ AgentForLastDevice

\* A command that comes while the manager is adding may be lost.
LossInv ==
  /\ FlagLostOnlyIfCrossed
  /\ pending /\ mpc \in {"push", "read", "reset"} => crossed

Inv == CommandTypes /\ ListTypes /\ StoreInv /\ CopyInv /\ LossInv /\ ListIsAlive

LEMMA WholeType ==
  ASSUME NEW d \in Devices \cup {NoDevice}
  PROVE  Whole(d) \in Infos
  BY DEF Whole, Infos

LEMMA InvInit == Init => Inv
  <1> SUFFICES ASSUME Init PROVE Inv
    OBVIOUS
  <1>1. CommandTypes
    BY WholeType DEF Init, CommandTypes, Kinds, NoCommand
  <1>2. ListTypes
    BY DEF Init, ListTypes
  <1>3. StoreInv
    BY DeviceRegistryAssumption DEF Init, StoreInv, Storing, AtRest
  <1>4. CopyInv /\ LossInv /\ ListIsAlive
    BY DEF Init, CopyInv, LossInv, ListIsAlive, AgentForLastDevice, FlagLostOnlyIfCrossed
  <1> QED BY <1>1, <1>2, <1>3, <1>4 DEF Inv

-----------------------------------------------------------------------------
(* Sequences.                                                              *)

\* What lies between two positions.
LEMMA Part ==
  ASSUME NEW s \in Seq(Nat), NEW n \in Nat, n = Len(s), NEW d \in Nat, NEW e \in 0 .. n, d <= e
  PROVE  /\ SubSeq(s, d + 1, e) \in Seq(Nat)
         /\ Len(SubSeq(s, d + 1, e)) = e - d
         /\ \A i \in 1 .. e - d : SubSeq(s, d + 1, e)[i] = s[d + i]
  <1>1. \A i \in d + 1 .. e : i \in 1 .. n
    OBVIOUS
  <1>2. \A i \in d + 1 .. e : s[i] \in Nat
    BY <1>1
  <1>3. /\ SubSeq(s, d + 1, e) \in Seq(Nat)
        /\ Len(SubSeq(s, d + 1, e)) = IF d + 1 <= e THEN e - (d + 1) + 1 ELSE 0
        /\ \A i \in 1 .. e - (d + 1) + 1 : SubSeq(s, d + 1, e)[i] = s[(d + 1) + i - 1]
    <2>1. d + 1 \in Int /\ e \in Int
      OBVIOUS
    <2> QED BY <1>2, <2>1, SubSeqProperties
  <1> DEFINE u == SubSeq(s, d + 1, e)
  <1> HIDE DEF u
  <1>4. /\ e - (d + 1) + 1 = e - d
        /\ \A i \in 1 .. e - d : (d + 1) + i - 1 = d + i
        /\ d + 1 <= e \/ e - d = 0
    OBVIOUS
  <1>5. /\ u \in Seq(Nat) /\ Len(u) = IF d + 1 <= e THEN e - (d + 1) + 1 ELSE 0
        /\ \A i \in 1 .. e - (d + 1) + 1 : u[i] = s[(d + 1) + i - 1]
    BY <1>3 DEF u
  <1>6. Len(u) = e - d
    BY <1>4, <1>5
  <1>7. \A i \in 1 .. e - d : u[i] = s[d + i]
    BY <1>4, <1>5
  <1> QED BY <1>5, <1>6, <1>7 DEF u

\* Without the element at k.
LEMMA Erased ==
  ASSUME NEW s \in Seq(Nat), NEW k \in 1 .. Len(s)
  PROVE  LET t == SubSeq(s, 1, k - 1) \o SubSeq(s, k + 1, Len(s))
         IN /\ t \in Seq(Nat) /\ Len(t) = Len(s) - 1
            /\ \A i \in 1 .. Len(s) - 1 : t[i] = IF i < k THEN s[i] ELSE s[i + 1]
  <1> DEFINE l == SubSeq(s, 1, k - 1)
             r == SubSeq(s, k + 1, Len(s))
  <1>1. PICK n \in Nat : n = Len(s)
    OBVIOUS
  <1>2. k \in Nat /\ k \in 1 .. n /\ k - 1 \in 0 .. n /\ 0 <= k - 1 /\ n \in 0 .. n /\ k <= n
    BY <1>1
  <1>3. /\ l \in Seq(Nat) /\ Len(l) = k - 1 /\ \A i \in 1 .. k - 1 : l[i] = s[i]
    <2>1. 0 \in Nat /\ 0 + 1 = 1 /\ (k - 1) - 0 = k - 1 /\ \A i \in 1 .. k - 1 : 0 + i = i
      BY <1>2
    <2>2. /\ SubSeq(s, 0 + 1, k - 1) \in Seq(Nat)
          /\ Len(SubSeq(s, 0 + 1, k - 1)) = (k - 1) - 0
          /\ \A i \in 1 .. (k - 1) - 0 : SubSeq(s, 0 + 1, k - 1)[i] = s[0 + i]
      BY <1>1, <1>2, Part
    <2> QED BY <2>1, <2>2
  <1>4. /\ r \in Seq(Nat) /\ Len(r) = n - k /\ \A i \in 1 .. n - k : r[i] = s[k + i]
    BY <1>1, <1>2, Part
  <1> HIDE DEF l, r
  <1>5. /\ l \o r \in Seq(Nat) /\ Len(l \o r) = Len(l) + Len(r)
        /\ \A i \in 1 .. Len(l) + Len(r) :
             (l \o r)[i] = IF i <= Len(l) THEN l[i] ELSE r[i - Len(l)]
    BY <1>3, <1>4, ConcatProperties
  <1>6. Len(l) + Len(r) = n - 1
    BY <1>2, <1>3, <1>4
  <1>7. \A i \in 1 .. n - 1 : (l \o r)[i] = IF i <= k - 1 THEN l[i] ELSE r[i - (k - 1)]
    BY <1>3, <1>5, <1>6
  <1>8. ASSUME NEW i \in 1 .. n - 1
        PROVE  (l \o r)[i] = IF i < k THEN s[i] ELSE s[i + 1]
    <2>1. CASE i < k
      <3>1. i <= k - 1 /\ i \in 1 .. k - 1
        BY <1>2, <2>1
      <3>2. (l \o r)[i] = l[i]
        BY <1>7, <3>1
      <3> QED BY <1>3, <2>1, <3>1, <3>2
    <2>2. CASE ~(i < k)
      <3>1. ~(i <= k - 1) /\ i - (k - 1) \in 1 .. n - k /\ k + (i - (k - 1)) = i + 1
        BY <1>2, <2>2
      <3>2. (l \o r)[i] = r[i - (k - 1)]
        BY <1>7, <3>1
      <3>3. r[i - (k - 1)] = s[k + (i - (k - 1))]
        BY <1>4, <3>1
      <3> QED BY <2>2, <3>1, <3>2, <3>3
    <2> QED BY <2>1, <2>2
  <1>9. l \o r \in Seq(Nat) /\ Len(l \o r) = Len(s) - 1
    BY <1>1, <1>5, <1>6
  <1> QED BY <1>1, <1>8, <1>9 DEF l, r

\* t, of length m, is s without the element at k.
Without(s, t, m, k) == \A i \in 1 .. m : t[i] = IF i < k THEN s[i] ELSE s[i + 1]

\* Nothing but that element is missing, and nothing is doubled.
KeepsOthers(s, t, n, m, k) ==
  /\ \A i \in 1 .. n : i # k => \E j \in 1 .. m : t[j] = s[i]
  /\ \A i \in 1 .. m : \E j \in 1 .. n : j # k /\ s[j] = t[i]
  /\ (\A i, j \in 1 .. n : i # j => s[i] # s[j])
       => \A i, j \in 1 .. m : i # j => t[i] # t[j]

LEMMA ErasedMembers ==
  ASSUME NEW s, NEW t, NEW n \in Nat, NEW m \in Nat, m = n - 1, NEW k \in 1 .. n,
         Without(s, t, m, k)
  PROVE  KeepsOthers(s, t, n, m, k)
  <1>0. \A i \in 1 .. m : t[i] = IF i < k THEN s[i] ELSE s[i + 1]
    BY DEF Without
  <1> DEFINE from(x) == IF x < k THEN x ELSE x + 1
  <1>1. \A i \in 1 .. m : from(i) \in 1 .. n /\ from(i) # k /\ t[i] = s[from(i)]
    BY <1>0
  <1>2. \A i, j \in 1 .. m : i # j => from(i) # from(j)
    OBVIOUS
  <1>3. ASSUME NEW i \in 1 .. n, i # k
        PROVE  \E j \in 1 .. m : t[j] = s[i]
    <2>1. CASE i < k
      <3>1. i \in 1 .. m
        BY <2>1
      <3>2. t[i] = s[i]
        BY <1>0, <2>1, <3>1
      <3> QED BY <3>1, <3>2
    <2>2. CASE i > k
      <3>1. i - 1 \in 1 .. m /\ t[i - 1] = s[i]
        BY <1>0, <2>2
      <3> QED BY <3>1
    <2> QED BY <1>3, <2>1, <2>2
  <1> HIDE DEF from
  <1>4. \A i \in 1 .. m : \E j \in 1 .. n : j # k /\ s[j] = t[i]
    BY <1>1
  <1>5. ASSUME \A i, j \in 1 .. n : i # j => s[i] # s[j],
               NEW i \in 1 .. m, NEW j \in 1 .. m, i # j
        PROVE  t[i] # t[j]
    BY <1>1, <1>2, <1>5
  <1> QED BY <1>3, <1>4, <1>5 DEF KeepsOthers

-----------------------------------------------------------------------------

LEMMA ListFrame ==
  ASSUME ListTypes, ListIsAlive, UNCHANGED <<m_agents, agent, mpc, itr, info>>
  PROVE  ListTypes' /\ ListIsAlive'
  <1>1. ListTypes'
    BY DEF ListTypes
  <1>2. ListIsAlive'
    BY DEF ListIsAlive
  <1> QED BY <1>1, <1>2

LEMMA ReceivePreserves ==
  ASSUME Inv, NEW c \in Clients, Receive(c)
  PROVE  Inv'
  <1> USE DEF Receive, command, list, manager, history
  <1>0. CommandTypes /\ ListTypes /\ StoreInv /\ CopyInv /\ LossInv /\ ListIsAlive
    BY DEF Inv
  <1>1. CommandTypes'
    <2>1. NoCommand \in [kind : Kinds, device : Devices \cup {NoDevice}]
      BY DEF NoCommand, Kinds
    <2> QED BY <1>0, <2>1 DEF CommandTypes
  <1>2. ListTypes' /\ ListIsAlive'
    BY <1>0, ListFrame
  <1>3. StoreInv'
    <2>1. cpc'[c] \in {"lock", "raise"}
      BY <1>0 DEF CommandTypes
    <2>2. \A d \in Clients : d # c => cpc'[d] = cpc[d] /\ cmd'[d] = cmd[d]
      BY <1>0 DEF CommandTypes
    <2> QED BY <1>0, <2>1, <2>2 DEF StoreInv, Storing, AtRest
  <1>4. CopyInv' /\ LossInv'
    BY <1>0 DEF CopyInv, LossInv, AgentForLastDevice, FlagLostOnlyIfCrossed
  <1> QED BY <1>1, <1>2, <1>3, <1>4 DEF Inv

LEMMA ManagePreserves ==
  ASSUME Inv, NEW c \in Clients, ManageDeviceAddDel(c)
  PROVE  Inv'
  <1> USE DEF list, manager, history
  <1>0. CommandTypes /\ ListTypes /\ StoreInv /\ CopyInv /\ LossInv /\ ListIsAlive
    BY DEF Inv
  <1>a. UNCHANGED <<m_agents, agent, mpc, itr, info>>
    BY DEF ManageDeviceAddDel, RaiseFlag, CopyPart, UnlockManage
  <1>b. ListTypes' /\ ListIsAlive'
    BY <1>0, <1>a, ListFrame
  <1>1. CASE RaiseFlag(c)
    <2> USE <1>0, <1>1 DEF RaiseFlag
    <2>1. cmd[c].kind \in Kinds
      BY DEF CommandTypes
    <2>2. CommandTypes'
      BY <2>1 DEF CommandTypes
    <2>3. StoreInv'
      <3>1. \A d \in Clients : cpc[d] \notin {"copy", "unlock"}
        BY DeviceRegistryAssumption DEF StoreInv, Storing
      <3>2. cpc'[c] = "copy" /\ \A d \in Clients : d # c => cpc'[d] = cpc[d]
        BY DEF CommandTypes
      <3>3. stored[c] = 0 /\ 1 .. 0 = {}
        BY <3>1 DEF StoreInv, Storing
      <3>4. Storing(c)'
        BY <3>2, <3>3 DEF Storing
      <3>5. \A d \in Clients : d # c => Storing(d)'
        BY <3>1, <3>2 DEF StoreInv, Storing
      <3>6. AtRest'
        BY DeviceRegistryAssumption DEF AtRest
      <3> QED BY <3>4, <3>5, <3>6 DEF StoreInv
    <2>4. CopyInv'
      BY <1>a DEF CopyInv, AgentForLastDevice
    <2>5. LossInv'
      <3>1. CASE cmd[c].kind = "other"
        BY <1>a, <3>1 DEF LossInv, FlagLostOnlyIfCrossed
      <3>2. CASE cmd[c].kind # "other"
        <4>1. m_device_manage_flag' # "off" /\ crossed' = (mpc \in {"push", "read", "reset"})
          BY <2>1, <3>2 DEF Kinds
        <4>2. mpc' \in {"push", "read", "reset"} => crossed'
          BY <1>a, <4>1
        <4> QED BY <4>1, <4>2 DEF LossInv, FlagLostOnlyIfCrossed
      <3> QED BY <3>1, <3>2
    <2> QED BY <1>b, <2>2, <2>3, <2>4, <2>5 DEF Inv
  <1>2. CASE CopyPart(c)
    <2> USE <1>0, <1>2 DEF CopyPart
    <2>0. /\ m_device_manage_lock = c /\ c # NoClient /\ stored[c] \in {0, 1} /\ ~clean
          /\ m_device_info' = [m_device_info EXCEPT ![stored[c] + 1] = cmd[c].device]
          /\ stored' = [stored EXCEPT ![c] = stored[c] + 1]
          /\ cpc' = [cpc EXCEPT ![c] = IF stored[c] + 1 = 2 THEN "unlock" ELSE "copy"]
      BY DeviceRegistryAssumption DEF CommandTypes, StoreInv, Storing, AtRest
    <2>1. CommandTypes'
      BY <2>0 DEF CommandTypes, Infos
    <2>2. StoreInv'
      <3>1. \A d \in Clients : d # c => cpc[d] \notin {"copy", "unlock"}
        BY <2>0 DEF StoreInv, Storing
      <3>2. \A d \in Clients : d # c => cpc'[d] = cpc[d] /\ stored'[d] = stored[d]
        BY <2>0 DEF CommandTypes
      <3>3. \A d \in Clients : d # c => Storing(d)'
        BY <3>1, <3>2 DEF StoreInv, Storing
      <3>4. Storing(c)'
        <4>1. /\ stored'[c] = stored[c] + 1 /\ cmd' = cmd
              /\ cpc'[c] = IF stored[c] + 1 = 2 THEN "unlock" ELSE "copy"
          BY <2>0 DEF CommandTypes
        <4>2. \A p \in 1 .. stored'[c] : p \in 1 .. stored[c] \/ p = stored[c] + 1
          BY <2>0, <4>1
        <4>3. m_device_info'[stored[c] + 1] = cmd[c].device
          BY <2>0 DEF CommandTypes, Infos
        <4>4. \A p \in 1 .. stored[c] : m_device_info'[p] = m_device_info[p]
          BY <2>0 DEF CommandTypes, Infos
        <4>5. \A p \in 1 .. stored'[c] : m_device_info'[p] = cmd[c].device
          BY <4>2, <4>3, <4>4 DEF StoreInv, Storing
        <4> QED BY <2>0, <4>1, <4>5 DEF Storing
      <3>5. AtRest'
        BY <2>0 DEF AtRest
      <3> QED BY <3>3, <3>4, <3>5 DEF StoreInv
    <2>3. CopyInv'
      BY <2>0 DEF CopyInv, AgentForLastDevice
    <2>4. LossInv'
      BY <1>a DEF LossInv, FlagLostOnlyIfCrossed
    <2> QED BY <1>b, <2>1, <2>2, <2>3, <2>4 DEF Inv
  <1>3. CASE UnlockManage(c)
    <2> USE <1>0, <1>3 DEF UnlockManage
    <2>0. m_device_manage_lock = c /\ c # NoClient /\ stored[c] = 2 /\ ~clean
      BY DeviceRegistryAssumption DEF StoreInv, Storing, AtRest
    <2>1. CommandTypes'
      BY DEF CommandTypes, Kinds, NoCommand
    <2>2. StoreInv'
      <3>1. \A d \in Clients : d # c => cpc[d] \notin {"copy", "unlock"}
        BY <2>0 DEF StoreInv, Storing
      <3>2. /\ cpc'[c] = "idle" /\ stored'[c] = 0
            /\ \A d \in Clients : d # c => cpc'[d] = cpc[d] /\ stored'[d] = stored[d]
        BY DEF CommandTypes
      <3>3. \A d \in Clients : Storing(d)'
        BY <3>1, <3>2 DEF StoreInv, Storing
      <3>4. m_device_info = Whole(cmd[c].device)
        <4>1. \A p \in 1 .. 2 : m_device_info[p] = cmd[c].device
          BY <2>0 DEF StoreInv, Storing
        <4> QED BY <4>1 DEF CommandTypes, Infos, Whole
      <3>5. AtRest'
        BY <2>0, <3>4 DEF AtRest
      <3> QED BY <3>3, <3>5 DEF StoreInv
    <2>3. CopyInv'
      BY <2>0 DEF CopyInv, AgentForLastDevice
    <2>4. LossInv'
      BY <1>a DEF LossInv, FlagLostOnlyIfCrossed
    <2> QED BY <1>b, <2>1, <2>2, <2>3, <2>4 DEF Inv
  <1> QED BY <1>1, <1>2, <1>3 DEF ManageDeviceAddDel

\* Choosing agents changes run flags only.
LEMMA CheckPreserves ==
  ASSUME Inv, NEW c \in Clients, SetDeviceCheck(c)
  PROVE  Inv'
  <1> USE DEF command, list, manager, history
  <1>0. CommandTypes /\ ListTypes /\ StoreInv /\ CopyInv /\ LossInv /\ ListIsAlive
    BY DEF Inv
  <1>1. /\ UNCHANGED <<command, manager, m_agents, stored, history>>
        /\ cpc[c] \in {"lock", "test", "mark"}
        /\ \E l \in {"test", "mark", "idle"} : cpc' = [cpc EXCEPT ![c] = l]
        /\ cmd' \in {cmd, [cmd EXCEPT ![c] = NoCommand]}
    BY DEF SetDeviceCheck, LockCheck, CheckNext, CheckMark, UnlockCheck
  <1>2. \/ agent' = agent
        \/ \E a, same : same \in BOOLEAN /\ agent' = [agent EXCEPT ![a].m_agent_run_flag = same]
    <2>1. \A a : Outcomes(a) \subseteq BOOLEAN
      BY DEF Outcomes, CompareDeviceInfo
    <2> QED BY <2>1 DEF SetDeviceCheck, LockCheck, CheckNext, CheckMark, UnlockCheck
  <1>3. /\ agent' \in Seq(Agents) /\ Len(agent') = Len(agent)
        /\ \A a \in 1 .. Len(agent) : /\ agent'[a].alive = agent[a].alive
                                      /\ agent'[a].m_deviceinfo = agent[a].m_deviceinfo
    <2>1. CASE agent' = agent
      BY <1>0, <2>1 DEF ListTypes
    <2>2. ASSUME NEW a, NEW same \in BOOLEAN, agent' = [agent EXCEPT ![a].m_agent_run_flag = same]
          PROVE  /\ agent' \in Seq(Agents) /\ Len(agent') = Len(agent)
                 /\ \A b \in 1 .. Len(agent) : /\ agent'[b].alive = agent[b].alive
                                               /\ agent'[b].m_deviceinfo = agent[b].m_deviceinfo
      <3> DEFINE new == [agent[a] EXCEPT !.m_agent_run_flag = same]
      <3>1. agent' = [agent EXCEPT ![a] = new]
        BY <2>2
      <3>2. CASE a \in 1 .. Len(agent)
        <4>1. agent[a] \in Agents
          BY <1>0, <3>2 DEF ListTypes
        <4>2. /\ new \in Agents /\ new.alive = agent[a].alive
              /\ new.m_deviceinfo = agent[a].m_deviceinfo
          BY <4>1 DEF Agents
        <4> HIDE DEF new
        <4> QED BY <1>0, <3>1, <3>2, <4>2, ExceptSeq DEF ListTypes
      <3>3. CASE a \notin 1 .. Len(agent)
        <4>1. agent' = agent
          BY <1>0, <3>1, <3>3 DEF ListTypes
        <4> QED BY <1>0, <4>1 DEF ListTypes
      <3> QED BY <3>2, <3>3
    <2> QED BY <1>2, <2>1, <2>2
  <1>4. CommandTypes'
    BY <1>0, <1>1 DEF CommandTypes, NoCommand, Kinds
  <1>5. ListTypes'
    BY <1>0, <1>1, <1>3 DEF ListTypes
  <1>6. StoreInv'
    <2>1. /\ cpc'[c] \notin {"copy", "unlock"}
          /\ \A d \in Clients : d # c => cpc'[d] = cpc[d] /\ cmd'[d] = cmd[d]
      BY <1>0, <1>1 DEF CommandTypes
    <2> QED BY <1>0, <1>1, <2>1 DEF StoreInv, Storing, AtRest
  <1>7. CopyInv'
    <2>1. mpc = "reset" => Len(agent) \in 1 .. Len(agent)
      BY <1>0 DEF ListTypes
    <2> QED BY <1>0, <1>1, <1>3, <2>1 DEF CopyInv, AgentForLastDevice
  <1>8. LossInv'
    BY <1>0, <1>1 DEF LossInv, FlagLostOnlyIfCrossed
  <1>9. ListIsAlive'
    BY <1>0, <1>1, <1>3 DEF ListIsAlive
  <1> QED BY <1>4, <1>5, <1>6, <1>7, <1>8, <1>9 DEF Inv

-----------------------------------------------------------------------------

LEMMA AddPreserves ==
  ASSUME Inv, Poll \/ AddAgent
  PROVE  Inv'
  <1> USE DEF command, list, clients, history
  <1>0. CommandTypes /\ ListTypes /\ StoreInv /\ CopyInv /\ LossInv /\ ListIsAlive
    BY DEF Inv
  <1>a. UNCHANGED <<m_device_info, m_device_manage_lock, cpc, cmd, stored, last, itr>>
    BY DEF Poll, AddAgent, PushBack, SetDeviceInfo, ResetFlag
  <1>b. clean' => m_device_manage_lock = NoClient
    BY <1>0 DEF Poll, AddAgent, PushBack, SetDeviceInfo, ResetFlag, StoreInv, AtRest
  <1>c. StoreInv'
    BY <1>0, <1>a, <1>b DEF StoreInv, Storing, AtRest
  <1>d. CommandTypes'
    BY <1>0, <1>a DEF Poll, AddAgent, PushBack, SetDeviceInfo, ResetFlag, CommandTypes
  <1>1. CASE Poll
    <2> USE <1>0, <1>1 DEF Poll
    <2>1. mpc' \in {"poll", "push", "del"} /\ info = << >> /\ UNCHANGED <<agent, m_agents, info>>
      BY DEF ListTypes
    <2>2. ListTypes'
      BY <1>a, <2>1 DEF ListTypes
    <2>3. CopyInv'
      BY <2>1 DEF CopyInv, AgentForLastDevice
    <2>4. LossInv'
      BY DEF LossInv, FlagLostOnlyIfCrossed
    <2>5. ListIsAlive'
      BY <1>a, <2>1 DEF ListIsAlive
    <2> QED BY <1>c, <1>d, <2>2, <2>3, <2>4, <2>5 DEF Inv
  <1>2. CASE PushBack
    <2> USE <1>0, <1>2 DEF PushBack
    <2>0. /\ NewAgent \in Agents /\ NewAgent.alive = TRUE
          /\ Len(agent) \in Nat /\ Len(m_agents) \in Nat
      BY WholeType DEF NewAgent, Agents, ListTypes
    <2>1. /\ agent' \in Seq(Agents) /\ Len(agent') = Len(agent) + 1
          /\ agent'[Len(agent) + 1] = NewAgent
          /\ \A a \in 1 .. Len(agent) : agent'[a] = agent[a]
      BY <2>0 DEF ListTypes
    <2>2. /\ m_agents' \in Seq(Nat) /\ Len(m_agents') = Len(m_agents) + 1
          /\ m_agents'[Len(m_agents) + 1] = Len(agent) + 1
          /\ \A i \in 1 .. Len(m_agents) : m_agents'[i] = m_agents[i] /\ m_agents[i] \in 1 .. Len(agent)
      BY <2>0 DEF ListTypes
    <2>3. \A i \in 1 .. Len(m_agents') : i \in 1 .. Len(m_agents) \/ i = Len(m_agents) + 1
      BY <2>0, <2>2
    <2>4. ListTypes'
      <3>1. \A i \in 1 .. Len(m_agents') : m_agents'[i] \in 1 .. Len(agent')
        BY <2>0, <2>1, <2>2, <2>3
      <3>2. agent' # << >>
        BY <2>0, <2>1
      <3> QED BY <1>a, <2>1, <2>2, <3>1, <3>2 DEF ListTypes
    <2>5. CopyInv'
      BY DEF CopyInv, AgentForLastDevice, ListTypes
    <2>6. LossInv'
      BY DEF LossInv, FlagLostOnlyIfCrossed
    <2>7. ListIsAlive'
      <3>1. \A i, j \in 1 .. Len(m_agents') : i # j => m_agents'[i] # m_agents'[j]
        <4> SUFFICES ASSUME NEW i \in 1 .. Len(m_agents'), NEW j \in 1 .. Len(m_agents'),
                            m_agents'[i] = m_agents'[j]
                     PROVE  i = j
          OBVIOUS
        <4>1. CASE i \in 1 .. Len(m_agents) /\ j \in 1 .. Len(m_agents)
          BY <2>2, <4>1 DEF ListIsAlive
        <4>2. CASE i = Len(m_agents) + 1 \/ j = Len(m_agents) + 1
          BY <2>0, <2>2, <2>3, <4>2
        <4> QED BY <2>3, <4>1, <4>2
      <3>2. \A a \in 1 .. Len(agent) :
              agent'[a].alive <=> \E i \in 1 .. Len(m_agents') : m_agents'[i] = a
        <4> SUFFICES ASSUME NEW a \in 1 .. Len(agent)
                     PROVE  agent'[a].alive <=> \E i \in 1 .. Len(m_agents') : m_agents'[i] = a
          OBVIOUS
        <4>1. agent[a].alive <=> \E i \in 1 .. Len(m_agents) : m_agents[i] = a
          BY DEF ListIsAlive
        <4>2. a # Len(agent) + 1
          BY <2>0
        <4>3. (\E i \in 1 .. Len(m_agents') : m_agents'[i] = a)
                <=> \E i \in 1 .. Len(m_agents) : m_agents[i] = a
          BY <2>0, <2>2, <2>3, <4>2
        <4> QED BY <2>1, <4>1, <4>3
      <3>3. \E i \in 1 .. Len(m_agents') : m_agents'[i] = Len(agent) + 1
        BY <2>0, <2>2
      <3>4. \A a \in 1 .. Len(agent') : a \in 1 .. Len(agent) \/ a = Len(agent) + 1
        BY <2>0, <2>1
      <3>5. \A a \in 1 .. Len(agent') :
              agent'[a].alive <=> \E i \in 1 .. Len(m_agents') : m_agents'[i] = a
        BY <2>0, <2>1, <3>2, <3>3, <3>4
      <3> QED BY <3>1, <3>5 DEF ListIsAlive
    <2> QED BY <1>c, <1>d, <2>4, <2>5, <2>6, <2>7 DEF Inv
  <1>3. CASE SetDeviceInfo
    <2>1. PICK n \in Nat : n = Len(info) /\ n < 2
      BY <1>0 DEF ListTypes
    <2> DEFINE p == m_device_info[n + 1]
               parts == Append(info, p)
    <2>2. mpc = "read" /\ info \in Seq(Devices \cup {NoDevice})
      BY <1>0, <1>3 DEF SetDeviceInfo, ListTypes
    <2>3. p \in Devices \cup {NoDevice}
      BY <1>0, <2>1 DEF CommandTypes, Infos
    <2>4. /\ parts \in Seq(Devices \cup {NoDevice}) /\ Len(parts) = n + 1
          /\ parts[n + 1] = p /\ \A i \in 1 .. n : parts[i] = info[i]
      BY <2>1, <2>2, <2>3, AppendProperties
    <2>5. clean => \A i \in 1 .. n + 1 : parts[i] = last
      <3>1. clean => p = last
        BY <1>0, <2>1 DEF StoreInv, AtRest, Whole
      <3>2. \A i \in 1 .. n + 1 : i \in 1 .. n \/ i = n + 1
        BY <2>1
      <3> QED BY <1>0, <2>1, <2>4, <3>1, <3>2 DEF CopyInv
    <2>6. /\ n + 1 < 2 => info' = parts /\ UNCHANGED <<mpc, agent>>
          /\ ~(n + 1 < 2) =>
               /\ agent' = [agent EXCEPT ![Len(agent)] =
                             [agent[Len(agent)] EXCEPT !.m_deviceinfo = parts]]
               /\ info' = << >> /\ mpc' = "reset"
          /\ UNCHANGED <<m_agents, pending, crossed, clean, m_device_manage_flag>>
      BY <1>3, <2>1, <2>4 DEF SetDeviceInfo
    <2>7. parts \in [1 .. n + 1 -> Devices \cup {NoDevice}]
      BY <2>4, LenProperties
    <2> HIDE DEF p, parts
    <2>8. CASE n + 1 < 2
      <3>1. ListTypes'
        <4>1. Len(info') <= 1
          BY <2>1, <2>4, <2>6, <2>8
        <4> QED BY <1>0, <1>a, <2>2, <2>4, <2>6, <2>8, <4>1 DEF ListTypes
      <3>2. CopyInv'
        BY <1>a, <2>2, <2>4, <2>5, <2>6, <2>8 DEF CopyInv, AgentForLastDevice
      <3>3. LossInv'
        BY <1>0, <2>2, <2>6, <2>8 DEF LossInv, FlagLostOnlyIfCrossed
      <3>4. ListIsAlive'
        BY <1>0, <1>a, <2>2, <2>6, <2>8 DEF ListIsAlive
      <3> QED BY <1>c, <1>d, <3>1, <3>2, <3>3, <3>4 DEF Inv
    <2>9. CASE ~(n + 1 < 2)
      <3>1. n + 1 = 2
        BY <2>1, <2>9
      <3>2. parts \in Infos
        BY <2>7, <3>1 DEF Infos
      <3>3. agent \in Seq(Agents) /\ Len(agent) \in 1 .. Len(agent)
        BY <1>0, <2>2 DEF ListTypes
      <3>4. /\ agent' \in Seq(Agents) /\ Len(agent') = Len(agent)
            /\ agent'[Len(agent)].m_deviceinfo = parts
            /\ \A a \in 1 .. Len(agent) : agent'[a].alive = agent[a].alive
        <4> DEFINE new == [agent[Len(agent)] EXCEPT !.m_deviceinfo = parts]
        <4>1. agent[Len(agent)] \in Agents
          BY <3>3
        <4>2. /\ new \in Agents /\ new.alive = agent[Len(agent)].alive
              /\ new.m_deviceinfo = parts
          BY <3>2, <4>1 DEF Agents
        <4>3. agent' = [agent EXCEPT ![Len(agent)] = new]
          BY <2>6, <2>9
        <4> HIDE DEF new
        <4> QED BY <3>3, <4>2, <4>3, ExceptSeq
      <3>5. clean => parts = Whole(last)
        BY <2>5, <3>1, <3>2 DEF Infos, Whole
      <3>6. ListTypes'
        BY <1>0, <1>a, <2>2, <2>6, <2>9, <3>3, <3>4 DEF ListTypes
      <3>7. CopyInv'
        BY <1>a, <2>6, <2>9, <3>4, <3>5 DEF CopyInv, AgentForLastDevice
      <3>8. LossInv'
        BY <1>0, <2>2, <2>6, <2>9 DEF LossInv, FlagLostOnlyIfCrossed
      <3>9. ListIsAlive'
        BY <1>0, <1>a, <2>2, <2>6, <2>9, <3>4 DEF ListIsAlive
      <3> QED BY <1>c, <1>d, <3>6, <3>7, <3>8, <3>9 DEF Inv
    <2> QED BY <2>8, <2>9
  <1>4. CASE ResetFlag
    <2> USE <1>0, <1>4 DEF ResetFlag, manager
    <2>1. ListTypes'
      BY DEF ListTypes
    <2>2. CopyInv'
      BY DEF CopyInv, AgentForLastDevice
    <2>3. LossInv'
      BY DEF LossInv, FlagLostOnlyIfCrossed
    <2>4. ListIsAlive'
      BY DEF ListIsAlive
    <2> QED BY <1>c, <1>d, <2>1, <2>2, <2>3, <2>4 DEF Inv
  <1> QED BY <1>1, <1>2, <1>3, <1>4 DEF AddAgent

LEMMA DelPreserves ==
  ASSUME Inv, DelAgent
  PROVE  Inv'
  <1> USE DEF command, list, clients, history
  <1>0. CommandTypes /\ ListTypes /\ StoreInv /\ CopyInv /\ LossInv /\ ListIsAlive
    BY DEF Inv
  <1>a. UNCHANGED <<command, cpc, cmd, stored, history, info>>
    BY DEF DelAgent, DelNext, DeleteAgent, Erase, DelEnd
  <1>b. mpc \in {"del", "delete", "erase"} /\ mpc' \in {"del", "delete", "erase", "poll"}
    BY DEF DelAgent, DelNext, DeleteAgent, Erase, DelEnd
  <1>c. CommandTypes' /\ StoreInv'
    BY <1>0, <1>a DEF CommandTypes, StoreInv, Storing, AtRest
  <1>d. CopyInv' /\ LossInv'
    BY <1>0, <1>a, <1>b DEF CopyInv, AgentForLastDevice, LossInv, FlagLostOnlyIfCrossed
  <1>1. CASE DelNext
    <2> USE <1>0, <1>1 DEF DelNext
    <2>1. ListTypes'
      BY DEF ListTypes, IsAgent, end
    <2>2. ListIsAlive'
      BY DEF ListIsAlive
    <2> QED BY <1>c, <1>d, <2>1, <2>2 DEF Inv
  <1>2. CASE DeleteAgent
    <2> DEFINE a == m_agents[itr]
    <2> USE <1>0, <1>2 DEF DeleteAgent
    <2>1. itr \in 1 .. Len(m_agents) /\ a \in 1 .. Len(agent)
      BY DEF ListTypes
    <2>2. /\ agent' \in Seq(Agents) /\ Len(agent') = Len(agent) /\ ~agent'[a].alive
          /\ \A b \in 1 .. Len(agent) : b # a => agent'[b] = agent[b]
      <3> DEFINE new == [agent[a] EXCEPT !.alive = FALSE]
      <3>1. agent' = [agent EXCEPT ![a] = new]
        OBVIOUS
      <3>2. agent[a] \in Agents
        BY <2>1 DEF ListTypes
      <3>3. new \in Agents /\ ~new.alive
        BY <3>2 DEF Agents
      <3> HIDE DEF new
      <3> QED BY <2>1, <3>1, <3>3, ExceptSeq DEF ListTypes
    <2>3. ListTypes'
      BY <2>1, <2>2 DEF ListTypes
    <2>4. ListIsAlive'
      <3> SUFFICES ASSUME NEW b \in 1 .. Len(agent)
                   PROVE  agent'[b].alive <=>
                            \E i \in 1 .. Len(m_agents) : m_agents[i] = b /\ i # itr
        BY <2>2 DEF ListIsAlive
      <3>1. CASE b = a
        BY <2>1, <2>2, <3>1 DEF ListIsAlive
      <3>2. CASE b # a
        BY <2>1, <2>2, <3>2 DEF ListIsAlive
      <3> QED BY <3>1, <3>2
    <2> QED BY <1>c, <1>d, <2>3, <2>4 DEF Inv
  <1>3. CASE Erase
    <2>1. itr \in 1 .. Len(m_agents) /\ m_agents \in Seq(Nat) /\ mpc = "erase"
      BY <1>0, <1>3 DEF Erase, ListTypes
    <2>2. UNCHANGED <<agent, itr>> /\ mpc' = "del"
      BY <1>3 DEF Erase
    <2>3. /\ m_agents' \in Seq(Nat) /\ Len(m_agents') = Len(m_agents) - 1
          /\ \A i \in 1 .. Len(m_agents) - 1 :
               m_agents'[i] = IF i < itr THEN m_agents[i] ELSE m_agents[i + 1]
      <3>1. m_agents' = SubSeq(m_agents, 1, itr - 1) \o SubSeq(m_agents, itr + 1, Len(m_agents))
        BY <1>3 DEF Erase
      <3> QED BY <2>1, <3>1, Erased
    <2>4. PICK n \in Nat, m \in Nat : n = Len(m_agents) /\ m = Len(m_agents') /\ m = n - 1
      BY <2>1, <2>3
    <2>5. KeepsOthers(m_agents, m_agents', n, m, itr)
      <3>1. itr \in 1 .. n /\ Without(m_agents, m_agents', m, itr)
        BY <2>1, <2>3, <2>4 DEF Without
      <3> QED BY <2>4, <3>1, ErasedMembers
    <2>6. ListTypes'
      <3>1. \A i \in 1 .. m : m_agents'[i] \in 1 .. Len(agent)
        BY <1>0, <2>4, <2>5 DEF ListTypes, KeepsOthers
      <3> QED BY <1>0, <1>a, <2>1, <2>2, <2>3, <2>4, <3>1 DEF ListTypes
    <2>7. ListIsAlive'
      <3>1. \A a \in 1 .. Len(agent) :
              agent[a].alive <=> \E i \in 1 .. n : m_agents[i] = a /\ i # itr
        BY <1>0, <2>1, <2>4 DEF ListIsAlive
      <3>2. \A i, j \in 1 .. m : i # j => m_agents'[i] # m_agents'[j]
        BY <1>0, <2>4, <2>5 DEF ListIsAlive, KeepsOthers
      <3>3. \A a \in 1 .. Len(agent) :
              (\E i \in 1 .. n : m_agents[i] = a /\ i # itr) <=> \E i \in 1 .. m : m_agents'[i] = a
        BY <2>5 DEF KeepsOthers
      <3> QED BY <2>2, <2>4, <3>1, <3>2, <3>3 DEF ListIsAlive
    <2> QED BY <1>c, <1>d, <2>6, <2>7 DEF Inv
  <1>4. CASE DelEnd
    <2> USE <1>0, <1>4 DEF DelEnd
    <2>1. ListTypes'
      BY DEF ListTypes
    <2>2. ListIsAlive'
      BY DEF ListIsAlive
    <2> QED BY <1>c, <1>d, <2>1, <2>2 DEF Inv
  <1> QED BY <1>1, <1>2, <1>3, <1>4 DEF DelAgent

LEMMA Inductive == Inv /\ [Next]_vars => Inv'
  <1> SUFFICES ASSUME Inv, [Next]_vars PROVE Inv'
    OBVIOUS
  <1>1. CASE UNCHANGED vars
    <2> USE <1>1 DEF vars, command, list, manager, clients, history
    <2>1. CommandTypes' /\ ListTypes' /\ StoreInv'
      BY DEF Inv, CommandTypes, ListTypes, StoreInv, Storing, AtRest
    <2>2. CopyInv' /\ LossInv' /\ ListIsAlive'
      BY DEF Inv, CopyInv, LossInv, ListIsAlive, AgentForLastDevice, FlagLostOnlyIfCrossed
    <2> QED BY <2>1, <2>2 DEF Inv
  <1> QED BY <1>1, ReceivePreserves, ManagePreserves, CheckPreserves, AddPreserves, DelPreserves
       DEF Next, Client, Manager

\* What every step keeps, whoever takes it.
THEOREM Invariance == Spec => []Inv
  BY InvInit, Inductive, PTL DEF Spec

\* An agent that AddAgent made while no client was in ManageDeviceAddDel has
\* the device stored last, whole.
THEOREM AgentForLastDeviceTheorem == Spec => []AgentForLastDevice
  <1>1. Inv => AgentForLastDevice
    BY DEF Inv, CopyInv
  <1> QED BY <1>1, Invariance, PTL

\* A command is lost only if it came while AddAgent was at work, whose last
\* statement lowers the flag.
THEOREM FlagLostOnlyIfCrossedTheorem == Spec => []FlagLostOnlyIfCrossed
  <1>1. Inv => FlagLostOnlyIfCrossed
    BY DEF Inv, LossInv
  <1> QED BY <1>1, Invariance, PTL

\* m_agents holds the agents that live, each once, however many DelAgent
\* erases in one pass.
THEOREM ListIsAliveTheorem == Spec => []ListIsAlive
  <1>1. Inv => ListIsAlive
    BY DEF Inv
  <1> QED BY <1>1, Invariance, PTL
=============================================================================
