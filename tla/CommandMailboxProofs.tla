------------------------ MODULE CommandMailboxProofs ------------------------
(***************************************************************************)
(* What the command boxes guarantee for any number of clients, agents,     *)
(* commands and parts, although agents read them without a lock.           *)
(***************************************************************************)
EXTENDS CommandMailbox, TLAPS

Holding == {"raise", "pop", "store", "unlock"}

\* A client between Lock and Unlock holds the lock of its command's box, and
\* nobody else does.
HolderInv ==
  /\ \A c \in Clients : cpc[c] \in Holding => lock[cmd[c].box] = c
  /\ \A b \in Boxes : lock[b] # NoClient =>
        cmd[lock[b]].box = b /\ cpc[lock[b]] \in Holding

Whole(b) == \A p \in PartsOf(b) : data[b][p] = last[b]

\* Only the holder that is storing leaves a box in pieces, and it has then
\* written the parts up to stored.
StoreOK(b) ==
  IF lock[b] # NoClient /\ cpc[lock[b]] = "store"
  THEN /\ stored[lock[b]] < Parts[b]
       /\ \A p \in PartsOf(b) : p <= stored[lock[b]] => data[b][p] = cmd[lock[b]].n
  ELSE Whole(b)

StoreInv == \A b \in Boxes : StoreOK(b)

\* Each raise of a flag is worth one take to every agent.
TakesInv ==
  \A a \in Agents, b \in Boxes :
    /\ takes[a][b] <= raised[b]
    /\ flag[b] => takes[a][b] < raised[b]
    /\ abox[a] = b /\ apc[a] = "clear" => takes[a][b] < raised[b]

ReadsInv ==
  \A a \in Agents :
    /\ apc[a] = "read" => copied[a] < Parts[abox[a]]
    /\ apc[a] = "apply" => copied[a] = Parts[abox[a]]
    /\ apc[a] \in {"check", "clear"} => copied[a] = 0

\* The parts agent a has read are those of the last command.
Current(a) ==
  \A p \in PartsOf(abox[a]) : p <= copied[a] => got[a][p] = last[abox[a]]

CleanOK(a) ==
  apc[a] \in {"read", "apply"} /\ clean[a] => lock[abox[a]] = NoClient /\ Current(a)

CleanInv == \A a \in Agents : CleanOK(a)

Bringing(a, b) == abox[a] = b /\ apc[a] \in {"read", "apply"} /\ Current(a)

\* The holder of a lock that has raised the flag still sees it raised, or an
\* agent has crossed it; a free box whose last command nobody has applied is
\* still flagged, or an agent is about to apply it.
DeliveryOK(b) ==
  IF lock[b] = NoClient
  THEN \/ flag[b] \/ crossed[b] \/ last[b] \in applied[b]
       \/ \E a \in Agents : Bringing(a, b)
  ELSE cpc[lock[b]] \in {"pop", "store", "unlock"} => flag[b] \/ crossed[b]

DeliveryInv == \A b \in Boxes : DeliveryOK(b)

IInv ==
  /\ TypeOK
  /\ HolderInv
  /\ StoreInv
  /\ TakesInv
  /\ ReadsInv
  /\ CleanInv
  /\ DeliveryInv

-----------------------------------------------------------------------------

LEMMA InitIInv == Init => IInv
<1> SUFFICES ASSUME Init PROVE IInv
  OBVIOUS
<1> USE CommandMailboxAssumption DEF Init
<1>1. TypeOK
  BY DEF TypeOK, NoCommand, Nothing, Command, Numbers, PartsOf, AllParts, Boxes,
     Sizes, XPACKET_HEADER_SIZE, XPACKET_TAIL_SIZE
<1>2. HolderInv /\ StoreInv  BY DEF HolderInv, StoreInv, StoreOK, Whole, Holding
<1>3. TakesInv  BY DEF TakesInv, Boxes
<1>4. ReadsInv /\ CleanInv  BY DEF ReadsInv, CleanInv, CleanOK, Boxes
<1>5. DeliveryInv  BY DEF DeliveryInv, DeliveryOK
<1> QED  BY <1>1, <1>2, <1>3, <1>4, <1>5 DEF IInv

-----------------------------------------------------------------------------
(* Steps that leave a box, or an agent, alone.                             *)

\* The holder of box x, if any, is where it was.
HolderKept(x) ==
  /\ lock'[x] = lock[x]
  /\ lock[x] # NoClient =>
       /\ cpc'[lock[x]] = cpc[lock[x]]
       /\ cmd'[lock[x]] = cmd[lock[x]]
       /\ stored'[lock[x]] = stored[lock[x]]

LEMMA StoreFrame ==
  ASSUME NEW x \in Boxes, StoreOK(x), HolderKept(x),
         data'[x] = data[x], last'[x] = last[x]
  PROVE  StoreOK(x)'
  BY DEF StoreOK, Whole, HolderKept

LEMMA DeliveryFrame ==
  ASSUME NEW x \in Boxes, DeliveryOK(x), HolderKept(x), flag'[x] = flag[x],
         crossed'[x] = crossed[x], last'[x] = last[x], applied'[x] = applied[x],
         UNCHANGED agents
  PROVE  DeliveryOK(x)'
<1>1. ASSUME NEW a \in Agents, Bringing(a, x) PROVE Bringing(a, x)'
  BY <1>1 DEF Bringing, Current, agents
<1> QED  BY <1>1 DEF DeliveryOK, HolderKept

LEMMA CleanFrame ==
  ASSUME NEW a \in Agents, CleanOK(a), UNCHANGED agents, clean'[a] => clean[a],
         clean'[a] => lock'[abox[a]] = lock[abox[a]],
         clean'[a] => last'[abox[a]] = last[abox[a]]
  PROVE  CleanOK(a)'
  BY DEF CleanOK, Current, agents

\* A client that holds no lock does not disturb any holder.
LEMMA IdleClient ==
  ASSUME IInv, NEW c \in Clients, cpc[c] \notin Holding,
         \A d \in Clients \ {c} :
            cpc'[d] = cpc[d] /\ cmd'[d] = cmd[d] /\ stored'[d] = stored[d],
         NEW x \in Boxes, lock'[x] = lock[x]
  PROVE  HolderKept(x)
  BY DEF IInv, TypeOK, HolderInv, HolderKept

\* A client that holds a lock does not disturb the holders of the other boxes.
LEMMA OtherBox ==
  ASSUME IInv, NEW c \in Clients, 
         \A d \in Clients \ {c} :
            cpc'[d] = cpc[d] /\ cmd'[d] = cmd[d] /\ stored'[d] = stored[d],
         NEW x \in Boxes, x # cmd[c].box, lock'[x] = lock[x]
  PROVE  HolderKept(x)
  BY DEF IInv, TypeOK, HolderInv, HolderKept

-----------------------------------------------------------------------------
(* The steps of a client.                                                  *)

LEMMA ReceiveStep == ASSUME NEW c \in Clients, IInv, Receive(c) PROVE IInv'
<1> USE DEF Receive
<1>1. TypeOK'
  <2>1. received' \in Numbers
    BY CommandMailboxAssumption DEF IInv, TypeOK, Numbers
  <2>2. PICK b \in Boxes, keep \in BOOLEAN, size \in Sizes :
           cmd' = [cmd EXCEPT ![c] = [box |-> b, n |-> received + 1,
                                      keep |-> keep, size |-> size]]
    OBVIOUS
  <2>3. cmd' \in [Clients -> Command]
    BY <2>1, <2>2 DEF IInv, TypeOK, Command
  <2>4. cpc' \in [Clients -> {"idle", "lock", "raise", "pop", "store", "unlock"}]
    BY DEF IInv, TypeOK
  <2> QED  BY <2>1, <2>3, <2>4 DEF IInv, TypeOK, boxes, agents
<1>2. \A d \in Clients \ {c} :
         cpc'[d] = cpc[d] /\ cmd'[d] = cmd[d] /\ stored'[d] = stored[d]
  BY DEF IInv, TypeOK
<1>3. cpc[c] \notin Holding /\ cpc'[c] \notin Holding
  BY DEF Holding, IInv, TypeOK
<1>4. \A x \in Boxes : HolderKept(x)
  BY <1>2, <1>3, IdleClient DEF boxes
<1>5. HolderInv'
  BY <1>2, <1>3 DEF IInv, TypeOK, HolderInv, boxes
<1>6. StoreInv'
  BY <1>4, StoreFrame DEF IInv, StoreInv, boxes
<1>7. TakesInv' /\ ReadsInv'
  BY DEF IInv, TakesInv, ReadsInv, boxes, agents
<1>8. CleanInv'
  BY CleanFrame DEF IInv, CleanInv, boxes
<1>9. DeliveryInv'
  BY <1>4, DeliveryFrame DEF IInv, DeliveryInv, boxes
<1> QED  BY <1>1, <1>5, <1>6, <1>7, <1>8, <1>9 DEF IInv

LEMMA LockStep == ASSUME NEW c \in Clients, IInv, Lock(c) PROVE IInv'
<1> DEFINE b == cmd[c].box
<1> USE DEF Lock
<1>0. b \in Boxes /\ c # NoClient
  BY CommandMailboxAssumption DEF IInv, TypeOK, Command
<1>1. TypeOK'
  <2>1. lock' \in [Boxes -> Clients \cup {NoClient}]  BY DEF IInv, TypeOK
  <2>2. cpc' \in [Clients -> {"idle", "lock", "raise", "pop", "store", "unlock"}]
    BY DEF IInv, TypeOK
  <2>3. clean' \in [Agents -> BOOLEAN]  BY DEF IInv, TypeOK
  <2> QED  BY <2>1, <2>2, <2>3 DEF IInv, TypeOK, agents
<1>2. \A d \in Clients \ {c} :
         cpc'[d] = cpc[d] /\ cmd'[d] = cmd[d] /\ stored'[d] = stored[d]
  BY DEF IInv, TypeOK
<1>3. /\ \A x \in Boxes \ {b} : lock'[x] = lock[x] /\ HolderKept(x)
      /\ lock[b] = NoClient /\ lock'[b] = c /\ cpc'[c] = "raise"
  BY <1>0, <1>2, OtherBox DEF IInv, TypeOK
<1>4. HolderInv'
  <2>1. ASSUME NEW d \in Clients, cpc'[d] \in Holding PROVE lock'[cmd'[d].box] = d
    <3>1. CASE d = c  BY <1>0, <1>3, <3>1
    <3>2. CASE d # c
      <4>1. lock[cmd[d].box] = d /\ d # NoClient /\ cmd[d].box \in Boxes
        BY <1>2, <2>1, <3>2, CommandMailboxAssumption
        DEF IInv, TypeOK, Command, HolderInv
      <4> QED  BY <1>2, <1>3, <3>2, <4>1
    <3> QED  BY <3>1, <3>2
  <2>2. ASSUME NEW x \in Boxes, lock'[x] # NoClient
        PROVE  cmd'[lock'[x]].box = x /\ cpc'[lock'[x]] \in Holding
    <3>1. CASE x = b  BY <1>3, <3>1 DEF Holding
    <3>2. CASE x # b  BY <1>3, <2>2, <3>2 DEF IInv, HolderInv, HolderKept
    <3> QED  BY <3>1, <3>2
  <2> QED  BY <2>1, <2>2 DEF HolderInv
<1>5. StoreInv'
  <2>1. StoreOK(b)'  BY <1>0, <1>3 DEF IInv, StoreInv, StoreOK, Whole
  <2>2. \A x \in Boxes \ {b} : StoreOK(x)'
    BY <1>3, StoreFrame DEF IInv, StoreInv
  <2> QED  BY <2>1, <2>2 DEF StoreInv
<1>6. TakesInv' /\ ReadsInv'
  BY DEF IInv, TakesInv, ReadsInv, agents
<1>7. CleanInv'
  <2>1. \A a \in Agents : clean'[a] => clean[a] /\ abox[a] # b  BY DEF IInv, TypeOK
  <2> QED  BY <1>3, <2>1, CleanFrame DEF IInv, TypeOK, CleanInv
<1>8. DeliveryInv'
  <2>1. DeliveryOK(b)'  BY <1>0, <1>3 DEF DeliveryOK
  <2>2. \A x \in Boxes \ {b} : DeliveryOK(x)'
    BY <1>3, DeliveryFrame DEF IInv, DeliveryInv
  <2> QED  BY <2>1, <2>2 DEF DeliveryInv
<1> QED  BY <1>1, <1>4, <1>5, <1>6, <1>7, <1>8 DEF IInv

LEMMA RaiseStep == ASSUME NEW c \in Clients, IInv, Raise(c) PROVE IInv'
<1> DEFINE b == cmd[c].box
<1> USE DEF Raise
<1>0. b \in Boxes /\ lock[b] = c /\ c # NoClient
  BY CommandMailboxAssumption DEF IInv, TypeOK, Command, HolderInv, Holding
<1>1. TypeOK'
  <2>1. flag' \in [Boxes -> BOOLEAN] /\ crossed' \in [Boxes -> BOOLEAN]
    BY DEF IInv, TypeOK
  <2>2. raised' \in [Boxes -> Nat]  BY <1>0 DEF IInv, TypeOK
  <2>3. cpc' \in [Clients -> {"idle", "lock", "raise", "pop", "store", "unlock"}]
    BY DEF IInv, TypeOK
  <2> QED  BY <2>1, <2>2, <2>3 DEF IInv, TypeOK, agents
<1>2. \A d \in Clients \ {c} :
         cpc'[d] = cpc[d] /\ cmd'[d] = cmd[d] /\ stored'[d] = stored[d]
  BY DEF IInv, TypeOK
<1>3. /\ \A x \in Boxes \ {b} : HolderKept(x)
      /\ cpc'[c] = "pop"
  BY <1>0, <1>2, OtherBox DEF IInv, TypeOK
<1>4. HolderInv'
  BY <1>0, <1>2, <1>3 DEF IInv, TypeOK, HolderInv, Holding
<1>5. StoreInv'
  <2>1. StoreOK(b)'  BY <1>0, <1>3 DEF IInv, StoreInv, StoreOK, Whole
  <2>2. \A x \in Boxes \ {b} : StoreOK(x)'
    BY <1>3, StoreFrame DEF IInv, StoreInv
  <2> QED  BY <2>1, <2>2 DEF StoreInv
<1>6. TakesInv'
  <2> SUFFICES ASSUME NEW a \in Agents, NEW x \in Boxes
               PROVE  /\ takes[a][x] <= raised'[x]
                      /\ flag'[x] => takes[a][x] < raised'[x]
                      /\ abox[a] = x /\ apc[a] = "clear" => takes[a][x] < raised'[x]
    BY DEF TakesInv, agents
  <2>1. takes[a][x] \in Nat /\ raised[x] \in Nat  BY DEF IInv, TypeOK
  <2>2. CASE x = b
    <3>1. raised'[x] = raised[x] + 1  BY <2>2 DEF IInv, TypeOK
    <3>2. takes[a][x] <= raised[x]  BY DEF IInv, TakesInv
    <3> QED  BY <2>1, <3>1, <3>2
  <2>3. CASE x # b
    <3>1. raised'[x] = raised[x] /\ flag'[x] = flag[x]  BY <2>3 DEF IInv, TypeOK
    <3> QED  BY <3>1 DEF IInv, TakesInv
  <2> QED  BY <2>2, <2>3
<1>7. ReadsInv' /\ CleanInv'
  <2>1. CleanInv'  BY CleanFrame DEF IInv, CleanInv
  <2> QED  BY <2>1 DEF IInv, ReadsInv, agents
<1>8. DeliveryInv'
  <2>1. flag'[b]  BY <1>0 DEF IInv, TypeOK
  <2>2. DeliveryOK(b)'  BY <1>0, <2>1 DEF DeliveryOK
  <2>3. ASSUME NEW x \in Boxes \ {b} PROVE DeliveryOK(x)'
    <3>1. flag'[x] = flag[x] /\ crossed'[x] = crossed[x]  BY <2>3 DEF IInv, TypeOK
    <3> QED  BY <1>3, <2>3, <3>1, DeliveryFrame DEF IInv, DeliveryInv
  <2> QED  BY <2>2, <2>3 DEF DeliveryInv
<1> QED  BY <1>1, <1>4, <1>5, <1>6, <1>7, <1>8 DEF IInv

LEMMA PopStep == ASSUME NEW c \in Clients, IInv, Pop(c) PROVE IInv'
<1> DEFINE b == cmd[c].box
<1> USE DEF Pop
<1>0. b \in Boxes /\ lock[b] = c /\ c # NoClient
  BY CommandMailboxAssumption DEF IInv, TypeOK, Command, HolderInv, Holding
<1>1. cpc[c] = "pop" /\ cpc'[c] \in {"unlock", "store"} /\ stored'[c] = 0
  BY CommandMailboxAssumption
  DEF IInv, TypeOK, PopByteFails, BufSize, XPACKET_HEADER_SIZE, XPACKET_TAIL_SIZE
<1>2. \A d \in Clients \ {c} :
         cpc'[d] = cpc[d] /\ cmd'[d] = cmd[d] /\ stored'[d] = stored[d]
  BY DEF IInv, TypeOK
<1>3. \A x \in Boxes \ {b} : HolderKept(x)
  BY <1>0, <1>2, OtherBox DEF IInv, TypeOK, boxes
<1>4. TypeOK'
  <2>1. cpc' \in [Clients -> {"idle", "lock", "raise", "pop", "store", "unlock"}]
    BY DEF IInv, TypeOK
  <2>2. stored' \in [Clients -> Nat]  BY DEF IInv, TypeOK
  <2> QED  BY <2>1, <2>2 DEF IInv, TypeOK, boxes, agents
<1>5. HolderInv'
  <2>1. lock' = lock /\ cmd' = cmd  BY DEF boxes
  <2> QED  BY <1>0, <1>1, <1>2, <2>1 DEF IInv, TypeOK, HolderInv, Holding
<1>6. StoreInv'
  <2>1. StoreOK(b)'
    <3>1. Parts[b] > 0  BY <1>0, CommandMailboxAssumption
    <3>2. \A p \in PartsOf(b) : ~(p <= 0)  BY <1>0, CommandMailboxAssumption DEF PartsOf
    <3>3. Whole(b)  BY <1>0, <1>1 DEF IInv, StoreInv, StoreOK
    <3> QED  BY <1>0, <1>1, <3>1, <3>2, <3>3 DEF StoreOK, Whole, boxes
  <2>2. \A x \in Boxes \ {b} : StoreOK(x)'
    BY <1>3, StoreFrame DEF IInv, StoreInv, boxes
  <2> QED  BY <2>1, <2>2 DEF StoreInv
<1>7. TakesInv' /\ ReadsInv'
  BY DEF IInv, TakesInv, ReadsInv, boxes, agents
<1>8. CleanInv'
  BY CleanFrame DEF IInv, CleanInv, boxes
<1>9. DeliveryInv'
  <2>1. DeliveryOK(b)'
    BY <1>0, <1>1 DEF IInv, DeliveryInv, DeliveryOK, boxes
  <2>2. \A x \in Boxes \ {b} : DeliveryOK(x)'
    BY <1>3, DeliveryFrame DEF IInv, DeliveryInv, boxes
  <2> QED  BY <2>1, <2>2 DEF DeliveryInv
<1> QED  BY <1>4, <1>5, <1>6, <1>7, <1>8, <1>9 DEF IInv

LEMMA StoreStep == ASSUME NEW c \in Clients, IInv, Store(c) PROVE IInv'
<1> DEFINE b == cmd[c].box
           p == stored[c] + 1
<1> USE DEF Store
<1>0. /\ b \in Boxes /\ lock[b] = c /\ c # NoClient /\ cpc[c] = "store"
      /\ cmd[c].n \in Numbers
  BY CommandMailboxAssumption DEF IInv, TypeOK, Command, HolderInv, Holding
<1>1. /\ p \in PartsOf(b) /\ stored[c] \in Nat /\ Parts[b] \in Nat
      /\ \A q \in PartsOf(b) : q < p => data[b][q] = cmd[c].n
  <2>1. /\ stored[c] < Parts[b]
        /\ \A q \in PartsOf(b) : q <= stored[c] => data[b][q] = cmd[c].n
    BY <1>0 DEF IInv, StoreInv, StoreOK
  <2>2. stored[c] \in Nat /\ Parts[b] \in Nat
    BY <1>0, CommandMailboxAssumption DEF IInv, TypeOK
  <2> QED  BY <2>1, <2>2 DEF PartsOf
<1>2. \A d \in Clients \ {c} :
         cpc'[d] = cpc[d] /\ cmd'[d] = cmd[d] /\ stored'[d] = stored[d]
  BY DEF IInv, TypeOK
<1>3. \A x \in Boxes \ {b} : /\ HolderKept(x)
                             /\ data'[x] = data[x] /\ last'[x] = last[x]
  BY <1>0, <1>2, OtherBox DEF IInv, TypeOK
<1>4. /\ data'[b] = [data[b] EXCEPT ![p] = cmd[c].n]
      /\ data[b] \in [PartsOf(b) -> Numbers]
      /\ stored'[c] = p
      /\ cpc'[c] = IF p = Parts[b] THEN "unlock" ELSE "store"
      /\ last'[b] = IF p = Parts[b] THEN cmd[c].n ELSE last[b]
  BY <1>0 DEF IInv, TypeOK
<1>5. TypeOK'
  <2>1. \A x \in Boxes : data'[x] \in [PartsOf(x) -> Numbers]
    BY <1>0, <1>3, <1>4 DEF IInv, TypeOK
  <2>2. DOMAIN data' = Boxes  BY DEF IInv, TypeOK
  <2>3. stored' \in [Clients -> Nat]  BY <1>1 DEF IInv, TypeOK
  <2>4. last' \in [Boxes -> Numbers]  BY <1>0 DEF IInv, TypeOK
  <2>5. cpc' \in [Clients -> {"idle", "lock", "raise", "pop", "store", "unlock"}]
    BY DEF IInv, TypeOK
  <2> QED  BY <2>1, <2>2, <2>3, <2>4, <2>5 DEF IInv, TypeOK, agents
<1>6. HolderInv'
  <2>1. lock' = lock /\ cmd' = cmd  OBVIOUS
  <2> QED  BY <1>0, <1>2, <1>4, <2>1 DEF IInv, TypeOK, HolderInv, Holding
<1>7. StoreInv'
  <2>1. \A q \in PartsOf(b) : q <= p => data'[b][q] = cmd[c].n
    BY <1>1, <1>4 DEF PartsOf
  <2>2. StoreOK(b)'
    <3>1. CASE p = Parts[b]
      BY <1>0, <1>1, <1>4, <2>1, <3>1 DEF StoreOK, Whole, PartsOf
    <3>2. CASE p # Parts[b]
      <4>1. p < Parts[b]  BY <1>1, <3>2 DEF PartsOf
      <4> QED  BY <1>0, <1>4, <2>1, <3>2, <4>1 DEF StoreOK
    <3> QED  BY <3>1, <3>2
  <2>3. \A x \in Boxes \ {b} : StoreOK(x)'
    BY <1>3, StoreFrame DEF IInv, StoreInv
  <2> QED  BY <2>2, <2>3 DEF StoreInv
<1>8. TakesInv' /\ ReadsInv'
  BY DEF IInv, TakesInv, ReadsInv, agents
<1>9. CleanInv'
  <2> SUFFICES ASSUME NEW a \in Agents PROVE CleanOK(a)'
    BY DEF CleanInv
  <2>1. CASE abox[a] = b
    BY <1>0, <2>1 DEF IInv, CleanInv, CleanOK, agents
  <2>2. CASE abox[a] # b
    BY <1>3, <2>2, CleanFrame DEF IInv, TypeOK, CleanInv
  <2> QED  BY <2>1, <2>2
<1>10. DeliveryInv'
  <2>1. DeliveryOK(b)'
    BY <1>0 DEF IInv, DeliveryInv, DeliveryOK
  <2>2. \A x \in Boxes \ {b} : DeliveryOK(x)'
    BY <1>3, DeliveryFrame DEF IInv, DeliveryInv
  <2> QED  BY <2>1, <2>2 DEF DeliveryInv
<1> QED  BY <1>5, <1>6, <1>7, <1>8, <1>9, <1>10 DEF IInv

LEMMA UnlockStep == ASSUME NEW c \in Clients, IInv, Unlock(c) PROVE IInv'
<1>b. PICK b \in Boxes : b = cmd[c].box
  BY DEF IInv, TypeOK, Command
<1> USE DEF Unlock
<1>0. b \in Boxes /\ lock[b] = c /\ c # NoClient /\ cpc[c] = "unlock"
  BY <1>b, CommandMailboxAssumption DEF IInv, TypeOK, Command, HolderInv, Holding
<1>1. TypeOK'
  <2>1. NoCommand \in Command
    BY CommandMailboxAssumption DEF NoCommand, Command, Boxes, Numbers, Sizes
  <2>2. cmd' \in [Clients -> Command]  BY <2>1 DEF IInv, TypeOK
  <2>3. stored' \in [Clients -> Nat]  BY DEF IInv, TypeOK
  <2>4. lock' \in [Boxes -> Clients \cup {NoClient}]  BY DEF IInv, TypeOK
  <2>5. cpc' \in [Clients -> {"idle", "lock", "raise", "pop", "store", "unlock"}]
    BY DEF IInv, TypeOK
  <2> QED  BY <2>2, <2>3, <2>4, <2>5 DEF IInv, TypeOK, agents
<1>2. \A d \in Clients \ {c} :
         cpc'[d] = cpc[d] /\ cmd'[d] = cmd[d] /\ stored'[d] = stored[d]
  BY DEF IInv, TypeOK
<1>3. /\ \A x \in Boxes \ {b} : lock'[x] = lock[x] /\ HolderKept(x)
      /\ lock'[b] = NoClient /\ cpc'[c] = "idle"
  BY <1>b, <1>0, <1>2, OtherBox DEF IInv, TypeOK
<1>4. HolderInv'
  <2>1. ASSUME NEW d \in Clients, cpc'[d] \in Holding PROVE lock'[cmd'[d].box] = d
    <3>1. d # c  BY <1>3, <2>1 DEF Holding
    <3>2. lock[cmd[d].box] = d /\ cmd[d].box \in Boxes
      BY <1>2, <2>1, <3>1 DEF IInv, TypeOK, Command, HolderInv
    <3> QED  BY <1>0, <1>2, <1>3, <3>1, <3>2
  <2>2. ASSUME NEW x \in Boxes, lock'[x] # NoClient
        PROVE  cmd'[lock'[x]].box = x /\ cpc'[lock'[x]] \in Holding
    <3>1. x # b  BY <1>3, <2>2
    <3> QED  BY <1>3, <2>2, <3>1 DEF IInv, HolderInv, HolderKept
  <2> QED  BY <2>1, <2>2 DEF HolderInv
<1> HIDE DEF Unlock
<1>u. data' = data /\ last' = last /\ flag' = flag /\ crossed' = crossed
      /\ applied' = applied /\ UNCHANGED agents
  BY DEF Unlock
<1>5. StoreInv'
  <2>1. StoreOK(b)'  BY <1>0, <1>3, <1>u DEF IInv, StoreInv, StoreOK, Whole
  <2>2. \A x \in Boxes \ {b} : StoreOK(x)'
    BY <1>3, <1>u, StoreFrame DEF IInv, StoreInv
  <2> QED  BY <2>1, <2>2 DEF StoreInv
<1>6. TakesInv' /\ ReadsInv'
  BY DEF IInv, TakesInv, ReadsInv, agents, Unlock
<1>7. CleanInv'
  <2> SUFFICES ASSUME NEW a \in Agents PROVE CleanOK(a)'
    BY DEF CleanInv
  <2>1. CASE abox[a] = b
    BY <1>0, <2>1 DEF IInv, CleanInv, CleanOK, agents, Unlock
  <2>2. CASE abox[a] # b
    BY <1>3, <2>2, CleanFrame DEF IInv, TypeOK, CleanInv, Unlock
  <2> QED  BY <2>1, <2>2
<1>8. DeliveryInv'
  <2>1. DeliveryOK(b)'
    <3>1. flag[b] \/ crossed[b]  BY <1>0 DEF IInv, DeliveryInv, DeliveryOK
    <3> QED  BY <1>0, <1>3, <1>u, <3>1 DEF DeliveryOK
  <2>2. \A x \in Boxes \ {b} : DeliveryOK(x)'
    BY <1>3, <1>u, DeliveryFrame DEF IInv, DeliveryInv
  <2> QED  BY <2>1, <2>2 DEF DeliveryInv
<1> QED  BY <1>1, <1>4, <1>5, <1>6, <1>7, <1>8 DEF IInv

-----------------------------------------------------------------------------
(* The steps of an agent.                                                  *)

\* What an agent's step leaves alone.
AgentStays(d) ==
  /\ apc'[d] = apc[d] /\ abox'[d] = abox[d]
  /\ got'[d] = got[d] /\ copied'[d] = copied[d]

LEMMA ClientsAside ==
  ASSUME IInv, UNCHANGED <<data, lock, clients, last>>
  PROVE  /\ HolderInv' /\ StoreInv'
         /\ \A x \in Boxes : HolderKept(x)
<1>1. \A x \in Boxes : HolderKept(x)  BY DEF HolderKept, clients
<1>2. HolderInv'  BY DEF IInv, HolderInv, clients
<1>3. StoreInv'  BY <1>1, StoreFrame DEF IInv, StoreInv
<1> QED  BY <1>1, <1>2, <1>3

LEMMA BringingStays ==
  ASSUME NEW d \in Agents, NEW x \in Boxes, AgentStays(d), last' = last, Bringing(d, x)
  PROVE  Bringing(d, x)'
  BY DEF AgentStays, Bringing, Current

LEMMA CleanStays ==
  ASSUME NEW d \in Agents, AgentStays(d), last' = last, lock' = lock,
         clean'[d] => clean[d], CleanOK(d)
  PROVE  CleanOK(d)'
  BY DEF AgentStays, CleanOK, Current

LEMMA CheckFlagStep == ASSUME NEW a \in Agents, IInv, CheckFlag(a) PROVE IInv'
<1> USE DEF CheckFlag
<1>0. /\ abox[a] \in Boxes /\ NextBox[abox[a]] \in Boxes /\ apc[a] = "check"
      /\ apc'[a] \in {"check", "clear"}
  BY DEF IInv, TypeOK, NextBox, Boxes
<1>1. TypeOK'
  <2>0. /\ apc' = [apc EXCEPT ![a] = "clear"] \/ apc' = apc
        /\ abox' = [abox EXCEPT ![a] = NextBox[@]] \/ abox' = abox
    OBVIOUS
  <2> HIDE DEF CheckFlag
  <2>1. apc' \in [Agents -> {"check", "clear", "read", "apply"}]
    BY <2>0 DEF IInv, TypeOK
  <2>2. abox' \in [Agents -> Boxes]
    <3>1. abox \in [Agents -> Boxes] /\ NextBox[abox[a]] \in Boxes
      BY <1>0 DEF IInv, TypeOK
    <3> QED  BY <2>0, <3>1
  <2>3. UNCHANGED <<flag, data, lock, cpc, cmd, stored, received, got, copied, last,
                    raised, takes, clean, crossed, applied>>
    BY DEF CheckFlag, boxes, clients
  <2>4. TypeOK
    BY DEF IInv
  <2> QED  BY ONLY <2>1, <2>2, <2>3, <2>4 DEF TypeOK
<1>2. \A d \in Agents \ {a} : AgentStays(d)
  BY DEF IInv, TypeOK, AgentStays
<1>3. HolderInv' /\ StoreInv' /\ \A x \in Boxes : HolderKept(x)
  BY ClientsAside DEF boxes
<1>4. TakesInv'
  <2> SUFFICES ASSUME NEW d \in Agents, NEW x \in Boxes,
                      abox'[d] = x, apc'[d] = "clear"
               PROVE  takes[d][x] < raised[x]
    BY DEF IInv, TakesInv, boxes
  <2>1. CASE d = a
    <3>1. CASE flag[abox[a]]
      BY <2>1, <3>1 DEF IInv, TakesInv
    <3>2. CASE ~flag[abox[a]]
      BY <1>0, <2>1, <3>2
    <3> QED  BY <3>1, <3>2
  <2>2. CASE d # a
    BY <1>2, <2>2 DEF AgentStays, IInv, TakesInv
  <2> QED  BY <2>1, <2>2
<1>5. ReadsInv'
  <2> SUFFICES ASSUME NEW d \in Agents
               PROVE  /\ apc'[d] = "read" => copied[d] < Parts[abox'[d]]
                      /\ apc'[d] = "apply" => copied[d] = Parts[abox'[d]]
                      /\ apc'[d] \in {"check", "clear"} => copied[d] = 0
    BY DEF ReadsInv
  <2>1. CASE d = a  BY <1>0, <2>1 DEF IInv, ReadsInv
  <2>2. CASE d # a  BY <1>2, <2>2 DEF AgentStays, IInv, ReadsInv
  <2> QED  BY <2>1, <2>2
<1>6. CleanInv'
  <2> SUFFICES ASSUME NEW d \in Agents PROVE CleanOK(d)'
    BY DEF CleanInv
  <2>1. CASE d = a  BY <1>0, <2>1 DEF CleanOK
  <2>2. CASE d # a
    BY <1>2, <2>2, CleanStays DEF IInv, CleanInv, boxes
  <2> QED  BY <2>1, <2>2
<1>7. DeliveryInv'
  <2> SUFFICES ASSUME NEW x \in Boxes PROVE DeliveryOK(x)'
    BY DEF DeliveryInv
  <2>1. ASSUME NEW d \in Agents, Bringing(d, x) PROVE Bringing(d, x)'
    <3>1. d # a  BY <1>0, <2>1 DEF Bringing
    <3> QED  BY <1>2, <2>1, <3>1, BringingStays
  <2> QED  BY <1>3, <2>1 DEF IInv, DeliveryInv, DeliveryOK, HolderKept, boxes
<1> QED  BY <1>1, <1>3, <1>4, <1>5, <1>6, <1>7 DEF IInv

LEMMA ClearFlagStep == ASSUME NEW a \in Agents, IInv, ClearFlag(a) PROVE IInv'
<1>b. PICK b \in Boxes : b = abox[a]
  BY DEF IInv, TypeOK
<1> USE DEF ClearFlag
<1>0. /\ apc[a] = "clear" /\ apc'[a] = "read" /\ copied[a] = 0 /\ abox'[a] = b
      /\ takes[a][b] < raised[b] /\ takes[a][b] \in Nat /\ raised[b] \in Nat
  BY <1>b DEF IInv, TypeOK, ReadsInv, TakesInv
<1>1. TypeOK'
  <2>1. apc' \in [Agents -> {"check", "clear", "read", "apply"}]  BY DEF IInv, TypeOK
  <2>2. flag' \in [Boxes -> BOOLEAN]  BY DEF IInv, TypeOK
  <2>3. takes' \in [Agents -> [Boxes -> Nat]]  BY <1>b, <1>0 DEF IInv, TypeOK
  <2>4. clean' \in [Agents -> BOOLEAN]  BY DEF IInv, TypeOK
  <2>5. crossed' \in [Boxes -> BOOLEAN]  BY DEF IInv, TypeOK
  <2> QED  BY <2>1, <2>2, <2>3, <2>4, <2>5 DEF IInv, TypeOK, clients
<1>2. \A d \in Agents \ {a} : AgentStays(d) /\ takes'[d] = takes[d] /\ clean'[d] = clean[d]
  BY DEF IInv, TypeOK, AgentStays
<1>3. HolderInv' /\ StoreInv' /\ \A x \in Boxes : HolderKept(x)
  BY ClientsAside
<1>4. TakesInv'
  <2> SUFFICES ASSUME NEW d \in Agents, NEW x \in Boxes
               PROVE  /\ takes'[d][x] <= raised[x]
                      /\ flag'[x] => takes'[d][x] < raised[x]
                      /\ abox'[d] = x /\ apc'[d] = "clear" => takes'[d][x] < raised[x]
    BY DEF TakesInv
  <2>1. CASE d = a /\ x = b
    <3>1. takes'[d][x] = takes[a][b] + 1  BY <1>b, <2>1 DEF IInv, TypeOK
    <3>2. ~flag'[x]  BY <1>b, <2>1 DEF IInv, TypeOK
    <3> QED  BY <1>0, <2>1, <3>1, <3>2
  <2>2. CASE ~(d = a /\ x = b)
    <3>1. takes'[d][x] = takes[d][x]  BY <1>b, <2>2 DEF IInv, TypeOK
    <3>2. flag'[x] => flag[x]  BY DEF IInv, TypeOK
    <3>3. abox'[d] = x /\ apc'[d] = "clear" => abox[d] = x /\ apc[d] = "clear"
      BY <1>0, <1>2 DEF AgentStays
    <3> QED  BY <3>1, <3>2, <3>3 DEF IInv, TakesInv
  <2> QED  BY <2>1, <2>2
<1>5. ReadsInv'
  <2> SUFFICES ASSUME NEW d \in Agents
               PROVE  /\ apc'[d] = "read" => copied[d] < Parts[abox[d]]
                      /\ apc'[d] = "apply" => copied[d] = Parts[abox[d]]
                      /\ apc'[d] \in {"check", "clear"} => copied[d] = 0
    BY DEF ReadsInv
  <2>1. CASE d = a  BY <1>b, <1>0, <2>1, CommandMailboxAssumption
  <2>2. CASE d # a  BY <1>2, <2>2 DEF AgentStays, IInv, ReadsInv
  <2> QED  BY <2>1, <2>2
<1>6. Current(a)'
  <2>1. \A p \in PartsOf(b) : ~(p <= 0)  BY CommandMailboxAssumption DEF PartsOf
  <2> QED  BY <1>0, <2>1 DEF Current
<1>7. CleanInv'
  <2> SUFFICES ASSUME NEW d \in Agents PROVE CleanOK(d)'
    BY DEF CleanInv
  <2>1. CASE d = a
    <3>1. clean'[a] => lock[b] = NoClient  BY <1>b DEF IInv, TypeOK
    <3> QED  BY <1>0, <1>6, <2>1, <3>1 DEF CleanOK
  <2>2. CASE d # a
    BY <1>2, <2>2, CleanStays DEF IInv, CleanInv
  <2> QED  BY <2>1, <2>2
<1>8. DeliveryInv'
  <2> SUFFICES ASSUME NEW x \in Boxes PROVE DeliveryOK(x)'
    BY DEF DeliveryInv
  <2>1. ASSUME NEW d \in Agents, Bringing(d, x) PROVE Bringing(d, x)'
    <3>1. d # a  BY <1>0, <2>1 DEF Bringing
    <3> QED  BY <1>2, <2>1, <3>1, BringingStays
  <2>2. CASE x = b
    <3>1. Bringing(a, b)'  BY <1>0, <1>6 DEF Bringing
    <3>2. lock[b] # NoClient => crossed'[b]  BY <1>b DEF IInv, TypeOK
    <3> QED  BY <2>2, <3>1, <3>2 DEF DeliveryOK
  <2>3. CASE x # b
    <3>1. (flag[x] => flag'[x]) /\ (crossed[x] => crossed'[x])
      BY <1>b, <2>3 DEF IInv, TypeOK
    <3> QED  BY <2>1, <3>1 DEF IInv, DeliveryInv, DeliveryOK, clients
  <2> QED  BY <2>2, <2>3
<1> QED  BY <1>1, <1>3, <1>4, <1>5, <1>7, <1>8 DEF IInv

LEMMA ReadPartStep == ASSUME NEW a \in Agents, IInv, ReadPart(a) PROVE IInv'
<1>b. PICK b \in Boxes : b = abox[a]
  BY DEF IInv, TypeOK
<1> DEFINE p == copied[a] + 1
<1> USE DEF ReadPart
<1>0. /\ apc[a] = "read" /\ p \in PartsOf(b) /\ copied[a] \in Nat /\ abox'[a] = b
      /\ Parts[b] \in Nat
  BY <1>b, CommandMailboxAssumption DEF IInv, TypeOK, ReadsInv, PartsOf
<1>1. /\ copied'[a] = copied[a] + 1
      /\ apc'[a] = IF copied[a] + 1 = Parts[b] THEN "apply" ELSE "read"
      /\ \A q \in PartsOf(b) :
            got'[a][q] = IF q = copied[a] + 1 THEN data[b][q] ELSE got[a][q]
  <2>1. /\ copied'[a] = copied[a] + 1
        /\ apc'[a] = IF copied[a] + 1 = Parts[b] THEN "apply" ELSE "read"
    BY <1>b DEF IInv, TypeOK
  <2>2. \A q \in PartsOf(b) : q \in AllParts  BY <1>b DEF AllParts
  <2>3. got' = [got EXCEPT ![a] = [got[a] EXCEPT ![p] = data[b][p]]]  BY <1>b
  <2>4. got'[a] = [got[a] EXCEPT ![p] = data[b][p]] /\ DOMAIN got[a] = AllParts
    BY <2>3 DEF IInv, TypeOK
  <2> QED  BY <2>1, <2>2, <2>4
<1>2. \A d \in Agents \ {a} : AgentStays(d)
  BY DEF IInv, TypeOK, AgentStays
<1>3. TypeOK'
  <2>1. apc' \in [Agents -> {"check", "clear", "read", "apply"}]  BY DEF IInv, TypeOK
  <2>2. copied' \in [Agents -> Nat]  BY <1>0 DEF IInv, TypeOK
  <2>3. data[b][p] \in Numbers  BY <1>0 DEF IInv, TypeOK
  <2>4. got' \in [Agents -> [AllParts -> Numbers]]  BY <1>b, <2>3 DEF IInv, TypeOK
  <2> QED  BY <2>1, <2>2, <2>4 DEF IInv, TypeOK, boxes, clients
<1>4. HolderInv' /\ StoreInv' /\ \A x \in Boxes : HolderKept(x)
  BY ClientsAside DEF boxes
<1>5. TakesInv'
  <2>1. \A d \in Agents : apc'[d] = "clear" => apc[d] = "clear"
    BY <1>1, <1>2 DEF AgentStays
  <2> QED  BY <2>1 DEF IInv, TakesInv, boxes
<1>6. ReadsInv'
  <2> SUFFICES ASSUME NEW d \in Agents
               PROVE  /\ apc'[d] = "read" => copied'[d] < Parts[abox[d]]
                      /\ apc'[d] = "apply" => copied'[d] = Parts[abox[d]]
                      /\ apc'[d] \in {"check", "clear"} => copied'[d] = 0
    BY DEF ReadsInv
  <2>1. CASE d = a
    <3>1. copied[a] + 1 <= Parts[b]  BY <1>0 DEF PartsOf
    <3> QED  BY <1>b, <1>0, <1>1, <2>1, <3>1
  <2>2. CASE d # a  BY <1>2, <2>2 DEF AgentStays, IInv, ReadsInv
  <2> QED  BY <2>1, <2>2
\* A part read from a box that no client has locked is the last command's.
<1>7. lock[b] = NoClient /\ Current(a) => Current(a)'
  <2> SUFFICES ASSUME lock[b] = NoClient, Current(a), NEW q \in PartsOf(b),
                      q <= copied[a] + 1
               PROVE  got'[a][q] = last[b]
    BY <1>0, <1>1 DEF Current
  <2>1. data[b][q] = last[b]  BY DEF IInv, StoreInv, StoreOK, Whole
  <2>2. q <= copied[a] \/ q = copied[a] + 1  BY <1>0 DEF PartsOf
  <2> QED  BY <1>b, <1>1, <2>1, <2>2 DEF Current
<1>8. CleanInv'
  <2> SUFFICES ASSUME NEW d \in Agents PROVE CleanOK(d)'
    BY DEF CleanInv
  <2>1. CASE d = a
    BY <1>b, <1>0, <1>7, <2>1 DEF CleanOK, IInv, CleanInv, boxes
  <2>2. CASE d # a
    BY <1>2, <2>2, CleanStays DEF IInv, CleanInv, boxes
  <2> QED  BY <2>1, <2>2
<1>9. DeliveryInv'
  <2> SUFFICES ASSUME NEW x \in Boxes PROVE DeliveryOK(x)'
    BY DEF DeliveryInv
  <2>1. ASSUME NEW d \in Agents, Bringing(d, x), lock[x] = NoClient
        PROVE  Bringing(d, x)'
    <3>1. CASE d = a
      <4>1. x = b /\ Current(a)  BY <1>b, <2>1, <3>1 DEF Bringing
      <4> QED  BY <1>0, <1>1, <1>7, <2>1, <3>1, <4>1 DEF Bringing
    <3>2. CASE d # a  BY <1>2, <2>1, <3>2, BringingStays
    <3> QED  BY <3>1, <3>2
  <2> QED  BY <1>4, <2>1 DEF IInv, DeliveryInv, DeliveryOK, HolderKept, boxes
<1> QED  BY <1>3, <1>4, <1>5, <1>6, <1>8, <1>9 DEF IInv

LEMMA ApplyStep == ASSUME NEW a \in Agents, IInv, Apply(a) PROVE IInv'
<1>b. PICK b \in Boxes : b = abox[a]
  BY DEF IInv, TypeOK
<1> USE DEF Apply
<1>0. /\ apc[a] = "apply" /\ copied[a] = Parts[b] /\ NextBox[b] \in Boxes
      /\ Parts[b] \in Nat /\ apc'[a] = "check" /\ copied'[a] = 0
  BY <1>b, CommandMailboxAssumption DEF IInv, TypeOK, ReadsInv, NextBox, Boxes
<1>1. TypeOK'
  <2>1. apc' \in [Agents -> {"check", "clear", "read", "apply"}]  BY DEF IInv, TypeOK
  <2>2. abox' \in [Agents -> Boxes]  BY <1>b, <1>0 DEF IInv, TypeOK
  <2>3. copied' \in [Agents -> Nat]  BY DEF IInv, TypeOK
  <2>4. Nothing \in [AllParts -> Numbers]
    BY CommandMailboxAssumption DEF Nothing, Numbers
  <2>5. got' \in [Agents -> [AllParts -> Numbers]]  BY <2>4 DEF IInv, TypeOK
  <2>6. applied' \in [Boxes -> SUBSET Numbers]  BY <1>b DEF IInv, TypeOK
  <2> QED  BY <2>1, <2>2, <2>3, <2>5, <2>6 DEF IInv, TypeOK, boxes, clients
<1>2. \A d \in Agents \ {a} : AgentStays(d)
  BY DEF IInv, TypeOK, AgentStays
<1>3. HolderInv' /\ StoreInv' /\ \A x \in Boxes : HolderKept(x)
  BY ClientsAside DEF boxes
<1>4. TakesInv'
  <2>1. \A d \in Agents : apc'[d] = "clear" => apc[d] = "clear" /\ abox'[d] = abox[d]
    BY <1>0, <1>2 DEF AgentStays
  <2> QED  BY <2>1 DEF IInv, TakesInv, boxes
<1>5. ReadsInv'
  <2> SUFFICES ASSUME NEW d \in Agents
               PROVE  /\ apc'[d] = "read" => copied'[d] < Parts[abox'[d]]
                      /\ apc'[d] = "apply" => copied'[d] = Parts[abox'[d]]
                      /\ apc'[d] \in {"check", "clear"} => copied'[d] = 0
    BY DEF ReadsInv
  <2>1. CASE d = a  BY <1>0, <2>1
  <2>2. CASE d # a  BY <1>2, <2>2 DEF AgentStays, IInv, ReadsInv
  <2> QED  BY <2>1, <2>2
<1>6. CleanInv'
  <2> SUFFICES ASSUME NEW d \in Agents PROVE CleanOK(d)'
    BY DEF CleanInv
  <2>1. CASE d = a  BY <1>0, <2>1 DEF CleanOK
  <2>2. CASE d # a
    BY <1>2, <2>2, CleanStays DEF IInv, CleanInv, boxes
  <2> QED  BY <2>1, <2>2
<1>7. DeliveryInv'
  <2> SUFFICES ASSUME NEW x \in Boxes PROVE DeliveryOK(x)'
    BY DEF DeliveryInv
  <2>1. ASSUME NEW d \in Agents, Bringing(d, x)
        PROVE  Bringing(d, x)' \/ last[x] \in applied'[x]
    <3>1. CASE d = a
      <4>1. x = b /\ \A p \in PartsOf(b) : got[a][p] = last[b]
        BY <1>b, <1>0, <2>1, <3>1 DEF Bringing, Current, PartsOf
      <4>2. last[b] \in Numbers  BY DEF IInv, TypeOK
      <4> QED  BY <1>b, <4>1, <4>2 DEF IInv, TypeOK
    <3>2. CASE d # a  BY <1>2, <2>1, <3>2, BringingStays
    <3> QED  BY <3>1, <3>2
  <2>2. last[x] \in applied[x] => last[x] \in applied'[x]
    BY <1>b DEF IInv, TypeOK
  <2> QED  BY <1>3, <2>1, <2>2 DEF IInv, DeliveryInv, DeliveryOK, HolderKept, boxes
<1> QED  BY <1>1, <1>3, <1>4, <1>5, <1>6, <1>7 DEF IInv

-----------------------------------------------------------------------------

LEMMA StutterStep == IInv /\ UNCHANGED vars => IInv'
<1> SUFFICES ASSUME IInv, UNCHANGED vars PROVE IInv'
  OBVIOUS
<1> USE DEF vars
<1>1. HolderInv' /\ StoreInv' /\ \A x \in Boxes : HolderKept(x)
  BY ClientsAside DEF clients
<1>2. TypeOK'  BY DEF IInv, TypeOK
<1>3. TakesInv' /\ ReadsInv'  BY DEF IInv, TakesInv, ReadsInv
<1>4. CleanInv'  BY CleanFrame DEF IInv, CleanInv, agents
<1>5. DeliveryInv'  BY <1>1, DeliveryFrame DEF IInv, DeliveryInv, agents
<1> QED  BY <1>1, <1>2, <1>3, <1>4, <1>5 DEF IInv

\* IInv is inductive.
THEOREM Inductive == Spec => []IInv
<1>1. Init => IInv
  BY InitIInv
<1>2. IInv /\ [Next]_vars => IInv'
  <2> SUFFICES ASSUME IInv, [Next]_vars PROVE IInv'
    OBVIOUS
  <2>1. ASSUME NEW c \in Clients, Receive(c) PROVE IInv'
    BY <2>1, ReceiveStep
  <2>2. ASSUME NEW c \in Clients, Set(c) PROVE IInv'
    BY <2>2, LockStep, RaiseStep, PopStep, StoreStep, UnlockStep DEF Set
  <2>3. ASSUME NEW a \in Agents, StatusInfo(a) PROVE IInv'
    BY <2>3, CheckFlagStep, ClearFlagStep, ReadPartStep, ApplyStep DEF StatusInfo
  <2>4. CASE UNCHANGED vars
    BY <2>4, StutterStep
  <2> QED  BY <2>1, <2>2, <2>3, <2>4 DEF Next
<1> QED  BY <1>1, <1>2, PTL DEF Spec

\* Flags, data, locks and the threads' places keep their kinds.
THEOREM TypeCorrect == Spec => []TypeOK
<1>1. IInv => TypeOK  BY DEF IInv
<1> QED  BY <1>1, Inductive, PTL

\* A box that nobody has locked holds one whole command, the last with data,
\* however many clients wrote to it.
THEOREM WholeAtRestTheorem == Spec => []WholeAtRest
<1>1. IInv => WholeAtRest  BY DEF IInv, StoreInv, StoreOK, Whole, WholeAtRest
<1> QED  BY <1>1, Inductive, PTL

\* An agent that no command met while it read, without a lock, has the box's
\* last command whole.
THEOREM CleanTakeIsLastTheorem == Spec => []CleanTakeIsLast
<1>1. ASSUME IInv PROVE CleanTakeIsLast
  <2> SUFFICES ASSUME NEW a \in Agents, apc[a] = "apply", clean[a],
                      NEW p \in PartsOf(abox[a])
               PROVE  got[a][p] = last[abox[a]]
    BY DEF CleanTakeIsLast
  <2>1. Current(a) /\ copied[a] = Parts[abox[a]]
    BY <1>1 DEF IInv, CleanInv, CleanOK, ReadsInv
  <2>2. p <= Parts[abox[a]]
    BY <1>1, CommandMailboxAssumption DEF IInv, TypeOK, PartsOf
  <2> QED  BY <2>1, <2>2 DEF Current
<1> QED  BY <1>1, Inductive, PTL

\* No agent takes a box's data more often than a command raised its flag.
THEOREM TakesAtMostOncePerCommandTheorem == Spec => []TakesAtMostOncePerCommand
<1>1. IInv => TakesAtMostOncePerCommand
  BY DEF IInv, TakesInv, TakesAtMostOncePerCommand
<1> QED  BY <1>1, Inductive, PTL

\* A box's last command is applied by some agent, unless an agent lowered the
\* flag while the command's data was being stored.
THEOREM LostOnlyIfCrossedTheorem == Spec => []LostOnlyIfCrossed
<1>1. ASSUME IInv PROVE LostOnlyIfCrossed
  <2> SUFFICES ASSUME NEW b \in Boxes, Quiet(b), ~crossed[b]
               PROVE  last[b] \in applied[b]
    BY DEF LostOnlyIfCrossed
  <2>1. \A a \in Agents : ~Bringing(a, b)
    BY DEF Quiet, Bringing
  <2>2. lock[b] = NoClient /\ ~flag[b]
    BY DEF Quiet
  <2> QED  BY <1>1, <2>1, <2>2 DEF IInv, DeliveryInv, DeliveryOK
<1> QED  BY <1>1, Inductive, PTL

=============================================================================
