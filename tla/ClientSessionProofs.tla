------------------------- MODULE ClientSessionProofs -------------------------
(***************************************************************************)
(* For queues of any size, any number of slices per frame and any number   *)
(* of frames: the sender never writes to a deleted socket, the slices come *)
(* in their order and each once, and a full queue costs old frames only.   *)
(* The last part is about the other direction: from the bytes of the       *)
(* connection, PacketReader takes the packets that the peer sent, whatever *)
(* is between them.                                                        *)
(***************************************************************************)
EXTENDS ClientSession, PacketReader, SequenceTheorems, TLAPS

Types ==
  /\ m_send_q \in Seq(Nat) /\ written \in Seq(Nat)
  /\ packet \in Nat /\ slice \in Nat \ {0} /\ overflows \in Nat
  /\ serror \in BOOLEAN /\ m_stop_flag \in BOOLEAN
  /\ spc \in {"pop", "lock", "test", "write", "unlock", "over"}
  /\ bpc \in {"frame", "push", "skip"}

\* The socket's lock, and the socket under it.
SocketInv ==
  /\ m_socket \in {"open", "null"}
  /\ spc \in {"test", "write", "unlock"} => m_socket_lock = "sender"
  /\ rpc \in {"delete", "unlock"} => m_socket_lock = "receiver"
  /\ spc = "write" => m_socket = "open"

\* Where a slice can be, besides having been dropped.
Holding == spc \in {"lock", "test", "write"}
Held(s) ==
  \/ \E i \in 1 .. Len(written) : written[i] = s
  \/ Holding /\ packet = s
  \/ \E i \in 1 .. Len(m_send_q) : m_send_q[i] = s

\* The slices written, the one in the sender's hand, those that wait and the
\* next one form one increasing sequence; the queue's are the newest.
OrderInv ==
  /\ \A i, j \in 1 .. Len(written) : i < j => written[i] < written[j]
  /\ \A i, j \in 1 .. Len(m_send_q) : i < j => m_send_q[i] < m_send_q[j]
  /\ \A i \in 1 .. Len(written) : written[i] \in 1 .. slice - 1
  /\ \A i \in 1 .. Len(m_send_q) : m_send_q[i] \in 1 .. slice - 1 - (Len(m_send_q) - i)
  /\ \A i \in 1 .. Len(written), j \in 1 .. Len(m_send_q) : written[i] < m_send_q[j]
  /\ Holding =>
       /\ packet \in 1 .. slice - 1
       /\ \A i \in 1 .. Len(written) : written[i] < packet
       /\ \A j \in 1 .. Len(m_send_q) : packet < m_send_q[j]

\* Which slices cannot have been lost, as long as nobody has given up.
KeptInv ==
  /\ spc \in {"pop", "lock", "test", "write"} => ~serror
  /\ bpc = "skip" => m_stop_flag
  /\ ~serror /\ ~m_stop_flag =>
       \A s \in 1 .. slice - 1 :
         overflows = 0 \/ s > slice - 1 - (MAX_SENDQ_SIZE + 1) => Held(s)

Inv == Types /\ SocketInv /\ OrderInv /\ KeptInv

LEMMA InvInit == Init => Inv
  <1> SUFFICES ASSUME Init PROVE Inv
    OBVIOUS
  <1> USE DEF Init, SendQ!Init, nullptr
  <1>a. serror \in BOOLEAN /\ m_stop_flag \in BOOLEAN
    <2>1. serror = FALSE /\ m_stop_flag = FALSE
      OBVIOUS
    <2> QED BY <2>1, Zenon
  <1>b. /\ m_send_q = << >> /\ written = << >> /\ packet = 0 /\ slice = 1 /\ overflows = 0
        /\ spc = "pop" /\ bpc = "frame"
    OBVIOUS
  <1>1. Types
    <2>1. /\ m_send_q \in Seq(Nat) /\ written \in Seq(Nat)
          /\ packet \in Nat /\ slice \in Nat \ {0} /\ overflows \in Nat
      BY <1>b
    <2>2. /\ spc \in {"pop", "lock", "test", "write", "unlock", "over"}
          /\ bpc \in {"frame", "push", "skip"}
      BY <1>b
    <2> QED BY <1>a, <2>1, <2>2, Zenon DEF Types
  <1>2. SocketInv
    BY DEF SocketInv
  <1>3. OrderInv
    BY DEF OrderInv, Holding
  <1>4. KeptInv
    BY DEF KeptInv
  <1> QED BY <1>1, <1>2, <1>3, <1>4 DEF Inv

-----------------------------------------------------------------------------

\* What a Put does to the queue: d packets go from the front, if any so many
\* that MAX_SENDQ_SIZE stay, and the new one comes last.
Shifted(s, t, n, d, x) ==
  /\ \A i \in 1 .. n - d : t[i] = s[i + d]
  /\ t[n - d + 1] = x

LEMMA PutShifts ==
  ASSUME NEW s \in Seq(Nat), NEW x \in Nat
  PROVE  LET t == Append(SendQ!Newest(s), x) IN
         /\ t \in Seq(Nat)
         /\ \E n, d \in Nat :
              /\ n = Len(s) /\ d <= n /\ Len(t) = n - d + 1
              /\ d = 0 \/ n - d = MAX_SENDQ_SIZE
              /\ n - Len(SendQ!Newest(s)) = d
              /\ Shifted(s, t, n, d, x)
  <1> USE ClientSessionAssumption
  <1> DEFINE u == SendQ!Newest(s)
  <1>1. PICK n \in Nat : n = Len(s)
    OBVIOUS
  <1>2. CASE n > MAX_SENDQ_SIZE
    <2>1. u = SubSeq(s, n - MAX_SENDQ_SIZE + 1, n)
      BY <1>1, <1>2 DEF SendQ!Newest
    <2> DEFINE d == n - MAX_SENDQ_SIZE
    <2>2. d \in Nat /\ d <= n /\ n - d = MAX_SENDQ_SIZE
      BY <1>2
    <2>3. \A i \in d + 1 .. n : s[i] \in Nat
      BY <1>1, <2>2
    <2>4. /\ u \in Seq(Nat) /\ Len(u) = n - d
          /\ \A i \in 1 .. n - d : u[i] = s[i + d]
      <3>1. u = SubSeq(s, d + 1, n) /\ d + 1 \in Int /\ n \in Int
        BY <2>1, <2>2
      <3>2. /\ u \in Seq(Nat) /\ Len(u) = IF d + 1 <= n THEN n - (d + 1) + 1 ELSE 0
            /\ \A i \in 1 .. n - (d + 1) + 1 : u[i] = s[(d + 1) + i - 1]
        BY <2>3, <3>1, SubSeqProperties
      <3> HIDE DEF u, d
      <3>3. n - (d + 1) + 1 = n - d /\ \A i \in 1 .. n - d : (d + 1) + i - 1 = i + d
        BY <2>2
      <3>4. Len(u) = n - d
        BY <2>2, <3>2, <3>3
      <3> QED BY <3>2, <3>3, <3>4
    <2> HIDE DEF u, d
    <2>5. /\ Append(u, x) \in Seq(Nat) /\ Len(Append(u, x)) = Len(u) + 1
          /\ \A i \in 1 .. Len(u) : Append(u, x)[i] = u[i]
          /\ Append(u, x)[Len(u) + 1] = x
      BY <2>4, AppendProperties
    <2>6. Shifted(s, Append(u, x), n, d, x)
      BY <2>4, <2>5 DEF Shifted
    <2>7. n - Len(u) = d /\ Len(Append(u, x)) = n - d + 1
      BY <2>2, <2>4, <2>5
    <2> QED BY <1>1, <2>2, <2>5, <2>6, <2>7 DEF u
  <1>3. CASE ~(n > MAX_SENDQ_SIZE)
    <2>1. u = s
      BY <1>1, <1>3 DEF SendQ!Newest
    <2>2. /\ Append(s, x) \in Seq(Nat) /\ Len(Append(s, x)) = n + 1
          /\ \A i \in 1 .. n : Append(s, x)[i] = s[i]
          /\ Append(s, x)[n + 1] = x
      BY <1>1, AppendProperties
    <2>3. Shifted(s, Append(s, x), n, 0, x)
      BY <2>2 DEF Shifted
    <2>4. n - Len(u) = 0 /\ Len(Append(u, x)) = n - 0 + 1
      BY <1>1, <2>1, <2>2
    <2> HIDE DEF u
    <2> QED BY <1>1, <2>1, <2>2, <2>3, <2>4 DEF u
  <1> QED BY <1>2, <1>3

LEMMA PushPreserves ==
  ASSUME Inv, PushSendPacket
  PROVE  Inv'
  <1> USE ClientSessionAssumption
  <1>0. Types /\ SocketInv /\ OrderInv /\ KeptInv
    BY DEF Inv
  <1>1. /\ m_send_q' = Append(SendQ!Newest(m_send_q), slice) /\ slice' = slice + 1
        /\ overflows' = overflows + Len(m_send_q) - Len(SendQ!Newest(m_send_q))
        /\ bpc' \in {"frame", "push"}
        /\ UNCHANGED <<written, packet, spc, serror, rpc, life>>
    BY DEF PushSendPacket, SendQ!Put
  <1>2. PICK n \in Nat, d \in Nat :
          /\ n = Len(m_send_q) /\ d <= n /\ Len(m_send_q') = n - d + 1
          /\ d = 0 \/ n - d = MAX_SENDQ_SIZE
          /\ n - Len(SendQ!Newest(m_send_q)) = d
          /\ Shifted(m_send_q, m_send_q', n, d, slice)
    BY <1>0, <1>1, PutShifts DEF Types
  <1>3. PICK m \in Nat : m = Len(m_send_q') /\ m = n - d + 1
    BY <1>2
  <1>4. m_send_q' \in Seq(Nat)
    BY <1>0, <1>1, PutShifts DEF Types
  <1>5. /\ \A i \in 1 .. n - d : m_send_q'[i] = m_send_q[i + d] /\ i + d \in 1 .. n
        /\ m_send_q'[m] = slice
    BY <1>2, <1>3 DEF Shifted
  <1>6. \A i \in 1 .. m : i \in 1 .. n - d \/ i = m
    BY <1>2, <1>3
  <1>7. overflows' = overflows + d
    <2>1. PICK k \in Nat : k = Len(SendQ!Newest(m_send_q)) /\ n - k = d
      <3>1. SendQ!Newest(m_send_q) \in Seq(Nat)
        BY <1>0 DEF Types, SendQ!Newest
      <3> QED BY <1>2, <3>1
    <2>2. overflows' = overflows + n - k
      BY <1>1, <1>2, <2>1
    <2> QED BY <1>0, <2>1, <2>2 DEF Types
  <1>8. Types'
    BY <1>0, <1>1, <1>4, <1>7 DEF Types, life
  <1>9. SocketInv'
    BY <1>0, <1>1 DEF SocketInv, life
  <1>10. slice \in Nat \ {0} /\ \A i \in 1 .. n : m_send_q[i] \in 1 .. slice - 1 - (n - i)
    BY <1>0, <1>2 DEF Types, OrderInv
  <1>11. \A i \in 1 .. m : m_send_q'[i] \in 1 .. slice' - 1 - (m - i)
    <2> SUFFICES ASSUME NEW i \in 1 .. m PROVE m_send_q'[i] \in 1 .. slice - (m - i)
      BY <1>1, <1>10
    <2>1. CASE i = m
      BY <1>5, <1>10, <2>1
    <2>2. CASE i \in 1 .. n - d
      <3>1. m_send_q'[i] \in 1 .. slice - 1 - (n - (i + d))
        BY <1>5, <1>10, <2>2
      <3>2. slice - 1 - (n - (i + d)) = slice - (m - i)
        BY <1>3, <1>10
      <3> QED BY <3>1, <3>2
    <2> QED BY <1>6, <2>1, <2>2
  <1>12. OrderInv'
    <2>1. \A i, j \in 1 .. m : i < j => m_send_q'[i] < m_send_q'[j]
      <3> SUFFICES ASSUME NEW i \in 1 .. m, NEW j \in 1 .. m, i < j
                   PROVE  m_send_q'[i] < m_send_q'[j]
        OBVIOUS
      <3>1. i \in 1 .. n - d
        BY <1>6
      <3>2. CASE j = m
        BY <1>5, <1>10, <3>1, <3>2
      <3>3. CASE j \in 1 .. n - d
        <4>1. i + d < j + d
          BY <3>3
        <4> QED BY <1>0, <1>2, <1>5, <3>1, <3>3, <4>1 DEF OrderInv
      <3> QED BY <1>6, <3>2, <3>3
    <2>2. \A i \in 1 .. Len(written) : written[i] \in 1 .. slice - 1
      BY <1>0 DEF OrderInv
    <2>3. \A i \in 1 .. Len(written), j \in 1 .. m : written[i] < m_send_q'[j]
      <3> SUFFICES ASSUME NEW i \in 1 .. Len(written), NEW j \in 1 .. m
                   PROVE  written[i] < m_send_q'[j]
        OBVIOUS
      <3>1. CASE j = m
        BY <1>5, <1>10, <2>2, <3>1
      <3>2. CASE j \in 1 .. n - d
        BY <1>0, <1>2, <1>5, <3>2 DEF OrderInv
      <3> QED BY <1>6, <3>1, <3>2
    <2>4. Holding' => \A j \in 1 .. m : packet < m_send_q'[j]
      <3> SUFFICES ASSUME Holding, NEW j \in 1 .. m
                   PROVE  packet < m_send_q'[j]
        BY <1>1 DEF Holding
      <3>1. CASE j = m
        BY <1>0, <1>5, <1>10, <3>1 DEF OrderInv
      <3>2. CASE j \in 1 .. n - d
        BY <1>0, <1>2, <1>5, <3>2 DEF OrderInv
      <3> QED BY <1>6, <3>1, <3>2
    <2>5. \A x \in 1 .. slice - 1 : x \in 1 .. slice' - 1
      BY <1>1, <1>10
    <2>6. \A i \in 1 .. Len(written) : written[i] \in 1 .. slice' - 1
      BY <2>2, <2>5
    <2>7. /\ \A i, j \in 1 .. Len(written) : i < j => written[i] < written[j]
          /\ Holding' => /\ packet \in 1 .. slice' - 1
                         /\ \A i \in 1 .. Len(written) : written[i] < packet
      BY <1>0, <1>1, <2>5 DEF OrderInv, Holding
    <2> QED BY <1>1, <1>3, <1>11, <2>1, <2>3, <2>4, <2>6, <2>7 DEF OrderInv
  <1>13. KeptInv'
    <2>1. ASSUME ~serror, ~m_stop_flag, NEW s \in 1 .. slice' - 1,
                 overflows' = 0 \/ s > slice' - 1 - (MAX_SENDQ_SIZE + 1)
          PROVE  Held(s)'
      <3>1. CASE s = slice
        <4>1. m \in 1 .. m
          BY <1>2, <1>3
        <4> QED BY <1>3, <1>5, <3>1, <4>1 DEF Held
      <3>2. CASE s # slice
        <4>1. s \in 1 .. slice - 1
          BY <1>1, <1>10, <3>2
        <4>2. overflows' = 0 => overflows = 0 /\ d = 0
          BY <1>0, <1>7 DEF Types
        <4>3. overflows = 0 \/ s > slice - 1 - (MAX_SENDQ_SIZE + 1)
          BY <1>1, <1>10, <2>1, <4>2
        <4>4. Held(s)
          BY <1>0, <2>1, <4>1, <4>3 DEF KeptInv
        <4>5. ASSUME NEW i \in 1 .. n, m_send_q[i] = s
              PROVE  \E j \in 1 .. m : m_send_q'[j] = s
          <5>1. s <= slice - 1 - (n - i)
            BY <1>10, <4>5
          \* Were it among the dropped, the MAX_SENDQ_SIZE that stay would be newer.
          <5>2. i > d
            <6> SUFFICES ASSUME i <= d, d # 0 PROVE FALSE
              OBVIOUS
            <6>1. n - d = MAX_SENDQ_SIZE
              BY <1>2
            <6>2. s > slice - (MAX_SENDQ_SIZE + 1)
              BY <1>1, <1>10, <2>1, <4>2
            <6> QED BY <1>10, <5>1, <6>1, <6>2
          <5>3. i - d \in 1 .. n - d /\ i - d \in 1 .. m /\ (i - d) + d = i
            BY <1>2, <1>3, <5>2
          <5>4. m_send_q'[i - d] = s
            BY <1>5, <4>5, <5>3
          <5> QED BY <5>3, <5>4
        <4> QED BY <1>1, <1>2, <1>3, <4>4, <4>5 DEF Held, Holding
      <3> QED BY <3>1, <3>2
    <2>2. /\ spc' \in {"pop", "lock", "test", "write"} => ~serror'
          /\ bpc' = "skip" => m_stop_flag'
      BY <1>0, <1>1 DEF KeptInv, life
    <2>3. serror' = serror /\ m_stop_flag' = m_stop_flag
      BY <1>1 DEF life
    <2> QED BY <2>1, <2>2, <2>3 DEF KeptInv
  <1> QED BY <1>8, <1>9, <1>12, <1>13 DEF Inv

\* The parts of the state that the order of the stream depends on.
streamVars == <<m_send_q, written, packet, slice, overflows, serror, m_stop_flag, spc, bpc>>

LEMMA StreamFrameKeeps ==
  ASSUME Types, OrderInv, KeptInv, UNCHANGED streamVars
  PROVE  Types' /\ OrderInv' /\ KeptInv'
  <1> USE DEF streamVars
  <1>1. Types'
    BY DEF Types
  <1>2. OrderInv'
    BY DEF OrderInv, Holding
  <1>3. KeptInv'
    BY DEF KeptInv, Held, Holding
  <1> QED BY <1>1, <1>2, <1>3

\* What does not touch the stream.
LEMMA OthersPreserve ==
  ASSUME Inv,
         \/ SetArg \/ StartThread \/ Disconnect \/ ReadPacket \/ ReadError
         \/ ReceiverLock \/ DeleteSocket \/ ReceiverUnlock \/ ComPacketProc
  PROVE  Inv'
  <1> USE DEF life, receiving, sending, pcs
  <1>0. Types /\ SocketInv /\ OrderInv /\ KeptInv
    BY DEF Inv
  <1>1. UNCHANGED streamVars
    BY DEF SetArg, StartThread, Disconnect, ReadPacket, ReadError, ReceiverLock,
       DeleteSocket, ReceiverUnlock, ComPacketProc, PopRecvPacket, Do, streamVars
  <1>2. Types' /\ OrderInv' /\ KeptInv'
    BY <1>0, <1>1, StreamFrameKeeps
  <1>3. SocketInv'
    BY <1>0 DEF SocketInv, SetArg, StartThread, Disconnect, ReadPacket, ReadError,
       ReceiverLock, DeleteSocket, ReceiverUnlock, ComPacketProc, PopRecvPacket, Do
  <1> QED BY <1>2, <1>3 DEF Inv

LEMMA Wider ==
  ASSUME NEW a \in Nat, NEW b \in Nat, a < b, NEW k \in Nat, NEW x \in 1 .. a - 1 - k
  PROVE  x \in 1 .. b - 1 - k /\ x \in 1 .. b - 1
  OBVIOUS

LEMMA WiderAll ==
  ASSUME NEW a \in Nat, NEW b \in Nat, a < b, NEW x \in 1 .. a - 1
  PROVE  x \in 1 .. b - 1
  OBVIOUS

\* The stream thread begins a frame, or passes over a client that is stopped;
\* and the client stops.
LEMMA SkipPreserves ==
  ASSUME Inv, Die \/ StreamFrame \/ SkipClient
  PROVE  Inv'
  <1> USE ClientSessionAssumption DEF life, receiving, sending
  <1>0. Types /\ SocketInv /\ OrderInv /\ KeptInv
    BY DEF Inv
  <1>1. SocketInv'
    BY <1>0 DEF SocketInv, Die, StreamFrame, SkipClient
  <1>2. CASE Die
    <2>1. m_stop_flag' = TRUE /\ UNCHANGED <<m_send_q, written, packet, slice, overflows, serror, spc, bpc>>
      BY <1>2 DEF Die
    <2>2. Types'
      BY <1>0, <2>1 DEF Types
    <2>3. OrderInv'
      BY <1>0, <2>1 DEF OrderInv, Holding
    <2>4. KeptInv'
      BY <1>0, <2>1 DEF KeptInv
    <2> QED BY <1>1, <2>2, <2>3, <2>4 DEF Inv
  <1>3. CASE StreamFrame
    <2>1. /\ bpc' = IF m_stop_flag THEN "skip" ELSE "push"
          /\ UNCHANGED <<m_send_q, written, packet, slice, overflows, serror, m_stop_flag, spc>>
      BY <1>3 DEF StreamFrame
    <2>2. Types'
      BY <1>0, <2>1 DEF Types
    <2>3. OrderInv'
      BY <1>0, <2>1 DEF OrderInv, Holding
    <2>4. KeptInv'
      BY <1>0, <2>1 DEF KeptInv, Held, Holding
    <2> QED BY <1>1, <2>2, <2>3, <2>4 DEF Inv
  <1>4. CASE SkipClient
    <2>1. /\ slice' = slice + Slices /\ bpc' = "frame" /\ bpc = "skip"
          /\ UNCHANGED <<m_send_q, written, packet, overflows, serror, m_stop_flag, spc>>
      BY <1>4 DEF SkipClient
    <2>2. slice \in Nat \ {0} /\ slice' \in Nat \ {0} /\ slice' > slice
      BY <1>0, <2>1 DEF Types
    <2>3. Types'
      BY <1>0, <2>1, <2>2 DEF Types
    <2>4. OrderInv'
      <3>1. slice \in Nat /\ slice' \in Nat /\ slice < slice'
        BY <2>2
      <3>2. PICK n \in Nat : n = Len(m_send_q)
        BY <1>0 DEF Types
      <3>3. \A i \in 1 .. Len(written) : written[i] \in 1 .. slice' - 1
        <4> SUFFICES ASSUME NEW i \in 1 .. Len(written) PROVE written[i] \in 1 .. slice' - 1
          OBVIOUS
        <4>1. written[i] \in 1 .. slice - 1
          BY <1>0 DEF OrderInv
        <4> QED BY <3>1, <4>1
      <3>4. \A i \in 1 .. n : m_send_q[i] \in 1 .. slice' - 1 - (n - i)
        <4> SUFFICES ASSUME NEW i \in 1 .. n PROVE m_send_q[i] \in 1 .. slice' - 1 - (n - i)
          OBVIOUS
        <4>1. m_send_q[i] \in 1 .. slice - 1 - (n - i) /\ n - i \in Nat
          BY <1>0, <3>2 DEF OrderInv
        <4> QED BY <3>1, <4>1, Wider
      <3>5. Holding => packet \in 1 .. slice' - 1
        <4> SUFFICES ASSUME Holding PROVE packet \in 1 .. slice' - 1
          OBVIOUS
        <4>1. packet \in 1 .. slice - 1
          BY <1>0 DEF OrderInv
        <4>2. \A x \in 1 .. slice - 1 : x \in 1 .. slice' - 1
          BY <3>1, WiderAll, Zenon
        <4> QED BY <4>1, <4>2
      <3>6. Holding' = Holding
        BY <2>1 DEF Holding
      <3>7. /\ \A i, j \in 1 .. Len(written) : i < j => written[i] < written[j]
            /\ \A i, j \in 1 .. Len(m_send_q) : i < j => m_send_q[i] < m_send_q[j]
            /\ \A i \in 1 .. Len(written), j \in 1 .. Len(m_send_q) : written[i] < m_send_q[j]
            /\ Holding =>
                 /\ \A i \in 1 .. Len(written) : written[i] < packet
                 /\ \A j \in 1 .. Len(m_send_q) : packet < m_send_q[j]
        BY <1>0 DEF OrderInv
      <3> QED BY <2>1, <3>2, <3>3, <3>4, <3>5, <3>6, <3>7 DEF OrderInv
    <2>5. KeptInv'
      BY <1>0, <2>1 DEF KeptInv
    <2> QED BY <1>1, <2>3, <2>4, <2>5 DEF Inv
  <1> QED BY <1>2, <1>3, <1>4

LEMMA SendPreserves ==
  ASSUME Inv, SendProc
  PROVE  Inv'
  <1> USE DEF receiving
  <1>0. Types /\ SocketInv /\ OrderInv /\ KeptInv
    BY DEF Inv
  <1>1. CASE PopSendPacket
    <2>0. /\ spc = "pop" /\ UNCHANGED <<life, written, overflows, slice, serror, rpc, bpc>>
          /\ SendQ!Get /\ spc' = IF m_send_q = << >> THEN "pop" ELSE "lock"
      BY <1>1 DEF PopSendPacket, stream_onoff, STREAM_OFF, STREAM_ON
    <2>1. SocketInv'
      BY <1>0, <2>0 DEF SocketInv, life
    <2>2. CASE m_send_q = << >>
      <3>1. m_send_q' = m_send_q /\ packet' = 0 /\ spc' = "pop"
        BY <2>0, <2>2 DEF SendQ!Get, nullptr
      <3>2. Types'
        BY <1>0, <2>0, <3>1 DEF Types, life
      <3>3. OrderInv'
        BY <1>0, <2>0, <3>1 DEF OrderInv, Holding
      <3>4. KeptInv'
        BY <1>0, <2>0, <3>1 DEF KeptInv, Held, Holding, life
      <3> QED BY <2>1, <3>2, <3>3, <3>4 DEF Inv
    <2>3. CASE m_send_q # << >>
      <3>1. packet' = Head(m_send_q) /\ m_send_q' = Tail(m_send_q) /\ spc' = "lock"
        BY <2>0, <2>3 DEF SendQ!Get
      <3>2. PICK n \in Nat, m \in Nat :
              /\ n = Len(m_send_q) /\ m = Len(m_send_q') /\ m = n - 1
              /\ packet' = m_send_q[1] /\ m_send_q' \in Seq(Nat)
              /\ \A i \in 1 .. m : m_send_q'[i] = m_send_q[i + 1]
        BY <1>0, <2>3, <3>1 DEF Types
      <3>3. 1 \in 1 .. n /\ \A i \in 1 .. m : i + 1 \in 1 .. n /\ i + 1 > 1
        BY <3>2
      <3>4. Types'
        BY <1>0, <2>0, <3>1, <3>2, <3>3 DEF Types, life
      <3>5. OrderInv'
        <4>1. \A i \in 1 .. m : m_send_q'[i] \in 1 .. slice - 1 - (m - i)
          <5> SUFFICES ASSUME NEW i \in 1 .. m
                       PROVE  m_send_q'[i] \in 1 .. slice - 1 - (m - i)
            OBVIOUS
          <5>1. m_send_q'[i] \in 1 .. slice - 1 - (n - (i + 1))
            BY <1>0, <3>2, <3>3 DEF OrderInv
          <5>2. n - (i + 1) = m - i
            BY <3>2
          <5> QED BY <5>1, <5>2
        <4>2. \A i, j \in 1 .. m : i < j => m_send_q'[i] < m_send_q'[j]
          <5> SUFFICES ASSUME NEW i \in 1 .. m, NEW j \in 1 .. m, i < j
                       PROVE  m_send_q[i + 1] < m_send_q[j + 1]
            BY <3>2
          <5>1. i + 1 < j + 1
            OBVIOUS
          <5> QED BY <1>0, <3>2, <3>3, <5>1 DEF OrderInv
        <4>3. packet' \in 1 .. slice - 1
          <5>1. m_send_q[1] \in 1 .. slice - 1 - (n - 1)
            BY <1>0, <3>2, <3>3 DEF OrderInv
          <5>2. slice \in Nat
            BY <1>0 DEF Types
          <5> QED BY <3>2, <3>3, <5>1, <5>2
        <4>4. \A i \in 1 .. Len(written) : written[i] < packet'
          BY <1>0, <3>2, <3>3 DEF OrderInv
        <4>5. \A i \in 1 .. Len(written), j \in 1 .. m : written[i] < m_send_q'[j]
          BY <1>0, <3>2, <3>3 DEF OrderInv
        <4>6. \A j \in 1 .. m : packet' < m_send_q'[j]
          BY <1>0, <3>2, <3>3 DEF OrderInv
        <4>7. /\ \A i, j \in 1 .. Len(written) : i < j => written[i] < written[j]
              /\ \A i \in 1 .. Len(written) : written[i] \in 1 .. slice - 1
          BY <1>0 DEF OrderInv
        <4> QED BY <2>0, <3>2, <4>1, <4>2, <4>3, <4>4, <4>5, <4>6, <4>7 DEF OrderInv
      <3>6. \A s : Held(s) => Held(s)'
        <4> SUFFICES ASSUME NEW s, Held(s) PROVE Held(s)'
          OBVIOUS
        <4>1. ~Holding /\ Holding'
          BY <2>0, <3>1 DEF Holding
        <4>2. CASE \E i \in 1 .. Len(written) : written[i] = s
          BY <2>0, <4>2 DEF Held
        <4>3. CASE \E i \in 1 .. n : m_send_q[i] = s
          <5>1. PICK i \in 1 .. n : m_send_q[i] = s
            BY <4>3
          <5>2. CASE i = 1
            BY <3>2, <4>1, <5>1, <5>2 DEF Held
          <5>3. CASE i # 1
            <6>1. i - 1 \in 1 .. m /\ (i - 1) + 1 = i
              BY <3>2, <5>3
            <6>2. m_send_q'[i - 1] = s
              BY <3>2, <5>1, <6>1
            <6> QED BY <3>2, <6>1, <6>2 DEF Held
          <5> QED BY <5>2, <5>3
        <4> QED BY <3>2, <4>1, <4>2, <4>3 DEF Held
      <3>7. KeptInv'
        BY <1>0, <2>0, <3>1, <3>6 DEF KeptInv, life
      <3> QED BY <2>1, <3>4, <3>5, <3>7 DEF Inv
    <2> QED BY <2>2, <2>3
  <1>2. CASE SenderLock \/ TestSocket
    <2>0. /\ spc \in {"lock", "test"} /\ spc' \in {"test", "write", "unlock"}
          /\ spc' = "unlock" => serror' = TRUE
          /\ spc' # "unlock" => serror' = FALSE \/ serror' = serror
          /\ UNCHANGED <<m_send_q, packet, written, overflows, slice, m_stop_flag, bpc>>
      <3>1. CASE SenderLock
        BY <3>1 DEF SenderLock, sending
      <3>2. CASE TestSocket
        <4>1. CASE m_socket = "null"
          BY <3>2, <4>1 DEF TestSocket, sending, life
        <4>2. CASE m_socket # "null"
          BY <3>2, <4>2 DEF TestSocket, sending, life
        <4> QED BY <4>1, <4>2
      <3> QED BY <1>2, <3>1, <3>2
    <2>1. SocketInv'
      <3>1. CASE SenderLock
        <4>1. /\ m_socket_lock = "free" /\ m_socket_lock' = "sender" /\ spc' = "test"
              /\ UNCHANGED <<m_socket, rpc>>
          BY <3>1 DEF SenderLock
        <4> QED BY <1>0, <4>1 DEF SocketInv
      <3>2. CASE TestSocket
        <4>1. spc = "test" /\ UNCHANGED <<m_socket, m_socket_lock, rpc>>
          BY <3>2 DEF TestSocket, life
        <4>2. CASE m_socket = "null"
          <5>1. spc' = "unlock"
            BY <3>2, <4>2 DEF TestSocket
          <5> QED BY <1>0, <4>1, <5>1 DEF SocketInv
        <4>3. CASE m_socket = "open"
          <5>1. spc' = "write"
            BY <3>2, <4>3 DEF TestSocket
          <5> QED BY <1>0, <4>1, <4>3, <5>1 DEF SocketInv
        <4> QED BY <1>0, <4>2, <4>3 DEF SocketInv
      <3> QED BY <1>2, <3>1, <3>2
    <2>2. serror = FALSE
      BY <1>0, <2>0 DEF KeptInv, Types
    <2>3. Types'
      BY <1>0, <2>0 DEF Types
    <2>4. OrderInv'
      BY <1>0, <2>0 DEF OrderInv, Holding
    <2>5. KeptInv'
      BY <1>0, <2>0, <2>2 DEF KeptInv, Held, Holding
    <2> QED BY <2>1, <2>3, <2>4, <2>5 DEF Inv
  <1>3. CASE Write
    <2>0. /\ spc = "write" /\ spc' = "unlock" /\ written' = Append(written, packet)
          /\ UNCHANGED <<life, m_send_q, packet, overflows, slice, serror, rpc, bpc>>
      BY <1>3 DEF Write
    <2>1. PICK n \in Nat, m \in Nat :
            /\ n = Len(written) /\ m = Len(written') /\ m = n + 1
            /\ written' \in Seq(Nat) /\ written'[m] = packet
            /\ \A i \in 1 .. n : written'[i] = written[i]
      <3>1. written \in Seq(Nat) /\ packet \in Nat
        BY <1>0 DEF Types
      <3>2. /\ written' \in Seq(Nat) /\ Len(written') = Len(written) + 1
            /\ written'[Len(written) + 1] = packet
            /\ \A i \in 1 .. Len(written) : written'[i] = written[i]
        BY <2>0, <3>1, AppendProperties
      <3> QED BY <3>1, <3>2
    <2>2. \A i \in 1 .. m : i \in 1 .. n \/ i = m
      BY <2>1
    <2>3. Types'
      BY <1>0, <2>0, <2>1 DEF Types, life
    <2>4. SocketInv'
      BY <1>0, <2>0 DEF SocketInv, life
    <2>5. OrderInv'
      <3>1. /\ packet \in 1 .. slice - 1 /\ ~Holding'
            /\ \A i \in 1 .. n : written[i] < packet /\ written[i] \in 1 .. slice - 1
            /\ \A j \in 1 .. Len(m_send_q) : packet < m_send_q[j]
        BY <1>0, <2>0, <2>1 DEF OrderInv, Holding
      <3>2. \A i, j \in 1 .. m : i < j => written'[i] < written'[j]
        <4> SUFFICES ASSUME NEW i \in 1 .. m, NEW j \in 1 .. m, i < j
                     PROVE  written'[i] < written'[j]
          OBVIOUS
        <4>1. i \in 1 .. n
          BY <2>1, <2>2
        <4>2. CASE j = m
          BY <2>1, <3>1, <4>1, <4>2
        <4>3. CASE j \in 1 .. n
          BY <1>0, <2>1, <4>1, <4>3 DEF OrderInv
        <4> QED BY <2>2, <4>2, <4>3
      <3>3. \A i \in 1 .. m : written'[i] \in 1 .. slice - 1
        BY <2>1, <2>2, <3>1
      <3>4. \A i \in 1 .. m, j \in 1 .. Len(m_send_q) : written'[i] < m_send_q[j]
        BY <1>0, <2>1, <2>2, <3>1 DEF OrderInv
      <3>5. /\ \A i, j \in 1 .. Len(m_send_q) : i < j => m_send_q[i] < m_send_q[j]
            /\ \A i \in 1 .. Len(m_send_q) :
                 m_send_q[i] \in 1 .. slice - 1 - (Len(m_send_q) - i)
        BY <1>0 DEF OrderInv
      <3> QED BY <2>0, <2>1, <3>1, <3>2, <3>3, <3>4, <3>5 DEF OrderInv
    <2>6. \A s : Held(s) => Held(s)'
      <3>1. m \in 1 .. m /\ \A i \in 1 .. n : i \in 1 .. m
        BY <2>1
      <3> QED BY <2>0, <2>1, <3>1 DEF Held, Holding
    <2>7. KeptInv'
      BY <1>0, <2>0, <2>6 DEF KeptInv, life
    <2> QED BY <2>3, <2>4, <2>5, <2>7 DEF Inv
  <1>4. CASE WriteFails
    <2>0. /\ spc = "write" /\ spc' = "unlock" /\ serror' = TRUE
          /\ UNCHANGED <<life, m_send_q, packet, written, overflows, slice, rpc, bpc>>
      BY <1>4 DEF WriteFails, sending
    <2>1. Types'
      BY <1>0, <2>0 DEF Types, life
    <2>2. SocketInv'
      BY <1>0, <2>0 DEF SocketInv, life
    <2>3. OrderInv'
      BY <1>0, <2>0 DEF OrderInv, Holding
    <2>4. KeptInv'
      BY <1>0, <2>0 DEF KeptInv, life
    <2> QED BY <2>1, <2>2, <2>3, <2>4 DEF Inv
  <1>5. CASE SenderUnlock
    <2>0. /\ spc = "unlock" /\ spc' = IF serror THEN "over" ELSE "pop"
          /\ m_socket_lock' = "free"
          /\ UNCHANGED <<m_send_q, packet, written, overflows, slice, serror, m_stop_flag, m_socket, rpc, bpc>>
      BY <1>5 DEF SenderUnlock, sending
    <2>1. Types'
      BY <1>0, <2>0 DEF Types
    <2>2. SocketInv'
      BY <1>0, <2>0 DEF SocketInv
    <2>3. OrderInv'
      BY <1>0, <2>0 DEF OrderInv, Holding
    <2>4. KeptInv'
      BY <1>0, <2>0 DEF KeptInv, Held, Holding
    <2> QED BY <2>1, <2>2, <2>3, <2>4 DEF Inv
  <1> QED BY <1>1, <1>2, <1>3, <1>4, <1>5 DEF SendProc

LEMMA Inductive == Inv /\ [Next]_vars => Inv'
  <1> SUFFICES ASSUME Inv, [Next]_vars PROVE Inv'
    OBVIOUS
  <1>1. CASE UNCHANGED vars
    <2>1. UNCHANGED streamVars /\ UNCHANGED <<m_socket, m_socket_lock, spc, rpc>>
      BY <1>1 DEF vars, life, receiving, sending, pcs, streamVars
    <2>2. SocketInv'
      BY <2>1 DEF Inv, SocketInv
    <2> QED BY <2>1, <2>2, StreamFrameKeeps DEF Inv
  <1> QED BY <1>1, PushPreserves, OthersPreserve, SkipPreserves, SendPreserves
       DEF Next, Teardown, Stream

\* What holds of a session in every state.
THEOREM Invariance == Spec => []Inv
  BY InvInit, Inductive, PTL DEF Spec

\* While SendProc writes, the socket is there: Proc deletes it under the lock
\* that the sender holds.
THEOREM WriterHasSocketTheorem == Spec => []WriterHasSocket
  <1>1. Inv => WriterHasSocket
    BY DEF Inv, SocketInv, WriterHasSocket
  <1> QED BY <1>1, Invariance, PTL

\* The peer gets the slices in order and each once, and all of them until the
\* queue has overflown or the connection has failed.
THEOREM StreamInOrderTheorem == Spec => []StreamInOrder
  <1>1. ASSUME Inv PROVE StreamInOrder
    <2>0. Types /\ OrderInv /\ KeptInv
      BY <1>1 DEF Inv
    <2>1. Increasing(written)
      BY <2>0 DEF OrderInv, Increasing
    <2>2. ASSUME overflows = 0, ~serror, ~m_stop_flag
          PROVE  Members(written) \cup InHand \cup Members(m_send_q) = 1 .. slice - 1
      <3>1. \A s \in 1 .. slice - 1 : s \in Members(written) \cup InHand \cup Members(m_send_q)
        BY <2>0, <2>2 DEF KeptInv, Held, Holding, Members, InHand
      <3>2. Members(written) \subseteq 1 .. slice - 1
        BY <2>0 DEF OrderInv, Members
      <3>3. InHand \subseteq 1 .. slice - 1
        BY <2>0 DEF OrderInv, Holding, InHand
      <3>4. Members(m_send_q) \subseteq 1 .. slice - 1
        <4>1. PICK n \in Nat : n = Len(m_send_q)
          BY <2>0 DEF Types
        <4>2. \A i \in 1 .. n : m_send_q[i] \in 1 .. slice - 1 - (n - i)
          BY <2>0, <4>1 DEF OrderInv
        <4>3. \A i \in 1 .. n : m_send_q[i] \in 1 .. slice - 1
          BY <2>0, <4>2 DEF Types
        <4> QED BY <4>1, <4>3 DEF Members
      <3> QED BY <3>1, <3>2, <3>3, <3>4
    <2> QED BY <2>1, <2>2 DEF StreamInOrder
  <1> QED BY <1>1, Invariance, PTL

LEMMA WholeFramesFit ==
  ASSUME NEW n \in Nat, NEW m \in Nat \ {0}
  PROVE  n \div m \in Nat /\ (n \div m) * m <= n
  OBVIOUS

\* However slow the peer, the slices of the last frames that the queue has
\* room for are all still there, or with the peer.
THEOREM OnlyOldFramesTornTheorem == Spec => []OnlyOldFramesTorn
  <1>1. ASSUME Inv PROVE OnlyOldFramesTorn
    <2>0. Types /\ KeptInv
      BY <1>1 DEF Inv
    <2>1. FittingFrames * Slices \in Nat /\ FittingFrames * Slices <= MAX_SENDQ_SIZE + 1
      BY ClientSessionAssumption, WholeFramesFit DEF FittingFrames
    <2>2. ASSUME ~serror, ~m_stop_flag, NEW s \in 1 .. slice - 1,
                 s > slice - 1 - FittingFrames * Slices
          PROVE  s \in Members(written) \cup Members(m_send_q) \cup InHand
      <3>1. s > slice - 1 - (MAX_SENDQ_SIZE + 1)
        BY <2>0, <2>1, <2>2, ClientSessionAssumption DEF Types
      <3>2. Held(s)
        BY <2>0, <2>2, <3>1 DEF KeptInv
      <3> QED BY <3>2 DEF Held, Holding, Members, InHand
    <2> QED BY <2>2 DEF OnlyOldFramesTorn
  <1> QED BY <1>1, Invariance, PTL

-----------------------------------------------------------------------------
(* The packets of the peer.  What PacketReader finds in the bytes of the   *)
(* connection is what the peer sent, for any noise, packets and buffer.    *)

\* What the peer sends: bytes, and the sizes that stand for headers.
Element == Byte \cup Nat \cup {"R", "X", "M", "G"}

\* A packet or a header without one: where it starts, its elements, and the
\* number of good packets up to it.
Item == [kind : {"packet", "misfit"}, at : Nat, els : Seq(Element),
         body : Seq(Byte), tail : Seq(Byte), count : Nat]

End(q, p) == IF p = 0 THEN 0 ELSE q[p].at + Len(q[p].els)
Count(q, p) == IF p = 0 THEN 0 ELSE q[p].count

\* The elements of a packet.
Elements(body, tail) == PREFIX \o <<PacketSize(body)>> \o body \o tail

Filled(item) ==
  \/ /\ item.kind = "packet" /\ item.body \in Bodies /\ item.tail \in Tails
     /\ item.els = Elements(item.body, item.tail)
  \/ /\ item.kind = "misfit"
     /\ \E size \in Misfits : item.els = PREFIX \o <<size>>

\* Four elements after the first x that the reader would take for a prefix.
PrefixAt(s, x) == s[x + 1] = "R" /\ s[x + 2] = "X" /\ s[x + 3] = "M" /\ s[x + 4] = "G"
Clean(s, a, b) == \A x \in Nat : a <= x /\ x + 4 <= b => ~PrefixAt(s, x)

\* w holds the newest elements of s between a and b.
IsNewest(w, s, a, b) ==
  /\ w \in Seq(Element)
  /\ Len(w) = IF b - a <= 4 THEN b - a ELSE 4
  /\ \A n \in 1 .. Len(w) : w[n] = s[b - Len(w) + n]

Written(s, item) == \A n \in 1 .. Len(item.els) : s[item.at + n] = item.els[n]

\* The items q are where they say in the stream s of all that was sent, and
\* nothing between them looks like a prefix.
Layout(s, q) ==
  \A p \in 1 .. Len(q) :
    /\ End(q, p - 1) <= q[p].at /\ End(q, p) <= Len(s)
    /\ Written(s, q[p])
    /\ Clean(s, End(q, p - 1), q[p].at)

\* What the peer remembers of them.  After a header that announces a misfit
\* come none that matter.
Sent(q) ==
  /\ good \in Seq(Seq(Byte)) /\ Len(good) = Count(q, Len(q))
  /\ misfit => q # << >>
  /\ \A p \in 1 .. Len(q) :
       /\ Filled(q[p])
       /\ q[p].kind = "misfit" <=> misfit /\ p = Len(q)
       /\ q[p].count <= Len(good)
       /\ IF q[p].kind = "packet" /\ q[p].tail = TAIL
          THEN q[p].count = Count(q, p - 1) + 1 /\ good[q[p].count] = q[p].body
          ELSE q[p].count = Count(q, p - 1)

\* The noise after the last of them.
LastNoise(s, q) ==
  /\ misfit \in BOOLEAN
  /\ ~misfit =>
       /\ Clean(s, End(q, Len(q)), Len(s))
       /\ IsNewest(gap, s, End(q, Len(q)), Len(s))

\* The reader has read c elements of s.
Unread(s, c) ==
  /\ c <= Len(s) /\ wire \in Seq(Element) /\ Len(wire) = Len(s) - c
  /\ \A n \in 1 .. Len(wire) : wire[n] = s[c + n]

\* It is done with k items, and somewhere in front of the next one or in it.
Place(s, q, c, k) ==
  /\ k <= Len(q) /\ received = SubSeq(good, 1, Count(q, k))
  /\ k # 0 => q[k].kind = "packet"
  /\ m_recv_step \in {0, 1, 2}
  /\ m_recv_step = 0 =>
       /\ End(q, k) <= c /\ (k < Len(q) => c < q[k + 1].at + 4)
       /\ IsNewest(m_prefix_buf, s, End(q, k), c)
  /\ m_recv_step # 0 => k < Len(q) /\ m_prefix_buf = << >>
  /\ m_recv_step = 1 => c = q[k + 1].at + 4 /\ m_msg_buf = PREFIX
  /\ m_recv_step = 2 =>
       c = q[k + 1].at + 5 /\ m_msg_buf = PREFIX \o <<q[k + 1].els[5]>>

Story(s, q, c, k) == Layout(s, q) /\ Sent(q) /\ LastNoise(s, q) /\ Unread(s, c) /\ Place(s, q, c, k)

Telling ==
  \E s \in Seq(Element), q \in Seq(Item), c, k \in Nat : Story(s, q, c, k)

\* The invariant: what is told until the reader has copied a misfit.
ReaderInv == undefined \in BOOLEAN /\ (~undefined => Telling)

\* A header: the prefix and the element after it.
LEMMA HeaderElements ==
  ASSUME NEW z \in Nat
  PROVE  LET h == PREFIX \o <<z>> IN
         /\ h \in Seq(Element) /\ Len(h) = 5 /\ h[5] = z
         /\ \A n \in 1 .. 4 : h[n] = PREFIX[n]
  <1>1. /\ "R" \in Element /\ "X" \in Element /\ "M" \in Element /\ "G" \in Element
        /\ z \in Element
    BY DEF Element
  <1>2. PICK a \in Seq(Element), b \in Seq(Element) :
          /\ a = PREFIX /\ b = <<z>> /\ Len(a) = 4 /\ Len(b) = 1 /\ b[1] = z
    <2>1. PREFIX \in Seq(Element) /\ Len(PREFIX) = 4
      BY <1>1 DEF PREFIX
    <2>2. <<z>> \in Seq(Element) /\ Len(<<z>>) = 1 /\ <<z>>[1] = z
      BY <1>1
    <2> QED BY <2>1, <2>2
  <1>3. /\ a \o b \in Seq(Element) /\ Len(a \o b) = Len(a) + Len(b)
        /\ \A n \in 1 .. Len(a) + Len(b) :
             (a \o b)[n] = IF n <= Len(a) THEN a[n] ELSE b[n - Len(a)]
    BY ConcatProperties
  <1>4. Len(a \o b) = 5
    BY <1>2, <1>3
  <1>5. \A n \in 1 .. 5 : (a \o b)[n] = IF n <= 4 THEN a[n] ELSE b[n - 4]
    BY <1>2, <1>3
  <1> QED BY <1>2, <1>3, <1>4, <1>5

\* The elements of a packet: four of the prefix, its size, the body, the tail.
LEMMA PacketElements ==
  ASSUME PacketReaderAssumption, NEW body \in Bodies, NEW tail \in Tails
  PROVE  LET e == Elements(body, tail) IN
         /\ body \in Seq(Byte) /\ tail \in Seq(Byte) /\ Len(tail) = 2
         /\ e \in Seq(Element) /\ Len(e) = Len(body) + 7
         /\ PacketSize(body) = Len(body) + 7 /\ e[5] = Len(body) + 7
         /\ Len(body) + 7 <= RECV_BUF_LEN
         /\ \A n \in 1 .. 4 : e[n] = PREFIX[n]
         /\ \A n \in 1 .. Len(body) : e[n + 5] = body[n]
         /\ \A n \in 1 .. 2 : e[Len(body) + 5 + n] = tail[n]
  <1>1. body \in Seq(Byte) /\ tail \in Seq(Byte) /\ Len(tail) = 2
    BY DEF PacketReaderAssumption, XPACKET_TAIL_SIZE, TAIL
  <1>2. PICK l \in Nat : l = Len(body)
    BY <1>1
  <1>3. PacketSize(body) = l + 7 /\ l + 7 <= RECV_BUF_LEN
    <2>1. PacketSize(body) = l + 7
      BY <1>2 DEF PacketSize, XPACKET_HEADER_SIZE, PREFIX_SIZE,
                  PREFIX, XPACKET_TAIL_SIZE, TAIL
    <2> QED BY <2>1 DEF PacketReaderAssumption
  <1>4. PICK z \in Nat : z = l + 7
    OBVIOUS
  <1> DEFINE h == PREFIX \o <<z>>
  <1>6. /\ h \in Seq(Element) /\ Len(h) = 5 /\ h[5] = z
        /\ \A n \in 1 .. 4 : h[n] = PREFIX[n]
    BY HeaderElements
  <1>7. body \in Seq(Element) /\ tail \in Seq(Element)
    BY <1>1, SeqMonotonic DEF Element
  <1>8. Elements(body, tail) = (h \o body) \o tail
    BY <1>3, <1>4 DEF Elements
  <1> DEFINE u == h \o body
  <1> HIDE DEF h
  <1>9. /\ u \in Seq(Element) /\ Len(u) = Len(h) + Len(body)
        /\ \A n \in 1 .. Len(h) + Len(body) :
             u[n] = IF n <= Len(h) THEN h[n] ELSE body[n - Len(h)]
    <2>1. h \in Seq(Element) /\ body \in Seq(Element)
      BY <1>6, <1>7
    <2> QED BY <2>1, ConcatProperties
  <1> HIDE DEF u
  <1>11. /\ u \in Seq(Element) /\ Len(u) = l + 5 /\ u[5] = z
         /\ \A n \in 1 .. 4 : u[n] = PREFIX[n]
         /\ \A n \in 1 .. l : u[n + 5] = body[n]
    <2>1. \A n \in 1 .. 5 + l : u[n] = IF n <= 5 THEN h[n] ELSE body[n - 5]
      BY <1>2, <1>6, <1>9
    <2>2. Len(u) = l + 5
      BY <1>2, <1>6, <1>9
    <2>3. ASSUME NEW n \in 1 .. l PROVE u[n + 5] = body[n]
      <3>1. PICK m \in 1 .. 5 + l : m = n + 5 /\ ~(m <= 5) /\ m - 5 = n
        OBVIOUS
      <3>2. u[m] = body[m - 5]
        BY <2>1, <3>1
      <3> QED BY <3>1, <3>2
    <2>4. u[5] = h[5]
      <3>1. 5 \in 1 .. 5 + l
        OBVIOUS
      <3> QED BY <2>1, <3>1
    <2>5. ASSUME NEW n \in 1 .. 4 PROVE u[n] = h[n]
      <3>1. n \in 1 .. 5 + l /\ n <= 5
        OBVIOUS
      <3> QED BY <2>1, <3>1
    <2>6. u \in Seq(Element) /\ h[5] = z /\ \A n \in 1 .. 4 : h[n] = PREFIX[n]
      BY <1>6, <1>9
    <2> QED BY <2>2, <2>3, <2>4, <2>5, <2>6
  <1> DEFINE e == u \o tail
  <1>12. /\ e \in Seq(Element) /\ Len(e) = Len(u) + Len(tail)
         /\ \A n \in 1 .. Len(u) + Len(tail) :
              e[n] = IF n <= Len(u) THEN u[n] ELSE tail[n - Len(u)]
    <2>1. u \in Seq(Element) /\ tail \in Seq(Element)
      BY <1>7, <1>11
    <2> QED BY <2>1, ConcatProperties
  <1>13. \A n \in 1 .. l + 7 : e[n] = IF n <= l + 5 THEN u[n] ELSE tail[n - (l + 5)]
    <2>1. Len(u) + Len(tail) = l + 7
      BY <1>1, <1>11
    <2> QED BY <1>11, <1>12, <2>1
  <1>14. Len(e) = l + 7
    BY <1>1, <1>11, <1>12
  <1> HIDE DEF e
  <1>15. e[5] = z /\ \A n \in 1 .. 4 : e[n] = PREFIX[n]
    BY <1>11, <1>13
  <1>16. ASSUME NEW n \in 1 .. l PROVE e[n + 5] = body[n]
    BY <1>11, <1>13
  <1>17. ASSUME NEW n \in 1 .. 2 PROVE e[l + 5 + n] = tail[n]
    <2>1. l + 5 + n \in 1 .. l + 7 /\ ~(l + 5 + n <= l + 5) /\ l + 5 + n - (l + 5) = n
      OBVIOUS
    <2> QED BY <1>13, <2>1
  <1>18. Elements(body, tail) = e
    BY <1>8 DEF e, u
  <1> QED BY <1>1, <1>2, <1>3, <1>4, <1>12, <1>14, <1>15, <1>16, <1>17, <1>18

LEMMA MisfitElements ==
  ASSUME PacketReaderAssumption, NEW size \in Misfits
  PROVE  LET e == PREFIX \o <<size>> IN
         /\ e \in Seq(Element) /\ Len(e) = 5 /\ e[5] = size
         /\ \A n \in 1 .. 4 : e[n] = PREFIX[n]
  <1>1. PICK z \in Nat : z = size
    BY DEF PacketReaderAssumption
  <1> QED BY <1>1, HeaderElements

\* A packet's tail and body, as the reader takes them out of it.
LEMMA TailFound ==
  ASSUME NEW e \in Seq(Element), NEW n \in Nat, Len(e) = n + 2
  PROVE  GoodTail(e) <=> e[n + 1] = "FE" /\ e[n + 2] = "FF"
  <1> DEFINE r == [m \in 1 .. n + 2 |-> e[n + 2 - m + 1]]
  <1>1. Reverse(e) = r
    BY DEF Reverse
  <1>2. /\ \A m \in 1 .. n + 2 : n + 2 - m + 1 \in 1 .. n + 2
        /\ \A m \in 1 .. n + 2 : r[m] \in Element
    OBVIOUS
  <1>3. r \in Seq(Element) /\ Len(r) = n + 2
    BY <1>2, IsASeq
  <1>4. r[1] = e[n + 2] /\ r[2] = e[n + 1]
    OBVIOUS
  <1> HIDE DEF r
  <1> DEFINE v == [m \in 1 .. 2 |-> TAIL[2 - m + 1]]
  <1>5. Reverse(TAIL) = v
    BY DEF Reverse, TAIL
  <1>6. v[1] = "FF" /\ v[2] = "FE" /\ v \in Seq({"FE", "FF"}) /\ Len(v) = 2
    <2>1. TAIL[1] = "FE" /\ TAIL[2] = "FF"
      BY DEF TAIL
    <2>4. ASSUME NEW m \in 1 .. 2 PROVE TAIL[2 - m + 1] \in {"FE", "FF"}
      <3>1. PICK j \in {1, 2} : j = 2 - m + 1
        OBVIOUS
      <3>2. TAIL[j] \in {"FE", "FF"}
        BY <2>1
      <3> QED BY <3>1, <3>2
    <2>2. v \in Seq({"FE", "FF"}) /\ Len(v) = 2
      BY <2>4, IsASeq
    <2> QED BY <2>1, <2>2
  <1> HIDE DEF v
  <1>7. SubSeq(v, 1, 2) = v
    BY <1>6, SubSeqFull
  <1>8. /\ SubSeq(r, 1, 2) \in Seq(Element) /\ Len(SubSeq(r, 1, 2)) = 2
        /\ SubSeq(r, 1, 2)[1] = r[1] /\ SubSeq(r, 1, 2)[2] = r[2]
    <2>1. \A m \in 1 .. 2 : r[m] \in Element
      BY <1>3
    <2> QED BY <2>1, SubSeqProperties
  <1>9. GoodTail(e) <=> SubSeq(v, 1, 2) = SubSeq(r, 1, 2)
    BY <1>1, <1>3, <1>5, <1>6 DEF GoodTail, IsSuffix, IsPrefix
  <1>10. v = SubSeq(r, 1, 2) <=> r[1] = "FF" /\ r[2] = "FE"
    <2>1. ASSUME r[1] = "FF", r[2] = "FE" PROVE v = SubSeq(r, 1, 2)
      <3>1. \A m \in 1 .. 2 : v[m] = SubSeq(r, 1, 2)[m]
        BY <1>6, <1>8, <2>1
      <3> QED BY <1>6, <1>8, <3>1, SeqEqual
    <2> QED BY <1>6, <1>8, <2>1
  <1> QED BY <1>4, <1>7, <1>9, <1>10

\* What stays true of what was sent when more is sent.
Extends(t, s) == Len(s) <= Len(t) /\ \A n \in 1 .. Len(s) : t[n] = s[n]

LEMMA ConcatExtends ==
  ASSUME NEW s \in Seq(Element), NEW e \in Seq(Element)
  PROVE  /\ s \o e \in Seq(Element) /\ Len(s \o e) = Len(s) + Len(e)
         /\ Extends(s \o e, s)
         /\ \A n \in 1 .. Len(e) : (s \o e)[Len(s) + n] = e[n]
  <1>1. PICK a \in Nat, b \in Nat : a = Len(s) /\ b = Len(e)
    OBVIOUS
  <1> DEFINE t == s \o e
  <1>2. /\ t \in Seq(Element) /\ Len(t) = Len(s) + Len(e)
        /\ \A n \in 1 .. Len(s) + Len(e) : t[n] = IF n <= Len(s) THEN s[n] ELSE e[n - Len(s)]
    BY ConcatProperties
  <1>3. Len(t) = a + b /\ \A n \in 1 .. a + b : t[n] = IF n <= a THEN s[n] ELSE e[n - a]
    BY <1>1, <1>2
  <1> HIDE DEF t
  <1>4. Extends(t, s)
    BY <1>1, <1>3 DEF Extends
  <1>5. ASSUME NEW n \in 1 .. b PROVE t[a + n] = e[n]
    <2>1. PICK m \in 1 .. a + b : m = a + n /\ ~(m <= a) /\ m - a = n
      OBVIOUS
    <2>2. t[m] = e[m - a]
      BY <1>3, <2>1
    <2> QED BY <2>1, <2>2
  <1> QED BY <1>1, <1>2, <1>4, <1>5 DEF t

LEMMA CleanKept ==
  ASSUME NEW s \in Seq(Element), NEW t \in Seq(Element), Extends(t, s),
         NEW a \in Nat, NEW b \in Nat, b <= Len(s), Clean(s, a, b)
  PROVE  Clean(t, a, b)
  <1> SUFFICES ASSUME NEW x \in Nat, a <= x, x + 4 <= b PROVE ~PrefixAt(t, x)
    BY DEF Clean
  <1>1. ~PrefixAt(s, x)
    BY DEF Clean
  <1>2. x + 1 \in 1 .. Len(s) /\ x + 2 \in 1 .. Len(s) /\ x + 3 \in 1 .. Len(s) /\ x + 4 \in 1 .. Len(s)
    <2>1. PICK l \in Nat : l = Len(s)
      OBVIOUS
    <2> QED BY <2>1
  <1>3. t[x + 1] = s[x + 1] /\ t[x + 2] = s[x + 2] /\ t[x + 3] = s[x + 3] /\ t[x + 4] = s[x + 4]
    BY <1>2 DEF Extends
  <1> QED BY <1>1, <1>3 DEF PrefixAt

LEMMA NewestKept ==
  ASSUME NEW s \in Seq(Element), NEW t \in Seq(Element), Extends(t, s), NEW w,
         NEW a \in Nat, NEW b \in Nat, a <= b, b <= Len(s), IsNewest(w, s, a, b)
  PROVE  IsNewest(w, t, a, b)
  <1>1. PICK l \in Nat : l = Len(w) /\ l <= b
    <2>1. PICK l \in Nat : l = Len(w)
      <3>1. w \in Seq(Element)
        BY DEF IsNewest
      <3> QED BY <3>1
    <2>2. l = IF b - a <= 4 THEN b - a ELSE 4
      BY <2>1 DEF IsNewest
    <2>3. l <= b
      BY <2>2
    <2> QED BY <2>1, <2>3
  <1>2. ASSUME NEW n \in 1 .. l PROVE w[n] = t[b - l + n]
    <2>1. PICK m \in 1 .. Len(s) : m = b - l + n
      <3>1. PICK z \in Nat : z = Len(s)
        OBVIOUS
      <3>2. b - l + n \in 1 .. z
        BY <1>1, <3>1
      <3> QED BY <3>1, <3>2
    <2>2. w[n] = s[m] /\ t[m] = s[m]
      BY <1>1, <2>1 DEF IsNewest, Extends
    <2> QED BY <2>1, <2>2
  <1> QED BY <1>1, <1>2 DEF IsNewest

LEMMA WrittenKept ==
  ASSUME NEW s \in Seq(Element), NEW t \in Seq(Element), Extends(t, s), NEW item \in Item,
         item.at + Len(item.els) <= Len(s), Written(s, item)
  PROVE  Written(t, item)
  <1>1. PICK a \in Nat, l \in Nat : a = item.at /\ l = Len(item.els)
    BY DEF Item
  <1> SUFFICES ASSUME NEW n \in 1 .. l PROVE t[a + n] = item.els[n]
    BY <1>1 DEF Written
  <1>2. PICK m \in 1 .. Len(s) : m = a + n
    <2>1. PICK z \in Nat : z = Len(s) /\ a + l <= z
      BY <1>1
    <2> QED BY <2>1
  <1>3. s[m] = item.els[n] /\ t[m] = s[m]
    BY <1>1, <1>2 DEF Written, Extends
  <1> QED BY <1>2, <1>3

\* Where items end.
LEMMA Ends ==
  ASSUME NEW q \in Seq(Item), NEW p \in 0 .. Len(q)
  PROVE  /\ End(q, p) \in Nat /\ Count(q, p) \in Nat
         /\ p # 0 => q[p] \in Item /\ p \in 1 .. Len(q) /\ p - 1 \in 0 .. Len(q)
  <1>1. p # 0 => q[p] \in Item /\ p \in 1 .. Len(q) /\ p - 1 \in 0 .. Len(q)
    OBVIOUS
  <1>2. p # 0 => q[p].at \in Nat /\ Len(q[p].els) \in Nat /\ q[p].count \in Nat
    <2> SUFFICES ASSUME p # 0
                 PROVE  q[p].at \in Nat /\ Len(q[p].els) \in Nat /\ q[p].count \in Nat
      OBVIOUS
    <2>1. q[p].at \in Nat /\ q[p].els \in Seq(Element) /\ q[p].count \in Nat
      BY <1>1 DEF Item
    <2> QED BY <2>1
  <1> QED BY <1>1, <1>2 DEF End, Count

LEMMA LenNat ==
  ASSUME NEW S, NEW w \in Seq(S)
  PROVE  Len(w) \in Nat
  OBVIOUS

LEMMA LayoutKept ==
  ASSUME NEW s \in Seq(Element), NEW t \in Seq(Element), Extends(t, s), NEW q \in Seq(Item),
         Layout(s, q)
  PROVE  Layout(t, q)
  <1> SUFFICES ASSUME NEW p \in 1 .. Len(q)
               PROVE  /\ End(q, p - 1) <= q[p].at /\ End(q, p) <= Len(t)
                      /\ Written(t, q[p])
                      /\ Clean(t, End(q, p - 1), q[p].at)
    BY DEF Layout
  <1>1. /\ End(q, p - 1) <= q[p].at /\ End(q, p) <= Len(s)
        /\ Written(s, q[p])
        /\ Clean(s, End(q, p - 1), q[p].at)
    BY DEF Layout
  <1>2. p \in 0 .. Len(q) /\ p # 0 /\ p - 1 \in 0 .. Len(q)
    OBVIOUS
  <1>3. /\ q[p] \in Item /\ End(q, p) \in Nat /\ End(q, p - 1) \in Nat
        /\ End(q, p) = q[p].at + Len(q[p].els)
    BY <1>2, Ends DEF End
  <1>4. q[p].at \in Nat /\ Len(q[p].els) \in Nat
    <2>1. q[p].at \in Nat /\ q[p].els \in Seq(Element)
      BY <1>3 DEF Item
    <2> QED BY <2>1
  <1>5. q[p].at <= Len(s) /\ Len(s) \in Nat /\ Len(t) \in Nat
    <2>1. Len(s) \in Nat /\ Len(t) \in Nat
      OBVIOUS
    <2>2. q[p].at <= End(q, p)
      BY <1>3, <1>4
    <2>3. End(q, p) <= Len(s)
      BY <1>1
    <2> QED BY <1>3, <1>4, <2>1, <2>2, <2>3
  <1>6. Clean(t, End(q, p - 1), q[p].at)
    BY <1>1, <1>3, <1>4, <1>5, CleanKept
  <1>7. Written(t, q[p])
    BY <1>1, <1>3, WrittenKept
  <1>8. End(q, p) <= Len(t)
    BY <1>1, <1>3, <1>5 DEF Extends
  <1> QED BY <1>1, <1>6, <1>7, <1>8

-----------------------------------------------------------------------------

\* How the window moves on.
LEMMA NewestNext ==
  ASSUME NEW s \in Seq(Element), NEW w, NEW a \in Nat, NEW b \in Nat, a <= b, b + 1 <= Len(s),
         IsNewest(w, s, a, b)
  PROVE  IsNewest(Newest(Append(w, s[b + 1]), PREFIX_SIZE), s, a, b + 1)
  <1>1. PICK l \in Nat : l = Len(w)
    <2>1. w \in Seq(Element)
      BY DEF IsNewest
    <2> QED BY <2>1
  <1>2. l = IF b - a <= 4 THEN b - a ELSE 4
    BY <1>1 DEF IsNewest
  <1>3. \A n \in 1 .. l : w[n] = s[b - l + n]
    BY <1>1 DEF IsNewest
  <1>4. PICK x \in Element : x = s[b + 1]
    <2>1. b + 1 \in 1 .. Len(s)
      OBVIOUS
    <2> QED BY <2>1
  <1>5. w \in Seq(Element)
    BY DEF IsNewest
  <1> DEFINE u == Append(w, x)
  <1>6. /\ u \in Seq(Element) /\ Len(u) = l + 1 /\ u[l + 1] = x
        /\ \A n \in 1 .. l : u[n] = w[n]
    BY <1>1, <1>5, AppendProperties
  <1> HIDE DEF u
  <1>7. \A n \in 1 .. l + 1 : u[n] = s[b - l + n]
    <2> SUFFICES ASSUME NEW n \in 1 .. l + 1 PROVE u[n] = s[b - l + n]
      OBVIOUS
    <2>1. CASE n \in 1 .. l
      BY <1>3, <1>6, <2>1
    <2>2. CASE n = l + 1
      <3>1. b - l + n = b + 1
        BY <1>2, <2>2
      <3> QED BY <1>4, <1>6, <2>2, <3>1
    <2> QED BY <2>1, <2>2
  <1>8. PREFIX_SIZE = 4
    BY DEF PREFIX_SIZE, PREFIX
  <1> DEFINE v == Newest(u, PREFIX_SIZE)
  <1>9. CASE l <= 3
    <2>1. v = u /\ l = b - a
      BY <1>2, <1>6, <1>8, <1>9 DEF Newest
    <2>2. \A n \in 1 .. l + 1 : b + 1 - (l + 1) + n = b - l + n
      OBVIOUS
    <2>3. \A n \in 1 .. l + 1 : v[n] = s[b + 1 - (l + 1) + n]
      BY <1>7, <2>1, <2>2
    <2>4. l + 1 = IF b + 1 - a <= 4 THEN b + 1 - a ELSE 4
      BY <1>9, <2>1
    <2>5. IsNewest(u, s, a, b + 1)
      <3>1. \A n \in 1 .. l + 1 : u[n] = s[b + 1 - (l + 1) + n]
        BY <2>1, <2>3
      <3> QED BY <1>6, <2>4, <3>1 DEF IsNewest
    <2> QED BY <1>4, <2>1, <2>5 DEF u
  <1>10. CASE l = 4
    <2>1. v = SubSeq(u, 2, 5) /\ b - a >= 4
      BY <1>2, <1>6, <1>8, <1>10 DEF Newest
    <2>2. \A n \in 2 .. 5 : u[n] \in Element
      <3>1. Len(u) = 5
        BY <1>6, <1>10
      <3>2. ASSUME NEW n \in 2 .. 5 PROVE u[n] \in Element
        <4>1. n \in 1 .. Len(u)
          BY <3>1
        <4> QED BY <1>6, <4>1, ElementOfSeq
      <3> QED BY <3>2
    <2>7. ASSUME NEW n \in 1 .. 5 PROVE u[n] = s[b - 4 + n]
      <3>1. n \in 1 .. l + 1 /\ b - l + n = b - 4 + n
        BY <1>10
      <3> QED BY <1>7, <3>1
    <2>3. /\ v \in Seq(Element) /\ Len(v) = 4
          /\ \A n \in 1 .. 4 : v[n] = u[2 + n - 1]
      BY <2>1, <2>2, SubSeqProperties
    <2> HIDE DEF v
    <2>4. ASSUME NEW n \in 1 .. 4 PROVE v[n] = s[b + 1 - 4 + n]
      <3>1. PICK m \in 1 .. 5 : m = 2 + n - 1 /\ b - 4 + m = b + 1 - 4 + n
        OBVIOUS
      <3>2. v[n] = u[2 + n - 1]
        BY <2>3
      <3>3. u[m] = s[b - 4 + m]
        BY <2>7, <3>1
      <3> QED BY <3>1, <3>2, <3>3
    <2>5. 4 = IF b + 1 - a <= 4 THEN b + 1 - a ELSE 4
      BY <2>1
    <2>6. IsNewest(v, s, a, b + 1)
      BY <2>3, <2>4, <2>5 DEF IsNewest
    <2> QED BY <1>4, <2>6 DEF u, v
  <1> QED BY <1>2, <1>9, <1>10

\* The window is the prefix when the stream has one before b.
LEMMA WindowIsPrefix ==
  ASSUME NEW s \in Seq(Element), NEW w, NEW a \in Nat, NEW b \in Nat, a <= b, b <= Len(s),
         IsNewest(w, s, a, b)
  PROVE  w = PREFIX <=> b - a >= 4 /\ PrefixAt(s, b - 4)
  <1>1. PICK l \in Nat : l = Len(w)
    <2>1. w \in Seq(Element)
      BY DEF IsNewest
    <2> QED BY <2>1
  <1>2. l = IF b - a <= 4 THEN b - a ELSE 4
    BY <1>1 DEF IsNewest
  <1>3. \A n \in 1 .. l : w[n] = s[b - l + n]
    BY <1>1 DEF IsNewest
  <1>4. w \in Seq(Element)
    BY DEF IsNewest
  <1>5. /\ PREFIX[1] = "R" /\ PREFIX[2] = "X" /\ PREFIX[3] = "M"
        /\ PREFIX[4] = "G" /\ Len(PREFIX) = 4
        /\ PREFIX \in Seq({"R", "X", "M", "G"})
    BY DEF PREFIX
  <1>6. ASSUME l = 4
        PROVE  PrefixAt(s, b - 4) <=> w[1] = "R" /\ w[2] = "X" /\ w[3] = "M" /\ w[4] = "G"
    <2>1. w[1] = s[b - 4 + 1] /\ w[2] = s[b - 4 + 2] /\ w[3] = s[b - 4 + 3] /\ w[4] = s[b - 4 + 4]
      BY <1>3, <1>6
    <2> QED BY <2>1 DEF PrefixAt
  <1>7. ASSUME w = PREFIX PROVE b - a >= 4 /\ PrefixAt(s, b - 4)
    <2>1. l = 4
      BY <1>1, <1>5, <1>7
    <2> QED BY <1>2, <1>5, <1>6, <1>7, <2>1
  <1>8. ASSUME b - a >= 4, PrefixAt(s, b - 4) PROVE w = PREFIX
    <2>1. l = 4
      BY <1>2, <1>8
    <2>2. w[1] = "R" /\ w[2] = "X" /\ w[3] = "M" /\ w[4] = "G"
      BY <1>6, <1>8, <2>1
    <2>3. \A n \in 1 .. 4 : n = 1 \/ n = 2 \/ n = 3 \/ n = 4
      OBVIOUS
    <2>4. \A n \in 1 .. Len(w) : w[n] = PREFIX[n]
      BY <1>1, <1>5, <2>1, <2>2, <2>3
    <2>5. PREFIX \in Seq(Element)
      <3>1. "R" \in Element /\ "X" \in Element /\ "M" \in Element /\ "G" \in Element
        BY DEF Element
      <3> QED BY <3>1 DEF PREFIX
    <2>6. Len(w) = Len(PREFIX)
      BY <1>1, <1>5, <2>1
    <2> QED BY <1>4, <2>4, <2>5, <2>6, SeqEqual
  <1> QED BY <1>7, <1>8

\* A read takes the next n elements.
LEMMA TakeFromWire ==
  ASSUME NEW s \in Seq(Element), NEW c \in Nat, NEW n \in Nat, Unread(s, c), Read(n)
  PROVE  /\ c + n \in Nat /\ c + n <= Len(s) /\ Unread(s, c + n)'
         /\ SubSeq(wire, 1, n) \in Seq(Element) /\ Len(SubSeq(wire, 1, n)) = n
         /\ \A m \in 1 .. n : SubSeq(wire, 1, n)[m] = s[c + m]
  <1>1. /\ wire \in Seq(Element) /\ Len(wire) = Len(s) - c /\ c <= Len(s)
        /\ \A m \in 1 .. Len(wire) : wire[m] = s[c + m]
    BY DEF Unread
  <1>2. PICK l \in Nat, z \in Nat : l = Len(s) /\ z = Len(wire) /\ z = l - c
    BY <1>1
  <1>3. n <= z /\ wire' = SubSeq(wire, n + 1, z)
    BY <1>2 DEF Read
  <1>4. \A m \in 1 .. z : wire[m] \in Element
    BY <1>1, <1>2
  <1>5. /\ SubSeq(wire, 1, n) \in Seq(Element) /\ Len(SubSeq(wire, 1, n)) = n
        /\ \A m \in 1 .. n : SubSeq(wire, 1, n)[m] = s[c + m]
    <2>1. \A m \in 1 .. n : wire[m] \in Element
      BY <1>3, <1>4
    <2>2. /\ SubSeq(wire, 1, n) \in Seq(Element)
          /\ Len(SubSeq(wire, 1, n)) = (IF 1 <= n THEN n - 1 + 1 ELSE 0)
          /\ \A m \in 1 .. n - 1 + 1 : SubSeq(wire, 1, n)[m] = wire[1 + m - 1]
      BY <2>1, SubSeqProperties
    <2>3. (IF 1 <= n THEN n - 1 + 1 ELSE 0) = n /\ n - 1 + 1 = n
      OBVIOUS
    <2>4. ASSUME NEW m \in 1 .. n PROVE SubSeq(wire, 1, n)[m] = s[c + m]
      <3>1. 1 + m - 1 = m /\ m \in 1 .. z /\ m \in 1 .. n - 1 + 1
        BY <1>3
      <3>2. SubSeq(wire, 1, n)[m] = wire[m] /\ wire[m] = s[c + m]
        BY <1>1, <1>2, <2>2, <3>1
      <3> QED BY <3>2
    <2> QED BY <2>2, <2>3, <2>4
  <1>6. Unread(s, c + n)'
    <2>1. PICK g \in Nat : g = n + 1
      OBVIOUS
    <2>2. \A m \in g .. z : wire[m] \in Element
      BY <1>4, <2>1
    <2>3. /\ SubSeq(wire, g, z) \in Seq(Element)
          /\ Len(SubSeq(wire, g, z)) = (IF g <= z THEN z - g + 1 ELSE 0)
          /\ \A m \in 1 .. z - g + 1 : SubSeq(wire, g, z)[m] = wire[g + m - 1]
      BY <2>2, SubSeqProperties
    <2>4. PICK y \in Nat : y = z - n /\ y = l - (c + n) /\ z - g + 1 = y
                           /\ (IF g <= z THEN z - g + 1 ELSE 0) = y
      <3>1. PICK y \in Nat : y = z - n
        BY <1>3
      <3>2. y = l - (c + n) /\ z - g + 1 = y /\ (IF g <= z THEN z - g + 1 ELSE 0) = y
        BY <1>2, <1>3, <2>1, <3>1
      <3> QED BY <3>1, <3>2
    <2>5. wire' \in Seq(Element) /\ Len(wire') = y
      BY <1>3, <2>1, <2>3, <2>4
    <2>6. ASSUME NEW m \in 1 .. y PROVE wire'[m] = s[(c + n) + m]
      <3>1. PICK j \in 1 .. z : j = g + m - 1 /\ c + j = (c + n) + m
        BY <2>1, <2>4
      <3>2. SubSeq(wire, g, z)[m] = wire[j] /\ wire[j] = s[c + j]
        BY <1>1, <1>2, <2>3, <2>4, <3>1
      <3> QED BY <1>3, <2>1, <3>1, <3>2
    <2>7. c + n <= Len(s) /\ Len(wire') = Len(s) - (c + n)
      BY <1>2, <1>3, <2>4, <2>5
    <2> QED BY <2>5, <2>6, <2>7 DEF Unread
  <1>7. c + n \in Nat /\ c + n <= Len(s)
    BY <1>2, <1>3
  <1> QED BY <1>5, <1>6, <1>7

\* What is sent comes last.
LEMMA AddToWire ==
  ASSUME NEW s \in Seq(Element), NEW c \in Nat, NEW e \in Seq(Element), Unread(s, c),
         wire' = wire \o e
  PROVE  Unread(s \o e, c)'
  <1>1. /\ wire \in Seq(Element) /\ Len(wire) = Len(s) - c /\ c <= Len(s)
        /\ \A m \in 1 .. Len(wire) : wire[m] = s[c + m]
    BY DEF Unread
  <1>2. PICK l \in Nat, z \in Nat, y \in Nat :
          l = Len(s) /\ z = Len(wire) /\ z = l - c /\ y = Len(e)
    BY <1>1
  <1>3. /\ s \o e \in Seq(Element) /\ Len(s \o e) = l + y
        /\ \A n \in 1 .. l : (s \o e)[n] = s[n]
        /\ \A n \in 1 .. y : (s \o e)[l + n] = e[n]
    BY <1>2, ConcatExtends DEF Extends
  <1>4. /\ wire' \in Seq(Element) /\ Len(wire') = z + y
        /\ \A n \in 1 .. z : wire'[n] = wire[n]
        /\ \A n \in 1 .. y : wire'[z + n] = e[n]
    <2>1. /\ wire \o e \in Seq(Element) /\ Len(wire \o e) = Len(wire) + Len(e)
          /\ Extends(wire \o e, wire)
          /\ \A n \in 1 .. Len(e) : (wire \o e)[Len(wire) + n] = e[n]
      BY <1>1, ConcatExtends
    <2>2. PICK x : x = wire \o e
      OBVIOUS
    <2>3. /\ x \in Seq(Element) /\ Len(x) = z + y
          /\ \A n \in 1 .. z : x[n] = wire[n]
          /\ \A n \in 1 .. y : x[z + n] = e[n]
      BY <1>2, <2>1, <2>2 DEF Extends
    <2> QED BY <2>2, <2>3
  <1> DEFINE t == s \o e
  <1> HIDE DEF t
  <1>5. ASSUME NEW n \in 1 .. z + y PROVE wire'[n] = t[c + n]
    <2>1. CASE n <= z
      <3>1. PICK m \in 1 .. l : m = c + n
        BY <1>2, <2>1
      <3>2. t[m] = s[m] /\ wire'[n] = wire[n] /\ wire[n] = s[c + n]
        BY <1>1, <1>2, <1>3, <1>4, <2>1 DEF t
      <3> QED BY <3>1, <3>2
    <2>2. CASE ~(n <= z)
      <3>1. PICK m \in 1 .. y : n = z + m /\ c + n = l + m
        <4>1. n - z \in 1 .. y /\ n = z + (n - z) /\ c + n = l + (n - z)
          BY <1>2, <2>2
        <4> QED BY <4>1
      <3>2. t[l + m] = e[m] /\ wire'[z + m] = e[m]
        BY <1>3, <1>4 DEF t
      <3> QED BY <3>1, <3>2
    <2> QED BY <2>1, <2>2
  <1>6. Len(wire') = Len(t) - c /\ c <= Len(t)
    <2>1. Len(t) = l + y
      BY <1>3 DEF t
    <2>2. Len(wire') = z + y
      BY <1>4
    <2>3. z = l - c /\ z >= 0
      BY <1>2
    <2> QED BY <2>1, <2>2, <2>3
  <1>7. \A n \in 1 .. Len(wire') : wire'[n] = t[c + n]
    BY <1>4, <1>5
  <1> QED BY <1>4, <1>6, <1>7 DEF Unread, t

-----------------------------------------------------------------------------

LEMMA StoryTold ==
  ASSUME NEW s \in Seq(Element), NEW q \in Seq(Item), NEW c \in Nat, NEW k \in Nat,
         Story(s, q, c, k)'
  PROVE  Telling'
  BY DEF Telling

LEMMA NothingNewest ==
  ASSUME NEW s, NEW a \in Nat
  PROVE  IsNewest(<< >>, s, a, a)
  <1>1. << >> \in Seq(Element) /\ Len(<< >>) = 0
    OBVIOUS
  <1>2. 0 = IF a - a <= 4 THEN a - a ELSE 4
    OBVIOUS
  <1>3. \A n \in 1 .. 0 : << >>[n] = s[a - 0 + n]
    OBVIOUS
  <1> QED BY <1>1, <1>2, <1>3 DEF IsNewest

LEMMA ReaderInvInit == ReaderInit => ReaderInv
  <1> SUFFICES ASSUME ReaderInit PROVE undefined = FALSE /\ Telling
    BY DEF ReaderInv
  <1>0. undefined = FALSE
    BY DEF ReaderInit
  <1>1. /\ wire = << >> /\ gap = << >> /\ good = << >> /\ misfit = FALSE
        /\ m_recv_step = 0 /\ m_prefix_buf = << >> /\ received = << >>
    BY DEF ReaderInit
  <1> DEFINE s == << >>
             q == << >>
  <1>2. s \in Seq(Element) /\ q \in Seq(Item) /\ 0 \in Nat /\ Len(s) = 0 /\ Len(q) = 0
    OBVIOUS
  <1>3. Layout(s, q)
    BY <1>2 DEF Layout
  <1>4. Sent(q)
    <2>1. good \in Seq(Seq(Byte)) /\ Len(good) = 0
      BY <1>1
    <2> QED BY <1>1, <1>2, <2>1 DEF Sent, Count
  <1>5. LastNoise(s, q)
    <2>1. Clean(s, 0, 0)
      BY DEF Clean
    <2>2. IsNewest(gap, s, 0, 0)
      BY <1>1, NothingNewest
    <2>3. End(q, Len(q)) = 0
      BY <1>2 DEF End
    <2> QED BY <1>1, <1>2, <2>1, <2>2, <2>3 DEF LastNoise
  <1>6. Unread(s, 0)
    BY <1>1, <1>2 DEF Unread
  <1>7. Place(s, q, 0, 0)
    <2>1. IsNewest(m_prefix_buf, s, 0, 0)
      BY <1>1, NothingNewest
    <2>2. SubSeq(good, 1, 0) = << >>
      BY <1>1, SubSeqEmpty
    <2> QED BY <1>1, <1>2, <2>1, <2>2 DEF Place, End, Count
  <1> QED BY <1>0, <1>2, <1>3, <1>4, <1>5, <1>6, <1>7 DEF Telling, Story

\* The beginning of every item, and what is in it.
LEMMA ItemElements ==
  ASSUME PacketReaderAssumption, NEW q \in Seq(Item), Sent(q), NEW p \in 1 .. Len(q)
  PROVE  /\ q[p] \in Item /\ q[p].at \in Nat /\ q[p].els \in Seq(Element)
         /\ Len(q[p].els) \in Nat /\ Len(q[p].els) >= 5 /\ q[p].els[5] \in Nat
         /\ \A n \in 1 .. 4 : q[p].els[n] = PREFIX[n]
         /\ q[p].kind = "misfit" => q[p].els[5] \in Misfits
         /\ q[p].kind # "misfit" =>
              /\ q[p].kind = "packet" /\ q[p].body \in Bodies /\ q[p].tail \in Tails
              /\ q[p].els = Elements(q[p].body, q[p].tail)
  <1>1. Filled(q[p])
    BY DEF Sent
  <1>2. q[p] \in Item /\ q[p].at \in Nat /\ q[p].els \in Seq(Element)
    <2>1. q[p] \in Item
      OBVIOUS
    <2> QED BY <2>1 DEF Item
  <1>4. CASE q[p].kind = "misfit"
    <2>1. PICK size \in Misfits : q[p].els = PREFIX \o <<size>>
      BY <1>1, <1>4 DEF Filled
    <2>2. /\ Len(q[p].els) = 5 /\ q[p].els[5] = size /\ size \in Nat
          /\ \A n \in 1 .. 4 : q[p].els[n] = PREFIX[n]
      <3>1. size \in Nat
        BY DEF PacketReaderAssumption
      <3> QED BY <2>1, <3>1, MisfitElements
    <2> QED BY <1>2, <1>4, <2>2
  <1>5. CASE q[p].kind # "misfit"
    <2>1. /\ q[p].kind = "packet" /\ q[p].body \in Bodies /\ q[p].tail \in Tails
          /\ q[p].els = Elements(q[p].body, q[p].tail)
      BY <1>1, <1>5 DEF Filled
    <2>2. PICK b \in Bodies, t \in Tails : b = q[p].body /\ t = q[p].tail
      BY <2>1
    <2>3. /\ b \in Seq(Byte) /\ Len(Elements(b, t)) = Len(b) + 7
          /\ Elements(b, t)[5] = Len(b) + 7
          /\ \A n \in 1 .. 4 : Elements(b, t)[n] = PREFIX[n]
      BY PacketElements
    <2>4. Len(b) \in Nat
      BY <2>3
    <2>5. q[p].els = Elements(b, t)
      BY <2>1, <2>2
    <2>6. Len(q[p].els) \in Nat /\ Len(q[p].els) >= 5 /\ q[p].els[5] \in Nat
      BY <2>3, <2>4, <2>5
    <2> QED BY <1>2, <1>5, <2>1, <2>3, <2>5, <2>6
  <1> QED BY <1>4, <1>5

\* Where the reader is does not change when more is sent.
LEMMA PlaceKept ==
  ASSUME NEW s \in Seq(Element), NEW t \in Seq(Element), Extends(t, s),
         NEW q \in Seq(Item), NEW r \in Seq(Item), NEW c \in Nat, NEW k \in Nat, c <= Len(s),
         Len(q) <= Len(r), \A p \in 1 .. Len(q) : r[p] = q[p],
         Len(q) < Len(r) => Len(s) <= r[Len(q) + 1].at,
         Sent(q), good' \in Seq(Seq(Byte)), Len(good) <= Len(good'),
         \A n \in 1 .. Len(good) : good'[n] = good[n],
         UNCHANGED <<m_recv_step, m_prefix_buf, m_msg_buf, received>>,
         Place(s, q, c, k)
  PROVE  Place(t, r, c, k)'
  <1>1. PICK n \in Nat, m \in Nat, l \in Nat : n = Len(q) /\ m = Len(r) /\ l = Len(s) /\ n <= m
    <2>1. Len(q) \in Nat /\ Len(r) \in Nat /\ Len(s) \in Nat
      BY LenProperties
    <2> QED BY <2>1
  <1>2. k <= n /\ k <= m
    BY <1>1 DEF Place
  <1>3. End(r, k) = End(q, k) /\ Count(r, k) = Count(q, k)
    <2>1. k # 0 => r[k] = q[k]
      BY <1>1, <1>2
    <2> QED BY <2>1 DEF End, Count
  <1>4. k # 0 => r[k].kind = "packet"
    BY <1>1, <1>2 DEF Place
  <1>5. PICK g \in Nat : g = Count(q, k) /\ g <= Len(good)
    <2>1. k \in 0 .. Len(q)
      BY <1>1, <1>2
    <2>2. Count(q, k) \in Nat
      BY <2>1, Ends
    <2>3. k # 0 => Count(q, k) <= Len(good)
      BY <2>1 DEF Sent, Count
    <2>4. k = 0 => Count(q, k) <= Len(good)
      BY DEF Count, Sent
    <2> QED BY <2>2, <2>3, <2>4
  <1>6. SubSeq(good, 1, g) = SubSeq(good', 1, g)
    <2>1. good \in Seq(Seq(Byte))
      BY DEF Sent
    <2>2. PICK a \in Nat, b \in Nat : a = Len(good) /\ b = Len(good') /\ a <= b /\ g <= a
      BY <1>5, <2>1
    <2>3. \A j \in 1 .. g : good[j] \in Seq(Byte) /\ good'[j] \in Seq(Byte) /\ good'[j] = good[j]
      <3> SUFFICES ASSUME NEW j \in 1 .. g
                   PROVE  good[j] \in Seq(Byte) /\ good'[j] \in Seq(Byte) /\ good'[j] = good[j]
        OBVIOUS
      <3>1. j \in 1 .. Len(good) /\ j \in 1 .. Len(good')
        BY <2>2
      <3> QED BY <2>1, <3>1, ElementOfSeq
    <2>9. (\A j \in 1 .. g : good[j] \in Seq(Byte)) /\ (\A j \in 1 .. g : good'[j] \in Seq(Byte))
      BY <2>3
    <2>4. /\ SubSeq(good, 1, g) \in Seq(Seq(Byte))
          /\ Len(SubSeq(good, 1, g)) = (IF 1 <= g THEN g - 1 + 1 ELSE 0)
          /\ \A j \in 1 .. g - 1 + 1 : SubSeq(good, 1, g)[j] = good[1 + j - 1]
      BY <2>9, SubSeqProperties
    <2>5. /\ SubSeq(good', 1, g) \in Seq(Seq(Byte))
          /\ Len(SubSeq(good', 1, g)) = (IF 1 <= g THEN g - 1 + 1 ELSE 0)
          /\ \A j \in 1 .. g - 1 + 1 : SubSeq(good', 1, g)[j] = good'[1 + j - 1]
      BY <2>9, SubSeqProperties
    <2>6. (IF 1 <= g THEN g - 1 + 1 ELSE 0) = g /\ g - 1 + 1 = g
      OBVIOUS
    <2>7. ASSUME NEW j \in 1 .. g PROVE SubSeq(good, 1, g)[j] = SubSeq(good', 1, g)[j]
      <3>1. 1 + j - 1 = j /\ j \in 1 .. g - 1 + 1
        OBVIOUS
      <3> QED BY <2>3, <2>4, <2>5, <3>1
    <2>8. Len(SubSeq(good, 1, g)) = g /\ Len(SubSeq(good', 1, g)) = g
      BY <2>4, <2>5, <2>6
    <2>10. PICK u \in Seq(Seq(Byte)), v \in Seq(Seq(Byte)) :
             u = SubSeq(good, 1, g) /\ v = SubSeq(good', 1, g)
      BY <2>4, <2>5
    <2>11. Len(u) = Len(v) /\ \A j \in 1 .. Len(u) : u[j] = v[j]
      BY <2>7, <2>8, <2>10
    <2>12. u = v
      BY <2>11, SeqEqual
    <2> QED BY <2>10, <2>12
  <1>7. received' = SubSeq(good', 1, Count(r, k))
    BY <1>3, <1>5, <1>6 DEF Place
  <1>8. ASSUME m_recv_step = 0
        PROVE  /\ End(r, k) <= c /\ (k < m => c < r[k + 1].at + 4)
               /\ IsNewest(m_prefix_buf, t, End(r, k), c)
    <2>1. End(q, k) <= c /\ (k < n => c < q[k + 1].at + 4) /\ IsNewest(m_prefix_buf, s, End(q, k), c)
      BY <1>1, <1>8 DEF Place
    <2>2. End(q, k) \in Nat
      <3>1. k \in 0 .. Len(q)
        BY <1>1, <1>2
      <3> QED BY <3>1, Ends
    <2>3. IsNewest(m_prefix_buf, t, End(r, k), c)
      BY <1>3, <2>1, <2>2, NewestKept
    <2>4. ASSUME k < m PROVE c < r[k + 1].at + 4
      <3>1. CASE k < n
        <4>1. k + 1 \in 1 .. Len(q)
          BY <1>1, <3>1
        <4> QED BY <2>1, <3>1, <4>1
      <3>2. CASE k = n
        <4>1. Len(s) <= r[k + 1].at
          BY <1>1, <2>4, <3>2
        <4>2. r[k + 1].at \in Nat
          <5>1. k + 1 \in 1 .. Len(r)
            BY <1>1, <2>4
          <5>2. r[k + 1] \in Item
            BY <5>1
          <5> QED BY <5>2 DEF Item
        <4>3. PICK y \in Nat : y = r[k + 1].at
          BY <4>2
        <4>4. c <= l /\ l <= y
          BY <1>1, <4>1, <4>3
        <4>5. c < y + 4
          BY <4>4
        <4> QED BY <4>3, <4>5
      <3>3. k < n \/ k = n
        BY <1>2
      <3> QED BY <3>1, <3>2, <3>3
    <2> QED BY <1>3, <2>1, <2>3, <2>4
  <1>9. m_recv_step # 0 => k < n /\ m_prefix_buf = << >>
    BY <1>1 DEF Place
  <1>10. k < n => r[k + 1] = q[k + 1]
    <2>1. k < n => k + 1 \in 1 .. Len(q)
      BY <1>1
    <2> QED BY <2>1
  <1>11. m_recv_step = 1 => c = r[k + 1].at + 4 /\ m_msg_buf = PREFIX
    BY <1>9, <1>10 DEF Place
  <1>12. m_recv_step = 2 =>
           c = r[k + 1].at + 5 /\ m_msg_buf = PREFIX \o <<r[k + 1].els[5]>>
    <2> SUFFICES ASSUME m_recv_step = 2
                 PROVE  /\ c = r[k + 1].at + 5
                        /\ m_msg_buf = PREFIX \o <<r[k + 1].els[5]>>
      OBVIOUS
    <2>1. c = q[k + 1].at + 5 /\ m_msg_buf = PREFIX \o <<q[k + 1].els[5]>>
      BY DEF Place
    <2>2. r[k + 1] = q[k + 1]
      BY <1>9, <1>10
    <2> QED BY <2>1, <2>2, Zenon
  <1>13. m_recv_step \in {0, 1, 2}
    BY DEF Place
  <1>14. m_recv_step # 0 => k < m
    BY <1>1, <1>9
  <1> QED BY <1>1, <1>2, <1>4, <1>7, <1>8, <1>9, <1>11, <1>12, <1>13, <1>14 DEF Place

-----------------------------------------------------------------------------
(* The steps of the peer.                                                  *)

\* More is sent after a header that is too long: nothing of it matters.
LEMMA AfterMisfit ==
  ASSUME NEW s \in Seq(Element), NEW q \in Seq(Item), NEW c \in Nat, NEW k \in Nat,
         Story(s, q, c, k), NEW e \in Seq(Element), wire' = wire \o e,
         misfit' = misfit, good' = good,
         LastNoise(s \o e, q)',
         UNCHANGED <<m_recv_step, m_prefix_buf, m_msg_buf, received>>
  PROVE  Telling'
  <1>1. PICK t \in Seq(Element) : t = s \o e /\ Extends(t, s)
    BY ConcatExtends
  <1>2. /\ Layout(s, q) /\ Sent(q) /\ Unread(s, c) /\ Place(s, q, c, k)
        /\ good \in Seq(Seq(Byte)) /\ c <= Len(s)
    BY DEF Story, Sent, Unread
  <1>3. Layout(t, q)
    BY <1>1, <1>2, LayoutKept
  <1>4. Sent(q)'
    BY <1>2 DEF Sent
  <1>5. Unread(t, c)'
    BY <1>1, <1>2, AddToWire
  <1>6. Place(t, q, c, k)'
    <2>1. Len(good) \in Nat /\ Len(q) \in Nat
      BY <1>2
    <2>2. /\ Len(q) <= Len(q) /\ Len(good) <= Len(good') /\ good' \in Seq(Seq(Byte))
          /\ \A p \in 1 .. Len(q) : q[p] = q[p]
          /\ Len(q) < Len(q) => Len(s) <= q[Len(q) + 1].at
          /\ \A n \in 1 .. Len(good) : good'[n] = good[n]
      BY <1>2, <2>1
    <2> QED BY <1>1, <1>2, <2>2, PlaceKept
  <1>7. Story(t, q, c, k)'
    BY <1>1, <1>3, <1>4, <1>5, <1>6 DEF Story, Layout
  <1> QED BY <1>7, StoryTold

LEMMA NoiseStep ==
  ASSUME NEW s \in Seq(Element), NEW q \in Seq(Item), NEW c \in Nat, NEW k \in Nat,
         PacketReaderAssumption, Story(s, q, c, k),
         NEW b \in Noise, SendNoise(b)
  PROVE  Telling'
  <1>1. /\ wire' = Append(wire, b) /\ misfit' = misfit /\ good' = good
        /\ UNCHANGED <<m_recv_step, m_prefix_buf, m_msg_buf, received>>
        /\ gap' = Newest(Append(gap, b), PREFIX_SIZE) /\ gap' # PREFIX
    BY DEF SendNoise, reader
  <1>2. b \in Element
    BY DEF PacketReaderAssumption, Element
  <1>3. PICK e \in Seq(Element) : e = <<b>> /\ Len(e) = 1 /\ e[1] = b
    <2>1. <<b>> \in Seq(Element) /\ Len(<<b>>) = 1 /\ <<b>>[1] = b
      BY <1>2
    <2> QED BY <2>1
  <1>4. wire' = wire \o e
    <2>1. wire \in Seq(Element)
      BY DEF Story, Unread
    <2> QED BY <1>1, <1>2, <1>3, <2>1, AppendIsConcat
  <1>5. PICK t \in Seq(Element) :
          t = s \o e /\ Extends(t, s) /\ Len(t) = Len(s) + 1 /\ t[Len(s) + 1] = b
    <2>1. /\ s \o e \in Seq(Element) /\ Len(s \o e) = Len(s) + Len(e) /\ Extends(s \o e, s)
          /\ \A n \in 1 .. Len(e) : (s \o e)[Len(s) + n] = e[n]
      BY ConcatExtends
    <2>2. (s \o e)[Len(s) + 1] = e[1]
      BY <1>3, <2>1
    <2> QED BY <1>3, <2>1, <2>2
  <1>6. LastNoise(t, q)'
    <2>1. misfit \in BOOLEAN
      BY DEF Story, LastNoise
    <2> SUFFICES ASSUME ~misfit
                 PROVE  /\ Clean(t, End(q, Len(q)), Len(t))
                        /\ IsNewest(gap', t, End(q, Len(q)), Len(t))
      BY <1>1, <2>1 DEF LastNoise, End
    <2>2. PICK a \in Nat, l \in Nat : a = End(q, Len(q)) /\ l = Len(s) /\ a <= l
      <3>1. Len(q) \in 0 .. Len(q) /\ (Len(q) # 0 => Len(q) \in 1 .. Len(q))
        OBVIOUS
      <3>2. End(q, Len(q)) \in Nat
        BY <3>1, Ends
      <3>3. End(q, Len(q)) <= Len(s)
        BY <3>1 DEF Story, Layout, End
      <3> QED BY <3>2, <3>3
    <2>3. Clean(s, a, l) /\ IsNewest(gap, s, a, l)
      BY <2>2 DEF Story, LastNoise
    <2>4. Len(t) = l + 1 /\ t[l + 1] = b
      BY <1>5, <2>2
    <2>5. l <= Len(s)
      BY <2>2
    <2>6. IsNewest(gap, t, a, l)
      BY <1>5, <2>2, <2>3, <2>5, NewestKept
    <2>7. IsNewest(gap', t, a, l + 1)
      <3>1. l + 1 <= Len(t)
        BY <2>4
      <3> QED BY <1>1, <2>2, <2>4, <2>6, <3>1, NewestNext
    <2>8. Clean(t, a, l + 1)
      <3> SUFFICES ASSUME NEW x \in Nat, a <= x, x + 4 <= l + 1, PrefixAt(t, x) PROVE FALSE
        BY DEF Clean
      <3>1. Clean(t, a, l)
        BY <1>5, <2>2, <2>3, <2>5, CleanKept
      <3>2. x + 4 = l + 1 /\ x = l + 1 - 4
        <4>1. ~(x + 4 <= l)
          BY <3>1 DEF Clean
        <4> QED BY <4>1
      <3>3. gap' = PREFIX
        <4>1. a <= l + 1 /\ l + 1 <= Len(t) /\ l + 1 - a >= 4
          BY <2>2, <2>4, <3>2
        <4>2. l + 1 \in Nat /\ PrefixAt(t, l + 1 - 4)
          BY <3>2
        <4> QED BY <2>7, <4>1, <4>2, WindowIsPrefix
      <3> QED BY <1>1, <3>3
    <2> QED BY <2>2, <2>4, <2>7, <2>8
  <1> QED BY <1>1, <1>4, <1>5, <1>6, AfterMisfit

\* A packet, or a header that is too long, becomes the last item.
LEMMA ItemAdded ==
  ASSUME NEW s \in Seq(Element), NEW q \in Seq(Item), NEW c \in Nat, NEW k \in Nat,
         PacketReaderAssumption, Story(s, q, c, k), ~misfit,
         NEW item \in Item, item.at = Len(s), Filled(item),
         wire' = wire \o item.els, gap' = << >>,
         misfit' \in BOOLEAN, item.kind = "misfit" <=> misfit',
         good' \in Seq(Seq(Byte)), item.count = Len(good'), Len(good) <= Len(good'),
         \A n \in 1 .. Len(good) : good'[n] = good[n],
         IF item.kind = "packet" /\ item.tail = TAIL
         THEN Len(good') = Len(good) + 1 /\ good'[Len(good) + 1] = item.body
         ELSE Len(good') = Len(good),
         UNCHANGED <<m_recv_step, m_prefix_buf, m_msg_buf, received>>
  PROVE  Telling'
  <1>1. PICK n \in Nat, l \in Nat : n = Len(q) /\ l = Len(s)
    OBVIOUS
  <1>2. item.els \in Seq(Element)
    BY DEF Item
  <1>3. PICK t \in Seq(Element) :
          /\ t = s \o item.els /\ Extends(t, s) /\ Len(t) = l + Len(item.els)
          /\ \A j \in 1 .. Len(item.els) : t[l + j] = item.els[j]
    <2>1. /\ s \o item.els \in Seq(Element)
          /\ Len(s \o item.els) = Len(s) + Len(item.els)
          /\ Extends(s \o item.els, s)
          /\ \A j \in 1 .. Len(item.els) : (s \o item.els)[Len(s) + j] = item.els[j]
      BY <1>2, ConcatExtends
    <2> QED BY <1>1, <2>1
  <1>4. PICK r \in Seq(Item) :
          Len(r) = n + 1 /\ r[n + 1] = item /\ \A p \in 1 .. n : r[p] = q[p]
    <2>1. /\ Append(q, item) \in Seq(Item) /\ Len(Append(q, item)) = Len(q) + 1
          /\ \A p \in 1 .. Len(q) : Append(q, item)[p] = q[p]
          /\ Append(q, item)[Len(q) + 1] = item
      BY AppendProperties
    <2> QED BY <1>1, <2>1
  <1>5. /\ Layout(s, q) /\ Sent(q) /\ LastNoise(s, q) /\ Unread(s, c) /\ Place(s, q, c, k)
        /\ good \in Seq(Seq(Byte)) /\ c <= Len(s) /\ Len(good) = Count(q, n)
    BY <1>1 DEF Story, Sent, Unread
  <1>6. \A p \in 0 .. n : End(r, p) = End(q, p) /\ Count(r, p) = Count(q, p)
    <2> SUFFICES ASSUME NEW p \in 0 .. n PROVE End(r, p) = End(q, p) /\ Count(r, p) = Count(q, p)
      OBVIOUS
    <2>1. p # 0 => r[p] = q[p]
      BY <1>4
    <2> QED BY <2>1 DEF End, Count
  <1>7. End(r, n + 1) = l + Len(item.els) /\ Count(r, n + 1) = Len(good')
    <2>1. n + 1 # 0 /\ r[n + 1] = item
      BY <1>4
    <2> QED BY <1>1, <2>1 DEF End, Count
  <1>8. Layout(t, q)
    BY <1>3, <1>5, LayoutKept
  <1>9. End(q, n) \in Nat /\ End(q, n) <= l
    <2>1. n \in 0 .. Len(q) /\ (n # 0 => n \in 1 .. Len(q))
      BY <1>1
    <2>2. End(q, n) \in Nat
      BY <2>1, Ends
    <2>3. End(q, n) <= Len(s)
      BY <1>5, <2>1 DEF Layout, End
    <2> QED BY <1>1, <2>2, <2>3
  <1>10. Layout(t, r)
    <2> SUFFICES ASSUME NEW p \in 1 .. n + 1
                 PROVE  /\ End(r, p - 1) <= r[p].at /\ End(r, p) <= Len(t)
                        /\ Written(t, r[p])
                        /\ Clean(t, End(r, p - 1), r[p].at)
      BY <1>4 DEF Layout
    <2>1. CASE p \in 1 .. n
      <3>1. r[p] = q[p] /\ End(r, p) = End(q, p) /\ End(r, p - 1) = End(q, p - 1)
        <4>1. p \in 0 .. n /\ p - 1 \in 0 .. n
          BY <2>1
        <4> QED BY <1>4, <1>6, <2>1, <4>1
      <3> QED BY <1>1, <1>8, <2>1, <3>1 DEF Layout
    <2>2. CASE p = n + 1
      <3>1. n + 1 - 1 = n /\ n \in 0 .. n
        OBVIOUS
      <3>2. End(r, p - 1) = End(q, n)
        BY <1>6, <2>2, <3>1
      <3>3. End(r, p) <= Len(t)
        BY <1>2, <1>3, <1>7, <2>2
      <3>4. r[p] = item /\ item.at = l
        BY <1>1, <1>4, <2>2
      <3>5. Written(t, item)
        BY <1>3, <3>4 DEF Written
      <3>6. Clean(t, End(q, n), l)
        <4>1. Clean(s, End(q, n), l)
          BY <1>1, <1>5 DEF LastNoise
        <4>2. l <= Len(s)
          BY <1>1
        <4> QED BY <1>1, <1>3, <1>9, <4>1, <4>2, CleanKept
      <3> QED BY <1>9, <3>2, <3>3, <3>4, <3>5, <3>6
    <2> QED BY <2>1, <2>2
  <1>11. Sent(r)'
    <2>1. good' \in Seq(Seq(Byte)) /\ Len(good') = Count(r, Len(r))
      BY <1>4, <1>7
    <2>2. r # << >>
      BY <1>1, <1>4
    <2>3. ASSUME NEW p \in 1 .. n + 1
          PROVE  /\ Filled(r[p])
                 /\ r[p].kind = "misfit" <=> misfit' /\ p = Len(r)
                 /\ r[p].count <= Len(good')
                 /\ IF r[p].kind = "packet" /\ r[p].tail = TAIL
                    THEN r[p].count = Count(r, p - 1) + 1 /\ good'[r[p].count] = r[p].body
                    ELSE r[p].count = Count(r, p - 1)
      <3>1. CASE p \in 1 .. n
        <4>1. r[p] = q[p] /\ Count(r, p - 1) = Count(q, p - 1) /\ Count(q, p - 1) \in Nat
          <5>1. p - 1 \in 0 .. n /\ p - 1 \in 0 .. Len(q)
            BY <1>1, <3>1
          <5>2. Count(q, p - 1) \in Nat
            BY <5>1, Ends
          <5> QED BY <1>4, <1>6, <3>1, <5>1, <5>2
        <4>2. /\ Filled(q[p]) /\ q[p].kind # "misfit" /\ q[p].count <= Len(good)
              /\ IF q[p].kind = "packet" /\ q[p].tail = TAIL
                 THEN q[p].count = Count(q, p - 1) + 1 /\ good[q[p].count] = q[p].body
                 ELSE q[p].count = Count(q, p - 1)
          BY <1>1, <1>5, <3>1 DEF Sent
        <4>3. q[p].count \in Nat
          <5>1. q[p] \in Item
            BY <1>1, <3>1
          <5> QED BY <5>1 DEF Item
        <4>4. PICK g \in Nat, h \in Nat : g = Len(good) /\ h = Len(good') /\ g <= h
          <5>1. good \in Seq(Seq(Byte)) /\ good' \in Seq(Seq(Byte))
            BY <1>5, Zenon
          <5>2. Len(good) \in Nat /\ Len(good') \in Nat
            BY <5>1, LenNat, Zenon
          <5> QED BY <5>2
        <4>5. q[p].count <= Len(good')
          <5>1. q[p].count <= Len(good)
            BY <4>2
          <5> QED BY <4>3, <4>4, <5>1
        <4>6. q[p].kind = "packet" /\ q[p].tail = TAIL => good'[q[p].count] = q[p].body
          <5> SUFFICES ASSUME q[p].kind = "packet", q[p].tail = TAIL
                       PROVE  good'[q[p].count] = q[p].body
            OBVIOUS
          <5>1. q[p].count = Count(q, p - 1) + 1 /\ good[q[p].count] = q[p].body
            BY <4>2
          <5>2. q[p].count \in 1 .. Len(good)
            BY <4>1, <4>2, <4>3, <4>4, <5>1
          <5> QED BY <5>1, <5>2
        <4>7. p # Len(r)
          BY <1>4, <3>1
        <4> QED BY <4>1, <4>2, <4>5, <4>6, <4>7
      <3>2. CASE p = n + 1
        <4>1. Count(r, p - 1) = Len(good)
          <5>1. n + 1 - 1 = n /\ n \in 0 .. n
            OBVIOUS
          <5> QED BY <1>5, <1>6, <3>2, <5>1
        <4>2. r[p] = item /\ p = Len(r)
          BY <1>4, <3>2
        <4>3. PICK g \in Nat, h \in Nat : g = Len(good) /\ h = Len(good')
          <5>1. good \in Seq(Seq(Byte)) /\ good' \in Seq(Seq(Byte))
            BY <1>5, Zenon
          <5>2. Len(good) \in Nat /\ Len(good') \in Nat
            BY <5>1, LenNat, Zenon
          <5> QED BY <5>2
        <4>4. /\ Filled(item) /\ item.count = h
              /\ item.kind = "misfit" <=> misfit'
              /\ IF item.kind = "packet" /\ item.tail = TAIL
                 THEN h = g + 1 /\ good'[g + 1] = item.body ELSE h = g
          BY <4>3
        <4>5. Filled(r[p]) /\ (r[p].kind = "misfit" <=> misfit' /\ p = Len(r))
          BY <4>2, <4>4
        <4>6. r[p].count <= Len(good')
          <5>1. r[p].count = h /\ h <= h
            BY <4>2, <4>4
          <5> QED BY <4>3, <5>1
        <4>7. IF r[p].kind = "packet" /\ r[p].tail = TAIL
              THEN r[p].count = Count(r, p - 1) + 1 /\ good'[r[p].count] = r[p].body
              ELSE r[p].count = Count(r, p - 1)
          BY <4>1, <4>2, <4>3, <4>4
        <4> QED BY <4>5, <4>6, <4>7
      <3> QED BY <3>1, <3>2
    <2>4. \A p \in 1 .. Len(r) :
            /\ Filled(r[p])
            /\ r[p].kind = "misfit" <=> misfit' /\ p = Len(r)
            /\ r[p].count <= Len(good')
            /\ IF r[p].kind = "packet" /\ r[p].tail = TAIL
               THEN r[p].count = Count(r, p - 1) + 1 /\ good'[r[p].count] = r[p].body
               ELSE r[p].count = Count(r, p - 1)
      BY <1>4, <2>3
    <2> QED BY <2>1, <2>2, <2>4 DEF Sent
  <1>12. LastNoise(t, r)'
    <2>1. End(r, Len(r)) = Len(t) /\ Len(t) \in Nat
      BY <1>2, <1>3, <1>4, <1>7
    <2>2. Clean(t, Len(t), Len(t))
      BY <2>1 DEF Clean
    <2>3. IsNewest(gap', t, Len(t), Len(t))
      BY <2>1, NothingNewest
    <2> QED BY <2>1, <2>2, <2>3 DEF LastNoise
  <1>13. Unread(t, c)'
    BY <1>2, <1>3, <1>5, AddToWire
  <1>14. Place(t, r, c, k)'
    <2>1. /\ Len(q) <= Len(r) /\ \A p \in 1 .. Len(q) : r[p] = q[p]
          /\ r[Len(q) + 1] = item /\ Len(s) <= item.at
      BY <1>1, <1>4
    <2> QED BY <1>3, <1>5, <2>1, PlaceKept
  <1>15. Story(t, r, c, k)'
    BY <1>10, <1>11, <1>12, <1>13, <1>14 DEF Story, Layout
  <1> QED BY <1>15, StoryTold

LEMMA SendPacketStep ==
  ASSUME NEW s \in Seq(Element), NEW q \in Seq(Item), NEW c \in Nat, NEW k \in Nat,
         PacketReaderAssumption, Story(s, q, c, k),
         NEW body \in Bodies, NEW tail \in Tails, SendPacket(body, tail)
  PROVE  Telling'
  <1>1. PICK e \in Seq(Element) : e = Elements(body, tail)
    BY PacketElements
  <1>2. /\ wire' = wire \o e /\ gap' = << >> /\ misfit' = misfit
        /\ good' = IF tail = TAIL /\ ~misfit THEN Append(good, body) ELSE good
        /\ UNCHANGED <<m_recv_step, m_prefix_buf, m_msg_buf, received>>
    BY <1>1 DEF SendPacket, Send, reader, Elements
  <1>3. misfit \in BOOLEAN /\ good \in Seq(Seq(Byte))
    BY DEF Story, LastNoise, Sent
  <1>4. CASE misfit
    <2>1. LastNoise(s \o e, q)'
      BY <1>2, <1>3, <1>4 DEF LastNoise
    <2> QED BY <1>2, <1>4, <2>1, AfterMisfit
  <1>5. CASE ~misfit
    <2>1. PICK g \in Nat, h \in Nat : g = Len(good) /\ h = Len(good')
                                      /\ h = IF tail = TAIL THEN g + 1 ELSE g
      <3>1. PICK g \in Nat : g = Len(good)
        BY <1>3
      <3>2. Len(good') = IF tail = TAIL THEN g + 1 ELSE g
        BY <1>2, <1>3, <1>5, <3>1
      <3>3. PICK h \in Nat : h = IF tail = TAIL THEN g + 1 ELSE g
        OBVIOUS
      <3> QED BY <3>1, <3>2, <3>3
    <2>2. body \in Seq(Byte) /\ tail \in Seq(Byte)
      BY PacketElements
    <2>3. /\ good' \in Seq(Seq(Byte))
          /\ \A n \in 1 .. Len(good) : good'[n] = good[n]
          /\ tail = TAIL => good'[Len(good) + 1] = body
      <3>1. CASE tail = TAIL
        <4>1. good' = Append(good, body)
          BY <1>2, <1>5, <3>1
        <4> QED BY <1>3, <2>2, <4>1, AppendProperties
      <3>2. CASE tail # TAIL
        BY <1>2, <1>3, <3>2
      <3> QED BY <3>1, <3>2
    <2> DEFINE item == [kind |-> "packet", at |-> Len(s), els |-> e,
                        body |-> body, tail |-> tail, count |-> h]
    <2>4. item \in Item
      <3>1. Len(s) \in Nat /\ h \in Nat
        OBVIOUS
      <3> QED BY <2>2, <3>1 DEF Item
    <2>5. /\ item.kind = "packet" /\ item.at = Len(s) /\ item.els = e /\ item.body = body
          /\ item.tail = tail /\ item.count = h
      OBVIOUS
    <2> HIDE DEF item
    <2>6. Filled(item)
      BY <1>1, <2>5 DEF Filled
    <2>7. IF item.kind = "packet" /\ item.tail = TAIL
          THEN Len(good') = Len(good) + 1 /\ good'[Len(good) + 1] = item.body
          ELSE Len(good') = Len(good)
      BY <2>1, <2>3, <2>5
    <2>8. Len(good) <= Len(good') /\ item.count = Len(good')
      BY <2>1, <2>5
    <2>9. misfit' \in BOOLEAN /\ (item.kind = "misfit" <=> misfit')
      BY <1>2, <1>3, <1>5, <2>5
    <2>10. wire' = wire \o item.els
      BY <1>2, <2>5
    <2> QED BY <1>2, <1>5, <2>3, <2>4, <2>5, <2>6, <2>7, <2>8, <2>9, <2>10, ItemAdded
  <1> QED BY <1>4, <1>5

LEMMA SendMisfitStep ==
  ASSUME NEW s \in Seq(Element), NEW q \in Seq(Item), NEW c \in Nat, NEW k \in Nat,
         PacketReaderAssumption, Story(s, q, c, k),
         NEW size \in Misfits, SendMisfit(size)
  PROVE  Telling'
  <1>1. PICK e \in Seq(Element) : e = PREFIX \o <<size>>
    BY MisfitElements
  <1>2. /\ wire' = wire \o e /\ gap' = << >> /\ misfit' = TRUE /\ good' = good
        /\ UNCHANGED <<m_recv_step, m_prefix_buf, m_msg_buf, received>>
    BY <1>1 DEF SendMisfit, Send, reader
  <1>3. misfit \in BOOLEAN /\ good \in Seq(Seq(Byte))
    BY DEF Story, LastNoise, Sent
  <1>4. CASE misfit
    <2>1. misfit' = misfit
      BY <1>2, <1>3, <1>4
    <2>2. LastNoise(s \o e, q)'
      BY <1>2, <1>3, <1>4 DEF LastNoise
    <2> QED BY <1>2, <2>1, <2>2, AfterMisfit
  <1>5. CASE ~misfit
    <2>1. PICK g \in Nat : g = Len(good)
      BY <1>3
    <2> DEFINE item == [kind |-> "misfit", at |-> Len(s), els |-> e,
                        body |-> << >>, tail |-> << >>, count |-> g]
    <2>2. item \in Item
      <3>1. Len(s) \in Nat /\ << >> \in Seq(Byte)
        OBVIOUS
      <3> QED BY <3>1 DEF Item
    <2>3. item.kind = "misfit" /\ item.at = Len(s) /\ item.els = e /\ item.count = g
      OBVIOUS
    <2> HIDE DEF item
    <2>4. Filled(item)
      BY <1>1, <2>3 DEF Filled
    <2>5. /\ good' \in Seq(Seq(Byte)) /\ Len(good) <= Len(good') /\ item.count = Len(good')
          /\ \A n \in 1 .. Len(good) : good'[n] = good[n]
          /\ Len(good') = Len(good)
      BY <1>2, <1>3, <2>1, <2>3
    <2>6. misfit' \in BOOLEAN /\ (item.kind = "misfit" <=> misfit')
      BY <1>2, <2>3
    <2>7. wire' = wire \o item.els
      BY <1>2, <2>3
    <2>8. item.kind # "packet"
      BY <2>3
    <2> QED BY <1>2, <1>5, <2>2, <2>3, <2>4, <2>5, <2>6, <2>7, <2>8, ItemAdded
  <1> QED BY <1>4, <1>5

-----------------------------------------------------------------------------
(* The steps of the reader.                                                *)

\* What a step of the reader leaves alone.
LEMMA SentKept ==
  ASSUME NEW s \in Seq(Element), NEW q \in Seq(Item), NEW c \in Nat, NEW k \in Nat,
         Story(s, q, c, k), UNCHANGED <<gap, good, misfit>>
  PROVE  Layout(s, q)' /\ Sent(q)' /\ LastNoise(s, q)'
  <1>1. Layout(s, q) /\ Sent(q) /\ LastNoise(s, q)
    BY DEF Story
  <1>2. Layout(s, q)'
    BY <1>1 DEF Layout
  <1>3. Sent(q)'
    BY <1>1 DEF Sent
  <1>4. LastNoise(s, q)'
    BY <1>1 DEF LastNoise, End
  <1> QED BY <1>2, <1>3, <1>4

\* The reader finds a prefix exactly where an item starts.
LEMMA FoundWhereSent ==
  ASSUME NEW s \in Seq(Element), NEW q \in Seq(Item), NEW c \in Nat, NEW k \in Nat,
         PacketReaderAssumption, Story(s, q, c, k), m_recv_step = 0, c + 1 <= Len(s),
         NEW w, IsNewest(w, s, End(q, k), c + 1)
  PROVE  /\ w = PREFIX => k < Len(q) /\ c + 1 = q[k + 1].at + 4
         /\ w # PREFIX /\ k < Len(q) => c + 1 < q[k + 1].at + 4
  <1>1. PICK n \in Nat, l \in Nat : n = Len(q) /\ l = Len(s)
    OBVIOUS
  <1>2. /\ Layout(s, q) /\ Sent(q) /\ LastNoise(s, q)
        /\ k <= n /\ (k # 0 => q[k].kind = "packet")
        /\ End(q, k) <= c /\ (k < n => c < q[k + 1].at + 4)
    BY <1>1 DEF Story, Place
  <1>3. PICK a \in Nat : a = End(q, k)
    <2>1. k \in 0 .. Len(q)
      BY <1>1, <1>2
    <2> QED BY <2>1, Ends
  <1>4. w = PREFIX <=> c + 1 - a >= 4 /\ PrefixAt(s, c + 1 - 4)
    <2>1. c + 1 \in Nat /\ a <= c + 1
      BY <1>2, <1>3
    <2> QED BY <1>3, <2>1, WindowIsPrefix
  <1>5. CASE k < n
    <2>1. k + 1 \in 1 .. Len(q) /\ k + 1 - 1 = k
      BY <1>1, <1>5
    <2>2. PICK x \in Nat : x = q[k + 1].at
      <3>1. q[k + 1].at \in Nat
        BY <2>1, <1>2, ItemElements
      <3> QED BY <3>1
    <2>3. /\ \A m \in 1 .. 4 : q[k + 1].els[m] = PREFIX[m]
          /\ Len(q[k + 1].els) \in Nat /\ Len(q[k + 1].els) >= 5
      <3>1. Sent(q)
        BY <1>2
      <3> QED BY <2>1, <3>1, ItemElements
    <2>4. Written(s, q[k + 1])
      BY <1>2, <2>1 DEF Layout
    <2>5. s[x + 1] = "R" /\ s[x + 2] = "X" /\ s[x + 3] = "M" /\ s[x + 4] = "G"
      <3>1. \A m \in 1 .. 4 : s[x + m] = q[k + 1].els[m]
        <4> SUFFICES ASSUME NEW m \in 1 .. 4 PROVE s[x + m] = q[k + 1].els[m]
          OBVIOUS
        <4>1. m \in 1 .. Len(q[k + 1].els)
          <5>1. PICK y \in Nat : y = Len(q[k + 1].els) /\ y >= 5
            BY <2>3
          <5> QED BY <5>1
        <4> QED BY <2>2, <2>4, <4>1 DEF Written
      <3>2. \A m \in 1 .. 4 : s[x + m] = PREFIX[m]
        BY <2>3, <3>1
      <3> QED BY <3>2 DEF PREFIX
    <2>6. Clean(s, a, x) /\ a <= x
      <3>1. Clean(s, End(q, k + 1 - 1), q[k + 1].at) /\ End(q, k + 1 - 1) <= q[k + 1].at
        BY <1>2, <2>1 DEF Layout
      <3>2. End(q, k + 1 - 1) = a
        BY <1>3, <2>1
      <3> QED BY <2>2, <3>1, <3>2
    <2>7. ASSUME w = PREFIX PROVE c + 1 = x + 4
      <3>1. PICK y \in Nat : y = c + 1 - 4 /\ a <= y /\ y + 4 = c + 1
        BY <1>3, <1>4, <2>7
      <3>2. s[y + 4] = "G" /\ PrefixAt(s, y)
        BY <1>4, <2>7, <3>1 DEF PrefixAt
      <3>3. ~(y + 4 <= x)
        BY <2>6, <3>1, <3>2 DEF Clean
      <3>4. c < x + 4
        BY <1>2, <1>5, <2>2
      <3>5. y + 4 # x + 1 /\ y + 4 # x + 2 /\ y + 4 # x + 3
        BY <2>5, <3>2
      <3> QED BY <3>1, <3>3, <3>4, <3>5
    <2>8. ASSUME w # PREFIX PROVE c + 1 < x + 4
      <3>1. c + 1 # x + 4
        <4> SUFFICES ASSUME c + 1 = x + 4 PROVE FALSE
          OBVIOUS
        <4>1. c + 1 - a >= 4 /\ c + 1 - 4 = x
          BY <2>6
        <4>2. PrefixAt(s, x)
          BY <2>5 DEF PrefixAt
        <4> QED BY <1>4, <2>8, <4>1, <4>2
      <3>2. c < x + 4
        BY <1>2, <1>5, <2>2
      <3> QED BY <3>1, <3>2
    <2> QED BY <1>1, <1>5, <2>2, <2>7, <2>8
  <1>6. CASE k = n
    <2>1. ~misfit
      <3>1. ASSUME misfit PROVE q[n].kind = "misfit" /\ n # 0
        <4>1. n # 0
          BY <1>1, <1>2, <3>1 DEF Sent
        <4>2. n \in 1 .. Len(q)
          BY <1>1, <4>1
        <4> QED BY <1>1, <1>2, <3>1, <4>1, <4>2 DEF Sent
      <3> QED BY <1>2, <1>6, <3>1
    <2>2. Clean(s, a, l)
      BY <1>1, <1>2, <1>3, <1>6, <2>1 DEF LastNoise
    <2>3. ASSUME c + 1 - a >= 4, PrefixAt(s, c + 1 - 4) PROVE FALSE
      <3>1. PICK y \in Nat : y = c + 1 - 4 /\ a <= y /\ y + 4 <= l
        BY <1>1, <1>3, <2>3
      <3> QED BY <2>2, <2>3, <3>1 DEF Clean
    <2> QED BY <1>1, <1>4, <1>6, <2>3
  <1> QED BY <1>1, <1>2, <1>5, <1>6

LEMMA FindStep ==
  ASSUME NEW s \in Seq(Element), NEW q \in Seq(Item), NEW c \in Nat, NEW k \in Nat,
         PacketReaderAssumption, Story(s, q, c, k), FindPrefix
  PROVE  Telling'
  <1> DEFINE w == Newest(Append(m_prefix_buf, Head(wire)), PREFIX_SIZE)
  <1>1. /\ m_recv_step = 0 /\ Read(1) /\ wire # << >>
        /\ IF w = PREFIX
           THEN /\ m_recv_step' = 1
                /\ m_msg_buf' = PREFIX /\ m_prefix_buf' = << >>
           ELSE /\ m_prefix_buf' = w
                /\ UNCHANGED <<m_recv_step, m_msg_buf>>
        /\ received' = received
    BY DEF FindPrefix, Searching
  <1>2. UNCHANGED <<gap, good, misfit>>
    BY <1>1 DEF Read
  <1>3. /\ Unread(s, c) /\ Place(s, q, c, k)
        /\ Layout(s, q)' /\ Sent(q)' /\ LastNoise(s, q)'
    BY <1>2, SentKept DEF Story
  <1>4. c + 1 \in Nat /\ c + 1 <= Len(s) /\ Unread(s, c + 1)'
    <2>1. 1 \in Nat
      OBVIOUS
    <2> QED BY <1>1, <1>3, <2>1, TakeFromWire
  <1>5. Head(wire) = s[c + 1]
    <2>1. wire \in Seq(Element) /\ \A m \in 1 .. Len(wire) : wire[m] = s[c + m]
      BY <1>3 DEF Unread
    <2>2. Head(wire) = wire[1] /\ 1 \in 1 .. Len(wire)
      BY <1>1, <2>1
    <2> QED BY <2>1, <2>2
  <1>6. /\ k \in 0 .. Len(q) /\ End(q, k) \in Nat /\ End(q, k) <= c
        /\ IsNewest(m_prefix_buf, s, End(q, k), c)
    <2>1. k \in 0 .. Len(q)
      BY <1>3 DEF Place
    <2> QED BY <1>1, <1>3, <2>1, Ends DEF Place
  <1>7. IsNewest(w, s, End(q, k), c + 1)
    BY <1>4, <1>5, <1>6, NewestNext
  <1> HIDE DEF w
  <1>8. /\ w = PREFIX => k < Len(q) /\ c + 1 = q[k + 1].at + 4
        /\ w # PREFIX /\ k < Len(q) => c + 1 < q[k + 1].at + 4
    BY <1>1, <1>4, <1>7, FoundWhereSent
  <1>9. k <= Len(q) /\ received' = SubSeq(good', 1, Count(q, k)) /\ (k # 0 => q[k].kind = "packet")
    BY <1>1, <1>2, <1>3 DEF Place
  <1>10. Place(s, q, c + 1, k)'
    <2>1. CASE w = PREFIX
      BY <1>1, <1>8, <1>9, <2>1 DEF Place
    <2>2. CASE w # PREFIX
      <3>1. End(q, k) <= c + 1
        BY <1>6
      <3> QED BY <1>1, <1>7, <1>8, <1>9, <2>2, <3>1 DEF Place, End, Count
    <2> QED BY <2>1, <2>2
  <1>11. Story(s, q, c + 1, k)'
    BY <1>3, <1>4, <1>10 DEF Story
  <1> QED BY <1>4, <1>11, StoryTold

LEMMA HeaderStep ==
  ASSUME NEW s \in Seq(Element), NEW q \in Seq(Item), NEW c \in Nat, NEW k \in Nat,
         PacketReaderAssumption, Story(s, q, c, k), ReadHeader
  PROVE  Telling'
  <1>1. m_recv_step = 1 /\ Unread(s, c) /\ Place(s, q, c, k) /\ Layout(s, q) /\ Sent(q)
    BY DEF ReadHeader, Story
  <1>2. /\ k < Len(q) /\ m_prefix_buf = << >> /\ m_msg_buf = PREFIX
        /\ c = q[k + 1].at + 4 /\ received = SubSeq(good, 1, Count(q, k))
        /\ k # 0 => q[k].kind = "packet"
    BY <1>1 DEF Place
  <1>3. XPACKET_HEADER_SIZE - Len(m_msg_buf) = 1
    BY <1>2 DEF XPACKET_HEADER_SIZE, PREFIX_SIZE, PREFIX
  <1>4. /\ Read(1) /\ m_recv_step' = 2
        /\ m_msg_buf' = PREFIX \o SubSeq(wire, 1, 1)
        /\ m_prefix_buf' = << >> /\ received' = received
    BY <1>2, <1>3 DEF ReadHeader
  <1>5. UNCHANGED <<gap, good, misfit>>
    BY <1>4 DEF Read
  <1>6. /\ c + 1 \in Nat /\ c + 1 <= Len(s) /\ Unread(s, c + 1)'
        /\ SubSeq(wire, 1, 1) \in Seq(Element) /\ Len(SubSeq(wire, 1, 1)) = 1
        /\ \A m \in 1 .. 1 : SubSeq(wire, 1, 1)[m] = s[c + m]
    <2>1. PICK n \in Nat : n = 1
      OBVIOUS
    <2>2. Unread(s, c) /\ Read(n)
      BY <1>1, <1>4, <2>1
    <2>3. /\ c + n \in Nat /\ c + n <= Len(s) /\ Unread(s, c + n)'
          /\ SubSeq(wire, 1, n) \in Seq(Element) /\ Len(SubSeq(wire, 1, n)) = n
          /\ \A m \in 1 .. n : SubSeq(wire, 1, n)[m] = s[c + m]
      BY <2>2, TakeFromWire
    <2> QED BY <2>1, <2>3
  <1>7. k + 1 \in 1 .. Len(q)
    BY <1>2
  <1>8. PICK z \in Nat, x \in Nat : z = q[k + 1].els[5] /\ x = q[k + 1].at
    BY <1>1, <1>7, ItemElements
  <1>9. s[c + 1] = z
    <2>1. 5 \in 1 .. Len(q[k + 1].els)
      BY <1>1, <1>7, ItemElements
    <2>2. s[x + 5] = z
      BY <1>1, <1>7, <1>8, <2>1 DEF Layout, Written
    <2>3. c + 1 = x + 5
      BY <1>2, <1>8
    <2> QED BY <2>2, <2>3
  <1>10. SubSeq(wire, 1, 1) = <<z>>
    <2>1. z \in Element
      BY DEF Element
    <2>2. <<z>> \in Seq(Element) /\ Len(<<z>>) = 1 /\ <<z>>[1] = z
      BY <2>1
    <2>3. SubSeq(wire, 1, 1)[1] = z
      BY <1>6, <1>9
    <2>4. \A m \in 1 .. Len(SubSeq(wire, 1, 1)) : SubSeq(wire, 1, 1)[m] = <<z>>[m]
      BY <1>6, <2>2, <2>3
    <2> QED BY <1>6, <2>2, <2>4, SeqEqual
  <1>11. c + 1 = q[k + 1].at + 5 /\ m_msg_buf' = PREFIX \o <<q[k + 1].els[5]>>
    <2>1. c + 1 = q[k + 1].at + 5
      BY <1>2, <1>8
    <2>2. m_msg_buf' = PREFIX \o <<z>>
      BY <1>4, <1>10
    <2> QED BY <1>8, <2>1, <2>2, Zenon
  <1>12. Place(s, q, c + 1, k)'
    <2>1. m_recv_step' \in {0, 1, 2} /\ m_recv_step' # 0 /\ m_recv_step' # 1
      BY <1>4
    <2>2. k <= Len(q) /\ received' = SubSeq(good', 1, Count(q, k))
      BY <1>2, <1>4, <1>5
    <2> QED BY <1>2, <1>4, <1>11, <2>1, <2>2, Zenon DEF Place, Count
  <1>13. Layout(s, q)' /\ Sent(q)' /\ LastNoise(s, q)'
    BY <1>5, SentKept
  <1>14. Story(s, q, c + 1, k)'
    BY <1>6, <1>12, <1>13 DEF Story
  <1> QED BY <1>6, <1>14, StoryTold

\* What the reader does with the whole of a packet.
LEMMA WholePacket ==
  ASSUME PacketReaderAssumption, NEW body \in Bodies, NEW tail \in Tails
  PROVE  LET e == Elements(body, tail) IN
         /\ GoodTail(e) <=> tail = TAIL
         /\ BodyOf(e) = body
  <1> DEFINE e == Elements(body, tail)
  <1>1. /\ body \in Seq(Byte) /\ tail \in Seq(Byte) /\ Len(tail) = 2
        /\ e \in Seq(Element) /\ Len(e) = Len(body) + 7
        /\ \A n \in 1 .. Len(body) : e[n + 5] = body[n]
        /\ \A n \in 1 .. 2 : e[Len(body) + 5 + n] = tail[n]
    BY PacketElements
  <1> HIDE DEF e
  <1>2. PICK l \in Nat : l = Len(body)
    BY <1>1
  <1>3. e[l + 5 + 1] = tail[1] /\ e[l + 5 + 2] = tail[2]
    BY <1>1, <1>2
  <1>4. GoodTail(e) <=> tail[1] = "FE" /\ tail[2] = "FF"
    <2>1. l + 5 \in Nat /\ Len(e) = l + 5 + 2
      BY <1>1, <1>2
    <2>2. e \in Seq(Element)
      BY <1>1
    <2>3. GoodTail(e) <=> e[l + 5 + 1] = "FE" /\ e[l + 5 + 2] = "FF"
      BY <2>1, <2>2, TailFound
    <2> QED BY <1>3, <2>3
  <1>5. tail = TAIL <=> tail[1] = "FE" /\ tail[2] = "FF"
    <2>1. TAIL[1] = "FE" /\ TAIL[2] = "FF" /\ Len(TAIL) = 2
      BY DEF TAIL
    <2>2. ASSUME tail[1] = "FE", tail[2] = "FF" PROVE tail = TAIL
      <3>1. "FE" \in Byte \cup {"FE", "FF"} /\ "FF" \in Byte \cup {"FE", "FF"}
        OBVIOUS
      <3>2. TAIL \in Seq(Byte \cup {"FE", "FF"})
        BY <3>1 DEF TAIL
      <3>3. tail \in Seq(Byte \cup {"FE", "FF"})
        BY <1>1, SeqMonotonic
      <3>4. \A n \in 1 .. Len(tail) : tail[n] = TAIL[n]
        BY <1>1, <2>1, <2>2
      <3>5. Len(tail) = Len(TAIL)
        BY <1>1, <2>1
      <3> QED BY <3>2, <3>3, <3>4, <3>5, SeqEqual
    <2> QED BY <2>1, <2>2
  <1>6. BodyOf(e) = body
    <2>1. BodyOf(e) = SubSeq(e, 6, l + 5)
      <3>1. XPACKET_HEADER_SIZE + 1 = 6 /\ XPACKET_TAIL_SIZE = 2
        BY DEF XPACKET_HEADER_SIZE, PREFIX_SIZE, PREFIX,
               XPACKET_TAIL_SIZE, TAIL
      <3>2. Len(e) - 2 = l + 5
        BY <1>1, <1>2
      <3> QED BY <3>1, <3>2 DEF BodyOf
    <2> DEFINE v == SubSeq(e, 6, l + 5)
    <2>2. PICK m \in Nat : m = l + 5
      OBVIOUS
    <2>3. \A n \in 6 .. m : e[n] \in Byte
      <3> SUFFICES ASSUME NEW n \in 6 .. m PROVE e[n] \in Byte
        OBVIOUS
      <3>1. PICK j \in 1 .. l : j = n - 5 /\ j + 5 = n
        <4>1. n - 5 \in 1 .. l /\ n - 5 + 5 = n
          BY <2>2
        <4> QED BY <4>1
      <3>2. e[j + 5] = body[j]
        BY <1>1, <1>2
      <3>3. body[j] \in Byte
        BY <1>1, <1>2, ElementOfSeq
      <3> QED BY <3>1, <3>2, <3>3
    <2>4. /\ SubSeq(e, 6, m) \in Seq(Byte)
          /\ Len(SubSeq(e, 6, m)) = (IF 6 <= m THEN m - 6 + 1 ELSE 0)
          /\ \A n \in 1 .. m - 6 + 1 : SubSeq(e, 6, m)[n] = e[6 + n - 1]
      BY <2>3, SubSeqProperties
    <2>5. (IF 6 <= m THEN m - 6 + 1 ELSE 0) = l /\ m - 6 + 1 = l
      BY <2>2
    <2>6. v \in Seq(Byte) /\ Len(v) = l /\ \A n \in 1 .. l : v[n] = e[6 + n - 1]
      BY <2>2, <2>4, <2>5
    <2> HIDE DEF v
    <2>7. ASSUME NEW n \in 1 .. l PROVE v[n] = body[n]
      <3>1. 6 + n - 1 = n + 5
        OBVIOUS
      <3>2. e[n + 5] = body[n]
        BY <1>1, <1>2
      <3> QED BY <2>6, <3>1, <3>2
    <2>8. v = body
      BY <1>1, <1>2, <2>6, <2>7, SeqEqual
    <2> QED BY <2>1, <2>8 DEF v
  <1> QED BY <1>4, <1>5, <1>6 DEF e

LEMMA BodyStep ==
  ASSUME NEW s \in Seq(Element), NEW q \in Seq(Item), NEW c \in Nat, NEW k \in Nat,
         PacketReaderAssumption, Story(s, q, c, k), ReadBody
  PROVE  Telling'
  <1>1. m_recv_step = 2 /\ Unread(s, c) /\ Place(s, q, c, k) /\ Layout(s, q) /\ Sent(q)
    BY DEF ReadBody, Story
  <1>2. PICK p \in 1 .. Len(q) : p = k + 1 /\ p - 1 = k
    <2>1. k + 1 \in 1 .. Len(q) /\ k + 1 - 1 = k
      BY <1>1 DEF Place
    <2> QED BY <2>1
  <1>3. /\ m_prefix_buf = << >> /\ m_msg_buf = PREFIX \o <<q[p].els[5]>>
        /\ c = q[p].at + 5 /\ received = SubSeq(good, 1, Count(q, k))
    <2>1. received = SubSeq(good, 1, Count(q, k)) /\ m_prefix_buf = << >>
      BY <1>1 DEF Place
    <2>2. m_msg_buf = PREFIX \o <<q[k + 1].els[5]>> /\ c = q[k + 1].at + 5
      BY <1>1 DEF Place
    <2> QED BY <1>2, <2>1, <2>2
  <1>4. PICK z \in Nat, x \in Nat : z = q[p].els[5] /\ x = q[p].at
    BY <1>1, ItemElements
  <1>5. /\ m_msg_buf \in Seq(Element) /\ Len(m_msg_buf) = 5 /\ m_msg_buf[5] = z
        /\ \A n \in 1 .. 4 : m_msg_buf[n] = PREFIX[n]
    <2>1. m_msg_buf = PREFIX \o <<z>>
      BY <1>3, <1>4, Zenon
    <2> QED BY <2>1, HeaderElements
  <1>6. remain_packet_size = z - 5 /\ ~Misfit(z)
    <2>1. XPACKET_HEADER_SIZE = 5
      BY DEF XPACKET_HEADER_SIZE, PREFIX_SIZE, PREFIX
    <2>2. h_packet_size = z
      BY <1>5, <2>1 DEF h_packet_size
    <2>3. ~Misfit(z)
      BY <2>2 DEF ReadBody
    <2>4. z <= RECV_BUF_LEN /\ RECV_BUF_LEN \in Nat /\ WORD \in Nat /\ 2 * RECV_BUF_LEN < WORD
      BY <2>3 DEF Misfit, PacketReaderAssumption
    <2>5. 2 * (z - 5) < WORD
      BY <2>4
    <2>6. h_packet_size - Len(m_msg_buf) = z - 5
      BY <1>5, <2>2
    <2> QED BY <2>3, <2>5, <2>6 DEF remain_packet_size
  <1>7. q[p].kind # "misfit"
    <2>1. z \notin Misfits
      BY <1>6 DEF PacketReaderAssumption
    <2> QED BY <1>1, <1>4, <2>1, ItemElements
  <1>8. PICK body \in Bodies, tail \in Tails :
          /\ body = q[p].body /\ tail = q[p].tail /\ q[p].kind = "packet"
          /\ q[p].els = Elements(body, tail)
    BY <1>1, <1>7, ItemElements
  <1>9. PICK l \in Nat, e \in Seq(Element) :
          /\ l = Len(body) /\ e = Elements(body, tail) /\ Len(e) = l + 7 /\ e[5] = l + 7
          /\ \A n \in 1 .. 4 : e[n] = PREFIX[n]
    <2>1. /\ Elements(body, tail) \in Seq(Element) /\ Len(Elements(body, tail)) = Len(body) + 7
          /\ Elements(body, tail)[5] = Len(body) + 7 /\ body \in Seq(Byte)
          /\ \A n \in 1 .. 4 : Elements(body, tail)[n] = PREFIX[n]
      BY PacketElements
    <2>2. Len(body) \in Nat
      BY <2>1
    <2> QED BY <2>1, <2>2
  <1>10. q[p].els = e /\ z = l + 7
    BY <1>4, <1>8, <1>9
  <1>11. PICK d \in Nat : d = l + 2 /\ d = remain_packet_size
    <2>1. l + 2 \in Nat /\ z - 5 = l + 2
      BY <1>10
    <2> QED BY <1>6, <2>1
  <1> DEFINE tk == SubSeq(wire, 1, d)
  <1>12. /\ Read(d)
         /\ received' = IF GoodTail(m_msg_buf \o tk)
                        THEN Append(received, BodyOf(m_msg_buf \o tk)) ELSE received
         /\ m_recv_step' = 0 /\ m_prefix_buf' = << >>
    BY <1>3, <1>11 DEF ReadBody
  <1>13. UNCHANGED <<gap, good, misfit>>
    BY <1>12 DEF Read
  <1>14. /\ c + d \in Nat /\ c + d <= Len(s) /\ Unread(s, c + d)'
         /\ tk \in Seq(Element) /\ Len(tk) = d
         /\ \A m \in 1 .. d : tk[m] = s[c + m]
    <2>1. Unread(s, c) /\ Read(d) /\ d \in Nat
      BY <1>1, <1>11, <1>12
    <2>2. c + d \in Nat /\ c + d <= Len(s) /\ Unread(s, c + d)'
      BY <2>1, TakeFromWire
    <2>3. tk \in Seq(Element) /\ Len(tk) = d
      BY <2>1, TakeFromWire
    <2>4. \A m \in 1 .. d : tk[m] = s[c + m]
      BY <2>1, TakeFromWire
    <2> QED BY <2>2, <2>3, <2>4
  <1> HIDE DEF tk
  <1> DEFINE msg == m_msg_buf \o tk
  <1>15. /\ msg \in Seq(Element) /\ Len(msg) = Len(m_msg_buf) + Len(tk)
         /\ \A n \in 1 .. Len(m_msg_buf) + Len(tk) :
              msg[n] = IF n <= Len(m_msg_buf) THEN m_msg_buf[n] ELSE tk[n - Len(m_msg_buf)]
    <2>1. m_msg_buf \in Seq(Element) /\ tk \in Seq(Element)
      BY <1>5, <1>14
    <2>2. PICK h \in Seq(Element), u \in Seq(Element) : h = m_msg_buf /\ u = tk
      BY <2>1
    <2>3. /\ h \o u \in Seq(Element) /\ Len(h \o u) = Len(h) + Len(u)
          /\ \A n \in 1 .. Len(h) + Len(u) :
               (h \o u)[n] = IF n <= Len(h) THEN h[n] ELSE u[n - Len(h)]
      BY ConcatProperties
    <2> QED BY <2>2, <2>3
  <1> HIDE DEF msg
  <1>16. Len(msg) = l + 7 /\ \A n \in 1 .. l + 7 : msg[n] = IF n <= 5 THEN m_msg_buf[n] ELSE tk[n - 5]
    <2>1. Len(m_msg_buf) = 5 /\ Len(m_msg_buf) + Len(tk) = l + 7
      BY <1>5, <1>11, <1>14
    <2> QED BY <1>15, <2>1
  <1>17. ASSUME NEW n \in 1 .. l + 7 PROVE msg[n] = e[n]
    <2>1. CASE n <= 4
      <3>1. n \in 1 .. 4 /\ n <= 5
        BY <2>1
      <3> QED BY <1>5, <1>9, <1>16, <3>1
    <2>2. CASE n = 5
      BY <1>5, <1>9, <1>10, <1>16, <2>2
    <2>3. CASE n > 5
      <3>1. PICK m \in 1 .. d : m = n - 5 /\ c + m = x + n
        <4>1. c = x + 5
          BY <1>3, <1>4
        <4>2. n - 5 \in 1 .. d /\ c + (n - 5) = x + n
          BY <1>11, <2>3, <4>1
        <4> QED BY <4>2
      <3>2. msg[n] = tk[m]
        BY <1>16, <2>3, <3>1
      <3>3. tk[m] = s[x + n]
        BY <1>14, <3>1
      <3>4. s[x + n] = e[n]
        <4>1. Written(s, q[p])
          BY <1>1 DEF Layout
        <4> QED BY <1>4, <1>9, <1>10, <4>1 DEF Written
      <3> QED BY <3>2, <3>3, <3>4
    <2> QED BY <2>1, <2>2, <2>3
  <1>18. msg = Elements(body, tail)
    BY <1>9, <1>15, <1>16, <1>17, SeqEqual
  <1>19. received' = IF tail = TAIL THEN Append(received, body) ELSE received
    BY <1>12, <1>18, WholePacket DEF msg
  <1>20. received' = SubSeq(good, 1, Count(q, p))
    <2>1. PICK g \in Nat, h \in Nat : g = Count(q, k) /\ h = Count(q, p) /\ h = q[p].count
      <3>1. k \in 0 .. Len(q) /\ p \in 0 .. Len(q) /\ p # 0
        BY <1>2
      <3>2. Count(q, k) \in Nat /\ Count(q, p) \in Nat
        BY <3>1, Ends
      <3> QED BY <3>1, <3>2 DEF Count
    <2>2. /\ good \in Seq(Seq(Byte)) /\ q[p].count <= Len(good)
          /\ IF q[p].kind = "packet" /\ q[p].tail = TAIL
             THEN q[p].count = Count(q, p - 1) + 1 /\ good[q[p].count] = q[p].body
             ELSE q[p].count = Count(q, p - 1)
      BY <1>1 DEF Sent
    <2>3. CASE tail = TAIL
      <3>1. h = g + 1 /\ good[h] = body /\ h <= Len(good)
        BY <1>2, <1>8, <2>1, <2>2, <2>3
      <3>2. SubSeq(good, 1, h) = SubSeq(good, 1, h - 1) \o <<good[h]>>
        <4>1. 1 \in 1 .. Len(good) /\ h \in 1 .. Len(good)
          BY <2>2, <3>1
        <4> QED BY <2>2, <4>1, SubSeqRecursiveSecond
      <3>3. h - 1 = g /\ SubSeq(good, 1, g) = received
        <4>1. h - 1 = g
          BY <3>1
        <4>2. received = SubSeq(good, 1, Count(q, k))
          BY <1>3
        <4> QED BY <2>1, <4>1, <4>2
      <3>4. received \in Seq(Seq(Byte)) /\ body \in Seq(Byte)
        <4>1. \A j \in 1 .. g : good[j] \in Seq(Byte)
          <5> SUFFICES ASSUME NEW j \in 1 .. g PROVE good[j] \in Seq(Byte)
            OBVIOUS
          <5>1. j \in 1 .. Len(good)
            BY <2>2, <3>1
          <5> QED BY <2>2, <5>1, ElementOfSeq
        <4>2. SubSeq(good, 1, g) \in Seq(Seq(Byte))
          BY <4>1, SubSeqProperties
        <4> QED BY <3>3, <4>2, PacketElements
      <3>5. Append(received, body) = received \o <<body>>
        BY <3>4, AppendIsConcat
      <3> QED BY <1>19, <2>1, <2>3, <3>1, <3>2, <3>3, <3>5
    <2>4. CASE tail # TAIL
      <3>1. h = g
        BY <1>2, <1>8, <2>1, <2>2, <2>4
      <3> QED BY <1>3, <1>19, <2>1, <2>4, <3>1
    <2> QED BY <2>3, <2>4
  <1>21. End(q, p) = c + d
    <2>1. p # 0 /\ Len(q[p].els) = l + 7 /\ q[p].at = x /\ c = x + 5
      BY <1>3, <1>4, <1>9, <1>10
    <2>2. c + d = x + (l + 7)
      BY <1>11, <2>1
    <2> QED BY <2>1, <2>2 DEF End
  <1>22. Place(s, q, c + d, p)'
    <2>1. p < Len(q) => c + d < q[p + 1].at + 4
      <3> SUFFICES ASSUME p < Len(q) PROVE c + d < q[p + 1].at + 4
        OBVIOUS
      <3>1. PICK v \in 1 .. Len(q) : v = p + 1 /\ v - 1 = p
        OBVIOUS
      <3>2. End(q, v - 1) <= q[v].at
        BY <1>1 DEF Layout
      <3>3. PICK y \in Nat : y = q[p + 1].at
        <4>1. q[v].at \in Nat
          BY <1>1, ItemElements
        <4> QED BY <3>1, <4>1
      <3>4. c + d <= y
        BY <1>21, <3>1, <3>2, <3>3
      <3>5. c + d < y + 4
        BY <3>4
      <3> QED BY <3>3, <3>5
    <2>2. IsNewest(m_prefix_buf', s, c + d, c + d)
      BY <1>12, <1>14, NothingNewest
    <2>3. p <= Len(q) /\ q[p].kind = "packet" /\ c + d <= c + d
      BY <1>8, <1>14
    <2>4. received' = SubSeq(good', 1, Count(q, p))
      BY <1>13, <1>20
    <2>5. m_recv_step' = 0 /\ m_recv_step' \in {0, 1, 2} /\ m_recv_step' # 1 /\ m_recv_step' # 2
      BY <1>12
    <2>6. End(q, p) <= c + d /\ IsNewest(m_prefix_buf', s, End(q, p), c + d)
      BY <1>21, <2>2, <2>3
    <2> QED BY <2>1, <2>3, <2>4, <2>5, <2>6, Zenon DEF Place, End, Count
  <1>23. Layout(s, q)' /\ Sent(q)' /\ LastNoise(s, q)'
    BY <1>13, SentKept
  <1>24. Story(s, q, c + d, p)'
    BY <1>14, <1>22, <1>23 DEF Story
  <1>25. p \in Nat
    OBVIOUS
  <1> QED BY <1>14, <1>24, <1>25, StoryTold

\* Only a misfit is undefined, and it stays so.
LEMMA UndefinedStep ==
  ASSUME undefined \in BOOLEAN, [ReaderNext]_(reader_vars)
  PROVE  undefined' = undefined \/ (undefined' = TRUE /\ ReadMisfit)
  <1>1. ASSUME NEW b \in Noise, SendNoise(b) PROVE undefined' = undefined
    BY <1>1 DEF SendNoise, reader
  <1>2. ASSUME NEW els, Send(els) PROVE undefined' = undefined
    BY <1>2 DEF Send, reader
  <1>3. ASSUME NEW body \in Bodies, NEW tail \in Tails, SendPacket(body, tail)
        PROVE  undefined' = undefined
    BY <1>2, <1>3 DEF SendPacket
  <1>4. ASSUME NEW size \in Misfits, SendMisfit(size) PROVE undefined' = undefined
    BY <1>2, <1>4 DEF SendMisfit
  <1>5. CASE HangUp
    BY <1>5 DEF HangUp, reader
  <1>6. CASE FindPrefix
    BY <1>6 DEF FindPrefix, Searching
  <1>7. CASE ReadHeader
    BY <1>7 DEF ReadHeader
  <1>8. CASE ReadBody
    BY <1>8 DEF ReadBody
  <1>9. CASE ReadMisfit
    BY <1>9 DEF ReadMisfit
  <1>10. CASE ReadFails
    BY <1>10 DEF ReadFails, reader
  <1>11. CASE UNCHANGED reader_vars
    BY <1>11 DEF reader_vars, reader
  <1> QED BY <1>1, <1>3, <1>4, <1>5, <1>6, <1>7, <1>8, <1>9, <1>10, <1>11
          DEF ReaderNext, Proc

\* Every other step continues the story.
LEMMA TellingNext ==
  ASSUME PacketReaderAssumption, Telling, [ReaderNext]_(reader_vars)
  PROVE  ReadMisfit \/ Telling'
  <1>1. PICK s \in Seq(Element), q \in Seq(Item), c \in Nat, k \in Nat : Story(s, q, c, k)
    BY DEF Telling
  <1>2. ASSUME UNCHANGED <<wire, gap, good, misfit, m_recv_step, m_prefix_buf, m_msg_buf, received>>
        PROVE  Telling'
    <2>1. Layout(s, q)' /\ Sent(q)' /\ LastNoise(s, q)'
      BY <1>1, <1>2, SentKept
    <2>2. Unread(s, c)' /\ Place(s, q, c, k)'
      BY <1>1, <1>2 DEF Story, Unread, Place, End, Count
    <2>3. Story(s, q, c, k)'
      BY <2>1, <2>2 DEF Story
    <2> QED BY <2>3, StoryTold
  <1>3. ASSUME NEW b \in Noise, SendNoise(b) PROVE Telling'
    BY <1>1, <1>3, NoiseStep
  <1>4. ASSUME NEW body \in Bodies, NEW tail \in Tails, SendPacket(body, tail)
        PROVE  Telling'
    BY <1>1, <1>4, SendPacketStep
  <1>5. ASSUME NEW size \in Misfits, SendMisfit(size) PROVE Telling'
    BY <1>1, <1>5, SendMisfitStep
  <1>6. CASE HangUp
    BY <1>2, <1>6 DEF HangUp, peer, reader
  <1>7. CASE FindPrefix
    BY <1>1, <1>7, FindStep
  <1>8. CASE ReadHeader
    BY <1>1, <1>8, HeaderStep
  <1>9. CASE ReadBody
    BY <1>1, <1>9, BodyStep
  <1>10. CASE ReadFails
    BY <1>2, <1>10 DEF ReadFails, peer, reader
  <1>11. CASE UNCHANGED reader_vars
    BY <1>2, <1>11 DEF reader_vars, peer, reader
  <1> QED BY <1>3, <1>4, <1>5, <1>6, <1>7, <1>8, <1>9, <1>10, <1>11
          DEF ReaderNext, Proc

LEMMA ReaderInvNext ==
  ASSUME PacketReaderAssumption, ReaderInv, [ReaderNext]_(reader_vars)
  PROVE  ReaderInv'
  <1>1. undefined \in BOOLEAN /\ (~undefined => Telling)
    BY DEF ReaderInv
  <1>2. undefined' = undefined \/ (undefined' = TRUE /\ ReadMisfit)
    BY <1>1, UndefinedStep
  <1>3. CASE undefined
    BY <1>1, <1>2, <1>3 DEF ReaderInv
  <1>4. CASE ~undefined
    <2>1. ReadMisfit \/ Telling'
      BY <1>1, <1>4, TellingNext
    <2>2. CASE ReadMisfit
      BY <2>2 DEF ReaderInv, ReadMisfit
    <2> QED BY <1>1, <1>2, <2>1, <2>2 DEF ReaderInv
  <1> QED BY <1>3, <1>4

\* What is received are the good packets, whole and in order, whatever their
\* bodies, however often a part of a prefix is in the noise between them,
\* however many packets have a bad tail, and whatever sizes other headers
\* announce, until the reader has copied one that is not a packet's: less than
\* a header and a tail, or more than m_msg_buf (agent_client.cpp:230-315).
THEOREM ReceivedInOrderTheorem ==
  ASSUME PacketReaderAssumption
  PROVE  ReaderSpec => []ReceivedInOrder
  <1>1. ReaderInv => ReceivedInOrder
    <2> SUFFICES ASSUME ReaderInv, ~undefined PROVE IsPrefix(received, good)
      BY DEF ReceivedInOrder
    <2>1. PICK s \in Seq(Element), q \in Seq(Item), c \in Nat, k \in Nat : Story(s, q, c, k)
      BY DEF ReaderInv, Telling
    <2>2. /\ k \in 0 .. Len(q) /\ received = SubSeq(good, 1, Count(q, k))
          /\ good \in Seq(Seq(Byte))
      BY <2>1 DEF Story, Place, Sent
    <2>3. PICK g \in Nat : g = Count(q, k) /\ g <= Len(good)
      <3>1. Count(q, k) \in Nat
        BY <2>2, Ends
      <3>2. Count(q, k) <= Len(good)
        <4>1. CASE k = 0
          BY <2>2, <4>1 DEF Count
        <4>2. CASE k # 0
          BY <2>1, <2>2, <4>2 DEF Story, Sent, Count
        <4> QED BY <4>1, <4>2
      <3> QED BY <3>1, <3>2
    <2>4. Len(received) = g
      <3>1. \A j \in 1 .. g : good[j] \in Seq(Byte)
        <4> SUFFICES ASSUME NEW j \in 1 .. g PROVE good[j] \in Seq(Byte)
          OBVIOUS
        <4>1. j \in 1 .. Len(good)
          BY <2>2, <2>3
        <4> QED BY <2>2, <4>1, ElementOfSeq
      <3>2. Len(SubSeq(good, 1, g)) = IF 1 <= g THEN g - 1 + 1 ELSE 0
        BY <3>1, SubSeqProperties
      <3>3. (IF 1 <= g THEN g - 1 + 1 ELSE 0) = g
        OBVIOUS
      <3> QED BY <2>2, <2>3, <3>2, <3>3
    <2>5. SubSeq(received, 1, Len(received)) = received
      <3>1. received \in Seq(Seq(Byte))
        <4>1. \A j \in 1 .. g : good[j] \in Seq(Byte)
          <5> SUFFICES ASSUME NEW j \in 1 .. g PROVE good[j] \in Seq(Byte)
            OBVIOUS
          <5>1. j \in 1 .. Len(good)
            BY <2>2, <2>3
          <5> QED BY <2>2, <5>1, ElementOfSeq
        <4>2. SubSeq(good, 1, g) \in Seq(Seq(Byte))
          BY <4>1, SubSeqProperties
        <4> QED BY <2>2, <2>3, <4>2
      <3> QED BY <3>1, SubSeqFull
    <2>6. SubSeq(received, 1, Len(received)) = SubSeq(good, 1, Len(received))
      BY <2>2, <2>3, <2>4, <2>5
    <2> QED BY <2>3, <2>4, <2>6 DEF IsPrefix
  <1>2. ReaderInit => ReaderInv
    BY ReaderInvInit
  <1>3. ReaderInv /\ [ReaderNext]_(reader_vars) => ReaderInv'
    BY ReaderInvNext
  <1> QED BY <1>1, <1>2, <1>3, PTL DEF ReaderSpec
=============================================================================
