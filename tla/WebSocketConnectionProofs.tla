----------------------- MODULE WebSocketConnectionProofs -----------------------
(***************************************************************************)
(* For any number of frames and packets: the connection implements the     *)
(* safety part of the contract of its handlers, and event_manager's list   *)
(* agrees with the library's state.  Both follow from one invariant that   *)
(* ties the handlers called so far to m_state and to the place where the   *)
(* handler thread is.  A second invariant, about the write flag, the frames *)
(* of the outstanding write and all frames written, shows that there is one *)
(* write at a time and that a terminal frame is the last one written.  The *)
(* third speaks of the wire, what is sent followed by what is queued: only *)
(* the frame that Proc holds between its two locks can follow a close      *)
(* frame.                                                                  *)
(***************************************************************************)
EXTENDS WebSocketConnection, TLAPS, SequenceTheorems, WellFoundedInduction

Up == m_state \in {"open", "closing"}

Domains ==
  /\ m_state \in {"connecting", "open", "closing", "closed"}
  /\ io \in {"idle", "on_open", "frames", "on_close"}

\* The chain of operations against m_state: a connection that is connecting
\* has not finished the handshake, and one that is closed waits for nothing.
Stage ==
  /\ Up => m_internal_state = "PROCESS_CONNECTION"
  /\ m_state = "connecting" => m_internal_state # "PROCESS_CONNECTION"
  /\ m_state = "closed" => ~pending

\* The handlers called against m_state.
Called ==
  /\ m_state = "connecting" => io = "idle" /\ calls = <<>> /\ web_connections = {}
  /\ io = "on_open" => m_state = "open" /\ calls = <<>> /\ web_connections = {}
  /\ io = "frames" => Up
  /\ Up /\ io # "on_open" => calls = <<"open">> /\ web_connections = {"con"}
  /\ io = "on_close" =>
       m_state = "closed" /\ calls = <<"open">> /\ web_connections = {"con"}
  /\ m_state = "closed" /\ io = "idle" => web_connections = {}

Inv == Domains /\ Stage /\ Called

\* terminate, called where the handler thread may call it, leaves the
\* connection closed, with its close handler owed if it had been opened.
LEMMA TerminatePreserves ==
  ASSUME Inv, io \in {"idle", "frames"}, Terminate, m_state # "closed" \/ io = "idle",
         web_connections' = web_connections
  PROVE  Inv'
  <1>1. m_state' = "closed" /\ pending' = FALSE
    BY DEF Terminate, TerminateFrom
  <1>2. CASE m_state = "connecting"
    BY <1>1, <1>2 DEF Terminate, TerminateFrom, Inv, Domains, Stage, Called, Up
  <1>3. CASE m_state # "connecting"
    BY <1>1, <1>3 DEF Terminate, TerminateFrom, Inv, Domains, Stage, Called, Up
  <1> QED BY <1>2, <1>3

LEMMA InvInit == Init => Inv
  BY DEF Init, Inv, Domains, Stage, Called, Up

\* What the invariant speaks of.
watched == <<m_state, m_internal_state, pending, io, calls, web_connections>>

LEMMA Frame == Inv /\ UNCHANGED watched => Inv'
  BY DEF watched, Inv, Domains, Stage, Called, Up

LEMMA InvNext == Inv /\ [Next]_vars => Inv'
  <1> SUFFICES ASSUME Inv, [Next]_vars PROVE Inv'
    OBVIOUS
  <1> USE DEF state, timers, output, manager
  <1>1. CASE handle_transport_init
    BY <1>1 DEF handle_transport_init, Handling, Goto, Inv, Domains, Stage, Called, Up
  <1>2. CASE handle_read_handshake
    BY <1>2 DEF handle_read_handshake, process_handshake_request, Handling, Goto, Inv, Domains, Stage, Called, Up
  <1>3. CASE handle_send_http_request
    BY <1>3 DEF handle_send_http_request, Handling, Goto, Inv, Domains, Stage, Called, Up
  <1>4. CASE handle_write_http_response \/ handle_read_http_response
    <2>1. m_state = "connecting" /\ io = "idle" /\ web_connections' = web_connections
      BY <1>4 DEF handle_write_http_response, handle_read_http_response, OpenOrFail, Handling, Inv, Domains, Stage, Called, Up
    <2>2. CASE answer = "accept"
      BY <1>4, <2>1, <2>2 DEF handle_write_http_response, handle_read_http_response, OpenOrFail,
                         Inv, Domains, Stage, Called, Up
    <2>3. CASE answer # "accept"
      <3>1. Terminate
        BY <1>4, <2>3 DEF handle_write_http_response, handle_read_http_response, OpenOrFail
      <3> QED BY <2>1, <3>1, TerminatePreserves
    <2> QED BY <2>2, <2>3
  <1>5. CASE on_open
    <2>1. calls = <<>>
      BY <1>5 DEF on_open, Inv, Called
    <2>2. calls' = <<"open">>
      BY <1>5, <2>1 DEF on_open
    <2> QED BY <1>5, <2>2 DEF on_open, Inv, Domains, Stage, Called, Up
  <1>6. CASE on_close
    BY <1>6 DEF on_close, Inv, Domains, Stage, Called, Up
  <1>7. CASE handle_read_frame \/ read_frame
    BY <1>7 DEF handle_read_frame, read_frame, Handling, Inv, Domains, Stage, Called, Up
  <1>8. CASE DataOrPong \/ Ping
    BY <1>8, Frame DEF DataOrPong, Ping, Consume, WritePush, watched
  <1>9. ASSUME NEW v \in BOOLEAN, CloseFrame(v) PROVE Inv'
    <2>1. io = "frames" /\ web_connections' = web_connections
      BY <1>9 DEF CloseFrame, Consume
    <2>2. CASE send_close_frame(TRUE, m_is_server) /\ UNCHANGED <<pending, io, calls>>
      BY <2>1, <2>2 DEF send_close_frame, Closing, Inv, Domains, Stage, Called, Up
    <2>3. CASE Terminate
      <3>1. m_state # "closed"
        BY <2>1 DEF Inv, Called, Up
      <3> QED BY <2>1, <2>3, <3>1, TerminatePreserves
    <2>4. CASE UNCHANGED <<m_state, m_internal_state, pending, io, calls>>
      BY <2>1, <2>4, Frame DEF watched
    <2> QED BY <1>9, <2>2, <2>3, <2>4 DEF CloseFrame
  <1>10. ASSUME NEW b \in BOOLEAN, ProtocolError(b) PROVE Inv'
    <2>1. io = "frames" /\ web_connections' = web_connections
      BY <1>10 DEF ProtocolError, Consume
    <2>2. CASE m_state = "open"
      BY <1>10, <2>1, <2>2
      DEF ProtocolError, send_close_frame, Closing, Inv, Domains, Stage, Called, Up
    <2>3. CASE m_state # "open"
      <3>1. Terminate /\ m_state # "closed"
        BY <1>10, <2>1, <2>3 DEF ProtocolError, Inv, Called, Up
      <3> QED BY <2>1, <3>1, TerminatePreserves
    <2> QED BY <2>2, <2>3
  <1>11. CASE ReadFails
    <2>1. io = "idle" /\ Terminate /\ web_connections' = web_connections
      BY <1>11 DEF ReadFails, Handling, Fails
    <2> QED BY <2>1, TerminatePreserves
  <1>12. ASSUME NEW i, HandshakeError(i) PROVE Inv'
    <2>1. io = "idle" /\ Terminate /\ web_connections' = web_connections
      BY <1>12 DEF HandshakeError, Handling, Fails
    <2> QED BY <2>1, TerminatePreserves
  <1>13. CASE write_frame
    BY <1>13, Frame DEF write_frame, WriteFrame, watched
  <1>14. ASSUME NEW e \in BOOLEAN, handle_write_frame(e) PROVE Inv'
    <2>1. io = "idle" /\ web_connections' = web_connections
      BY <1>14 DEF handle_write_frame
    <2>2. Terminate \/ UNCHANGED watched
      BY <1>14 DEF handle_write_frame, Fails, watched
    <2> QED BY <2>1, <2>2, TerminatePreserves, Frame
  <1>15. CASE TimerExpires
    BY <1>15, Frame DEF TimerExpires, watched
  <1>16. CASE Timeout
    <2>1. io = "idle" /\ Terminate /\ web_connections' = web_connections
      BY <1>16 DEF Timeout, handle_handshake_timeout, Fails
    <2> QED BY <2>1, TerminatePreserves
  <1>17. CASE Proc
    BY <1>17, Frame
    DEF Proc, ProcLock, SendChecks, SendIf, SendPushes, WritePush, ProcUnlock, watched
  <1>18. CASE UNCHANGED vars
    BY <1>18, Frame DEF vars, watched
  <1> QED
    BY <1>1, <1>2, <1>3, <1>4, <1>5, <1>6, <1>7, <1>8, <1>9, <1>10, <1>11, <1>12,
       <1>13, <1>14, <1>15, <1>16, <1>17, <1>18
    DEF Next, Handshake, Frames

\* The invariant holds in every reachable state (connection_impl.hpp, the
\* order of m_state and the handlers).
THEOREM InvTheorem == Spec => []Inv
  BY InvInit, InvNext, PTL DEF Spec

\* Between two handlers event_manager lists exactly the connections that are
\* open or closing (event_manager.cpp:86-101).
THEOREM ListedIsConnectedTheorem == Spec => []ListedIsConnected
  <1>1. Inv => ListedIsConnected
    BY DEF Inv, Domains, Called, Up, ListedIsConnected
  <1> QED BY <1>1, InvTheorem, PTL

\* A handler is called only as the contract says.
LEMMA StepKeepsContract == Inv /\ [Next]_vars => [Promised!Next]_calls
  <1> SUFFICES ASSUME Inv, [Next]_vars, calls' # calls PROVE Promised!Next
    OBVIOUS
  <1> USE DEF state, timers, output, manager
  <1>1. CASE on_open
    <2>1. calls = <<>> /\ calls' = <<"open">>
      BY <1>1 DEF on_open, Inv, Called
    <2> QED BY <2>1 DEF Promised!Next, Promised!Answer
  <1>2. CASE on_close
    <2>1. calls = <<"open">> /\ calls' = Append(calls, "close")
      BY <1>2 DEF on_close, Inv, Called
    <2> QED BY <2>1 DEF Promised!Next, Promised!Close
  <1>3. CASE Terminate
    <2>1. m_state = "connecting"
      BY <1>3 DEF Terminate, TerminateFrom
    <2>2. calls = <<>>
      BY <2>1 DEF Inv, Called
    <2>3. calls' = <<"fail">>
      BY <1>3, <2>1, <2>2 DEF Terminate, TerminateFrom
    <2> QED BY <2>2, <2>3 DEF Promised!Next, Promised!Answer
  <1>4. on_open \/ on_close \/ Terminate
    <2>1. CASE Handshake
      BY <2>1 DEF Handshake, handle_transport_init, handle_read_handshake,
                  handle_send_http_request, handle_write_http_response,
                  handle_read_http_response, OpenOrFail, Goto
    <2>2. CASE Frames
      BY <2>2 DEF Frames, handle_read_frame, read_frame, DataOrPong, Ping, CloseFrame,
                  ProtocolError
    <2>3. CASE ReadFails \/ Timeout \/ \E i : HandshakeError(i)
      BY <2>3 DEF ReadFails, Timeout, handle_handshake_timeout, HandshakeError, Fails
    <2>4. CASE write_frame \/ \E e \in BOOLEAN : handle_write_frame(e)
      BY <2>4 DEF write_frame, WriteFrame, handle_write_frame, Fails
    <2>5. ~TimerExpires /\ ~Proc /\ ~UNCHANGED vars
      BY DEF TimerExpires, Proc, ProcLock, SendChecks, SendIf, SendPushes, ProcUnlock, vars
    <2> QED BY <2>1, <2>2, <2>3, <2>4, <2>5 DEF Next
  <1> QED BY <1>1, <1>2, <1>3, <1>4

\* The connection calls its handlers in the order the contract allows: the
\* attempt is answered once, close follows open, and nothing follows close
\* (connection.hpp:50-80).
THEOREM ContractTheorem == Spec => Promised!Init /\ [][Promised!Next]_calls
  <1>1. Init => Promised!Init
    BY DEF Init, Promised!Init
  <1> QED BY <1>1, StepKeepsContract, InvTheorem, PTL DEF Spec
-----------------------------------------------------------------------------

FrameKinds == {"data", "pong", "close", "last"}

Output ==
  /\ m_send_queue \in Seq(FrameKinds) /\ m_current_msgs \in Seq(FrameKinds)
  /\ sent \in Seq(FrameKinds)
  /\ m_write_flag \in BOOLEAN /\ writes \in {0, 1}

\* The flag is set while a write is out, and stays set after a terminal frame.
Flagged ==
  /\ ~m_write_flag => writes = 0 /\ m_current_msgs = <<>>
  /\ writes = 1 =>
       /\ m_current_msgs # <<>> /\ sent # <<>>
       /\ m_current_msgs[Len(m_current_msgs)] = sent[Len(sent)]
  /\ \A j \in DOMAIN sent : Terminal(sent[j]) => m_write_flag /\ j = Len(sent)

OutInv == Output /\ Flagged

\* A set of positions has a first one.
LEMMA FirstOf ==
  ASSUME NEW T \in SUBSET Nat, T # {}
  PROVE  \E i \in T : \A j \in T : i <= j
  <1> DEFINE R == {ss \in Nat \X Nat : ss[1] < ss[2]}
  <1>1. IsWellFoundedOn(R, Nat)
    BY NatLessThanWellFounded DEF OpToRel
  <1>2. \E x \in T : \A y \in T : ~(<<y, x>> \in R)
    BY <1>1, WFMin
  <1>3. \A x, y \in T : ~(<<y, x>> \in R) => x <= y
    OBVIOUS
  <1> QED BY <1>2, <1>3

\* write_frame takes something, and a terminal frame only as the last one.
LEMMA ReadyTakes ==
  ASSUME NEW q \in Seq(FrameKinds), q # <<>>
  PROVE  /\ Ready(q) \in Seq(FrameKinds) /\ Ready(q) # <<>>
         /\ Ready(q) = SubSeq(q, 1, Len(Ready(q)))
         /\ Len(Ready(q)) \in 1 .. Len(q)
         /\ \A i \in DOMAIN Ready(q) : Terminal(Ready(q)[i]) => i = Len(Ready(q))
  <1> DEFINE ends == {i \in DOMAIN q : Terminal(q[i])}
             n == IF ends = {} THEN Len(q)
                  ELSE CHOOSE i \in ends : \A j \in ends : i <= j
  <1>1. n \in 1 .. Len(q) /\ \A i \in 1 .. n : Terminal(q[i]) => i = n
    <2>1. CASE ends = {}
      BY <2>1
    <2>2. CASE ends # {}
      <3>1. \E i \in ends : \A j \in ends : i <= j
        <4>1. ends \in SUBSET Nat
          OBVIOUS
        <4> HIDE DEF ends
        <4> QED BY <2>2, <4>1, FirstOf
      <3>2. n \in ends /\ \A j \in ends : n <= j
        BY <2>2, <3>1
      <3> QED BY <3>2
    <2> QED BY <2>1, <2>2
  <1>2. Ready(q) = SubSeq(q, 1, n)
    BY DEF Ready
  <1> HIDE DEF n
  <1>3. \A i \in 1 .. n : q[i] \in FrameKinds
    BY <1>1
  <1>4. /\ SubSeq(q, 1, n) \in Seq(FrameKinds) /\ Len(SubSeq(q, 1, n)) = n
        /\ \A i \in 1 .. n : SubSeq(q, 1, n)[i] = q[i]
    BY <1>1, <1>3, SubSeqProperties, Z3
  <1> QED BY <1>1, <1>2, <1>4

LEMMA OutInvInit == Init => OutInv
  <1> SUFFICES ASSUME Init PROVE OutInv
    OBVIOUS
  <1>0. m_write_flag \in BOOLEAN
    BY DEF Init
  <1>1. Output
    <2>1. m_send_queue = <<>> /\ m_current_msgs = <<>> /\ sent = <<>> /\ writes = 0
      BY DEF Init
    <2>2. <<>> \in Seq(FrameKinds)
      OBVIOUS
    <2> QED BY <1>0, <2>1, <2>2 DEF Output
  <1>2. DOMAIN sent = {} /\ writes = 0 /\ m_current_msgs = <<>>
    BY DEF Init
  <1>3. Flagged
    BY <1>2 DEF Flagged
  <1> QED BY <1>1, <1>3 DEF OutInv

\* What the second invariant speaks of, but for the queue.
written == <<m_write_flag, m_current_msgs, writes, sent>>

LEMMA PushPreserves ==
  ASSUME NEW f \in FrameKinds, OutInv, WritePush(f)
  PROVE  OutInv'
  <1>0. UNCHANGED written /\ m_send_queue' = Append(m_send_queue, f)
    BY DEF WritePush, written
  <1>1. UNCHANGED written /\ m_send_queue' \in Seq(FrameKinds)
    BY <1>0, AppendProperties DEF OutInv, Output
  <1>2. Output'
    BY <1>1 DEF OutInv, Output, written
  <1>3. Flagged'
    BY <1>1 DEF OutInv, Flagged, written
  <1> QED BY <1>2, <1>3 DEF OutInv

LEMMA OutFrame ==
  ASSUME OutInv, m_send_queue' = m_send_queue, UNCHANGED written
  PROVE  OutInv'
  BY DEF OutInv, Output, Flagged, written

\* terminate forgets the outstanding write and leaves the flag as it was.
LEMMA StopPreserves ==
  ASSUME OutInv, writes' = 0,
         UNCHANGED <<m_send_queue, m_write_flag, m_current_msgs, sent>>
  PROVE  OutInv'
  BY DEF OutInv, Output, Flagged

LEMMA WriteFramePreserves == OutInv /\ write_frame => OutInv'
  <1> SUFFICES ASSUME OutInv, write_frame PROVE OutInv'
    OBVIOUS
  <1> DEFINE ready == Ready(m_send_queue)
  <1>1. CASE m_write_flag \/ m_send_queue = <<>>
    BY <1>1, OutFrame DEF write_frame, WriteFrame, written
  <1>2. CASE ~(m_write_flag \/ m_send_queue = <<>>)
    <2>1. /\ ready \in Seq(FrameKinds) /\ ready # <<>>
          /\ Len(ready) \in 1 .. Len(m_send_queue)
          /\ \A i \in DOMAIN ready : Terminal(ready[i]) => i = Len(ready)
      BY <1>2, ReadyTakes DEF OutInv, Output
    <2>2. /\ m_send_queue' = SubSeq(m_send_queue, Len(ready) + 1, Len(m_send_queue))
          /\ m_write_flag' = TRUE
          /\ IF m_state = "closed"
               THEN UNCHANGED <<m_current_msgs, writes, sent>>
               ELSE /\ m_current_msgs' = m_current_msgs \o ready
                    /\ writes' = writes + 1
                    /\ sent' = sent \o m_current_msgs \o ready
      BY <1>2 DEF write_frame, WriteFrame
    <2>3. writes = 0 /\ m_current_msgs = <<>> /\ sent \in Seq(FrameKinds)
          /\ \A j \in DOMAIN sent : ~Terminal(sent[j])
      BY <1>2 DEF OutInv, Output, Flagged
    <2>4. m_send_queue' \in Seq(FrameKinds)
      <3>1. \A i \in Len(ready) + 1 .. Len(m_send_queue) : m_send_queue[i] \in FrameKinds
        BY <2>1 DEF OutInv, Output
      <3> QED BY <2>1, <2>2, <3>1, SubSeqProperties DEF OutInv, Output
    <2> HIDE DEF ready
    <2>5. CASE m_state = "closed"
      BY <2>2, <2>3, <2>4, <2>5 DEF OutInv, Output, Flagged
    <2>6. CASE m_state # "closed"
      <3>1. m_current_msgs' = ready /\ sent' = sent \o ready /\ writes' = 1
        BY <2>1, <2>2, <2>3, <2>6
      <3>2. /\ sent' \in Seq(FrameKinds) /\ Len(sent') = Len(sent) + Len(ready)
            /\ \A j \in 1 .. Len(sent) : sent'[j] = sent[j]
            /\ \A j \in 1 .. Len(ready) : sent'[Len(sent) + j] = ready[j]
        BY <2>1, <2>3, <3>1
      <3>3. \A j \in DOMAIN sent' : Terminal(sent'[j]) => j = Len(sent')
        <4> SUFFICES ASSUME NEW j \in 1 .. Len(sent'), Terminal(sent'[j])
                     PROVE  j = Len(sent')
          BY <3>2
        <4>1. j > Len(sent)
          BY <2>3, <3>2
        <4>2. Len(sent) \in Nat /\ Len(ready) \in Nat
          BY <2>1, <2>3
        <4>3. j - Len(sent) \in 1 .. Len(ready) /\ j = Len(sent) + (j - Len(sent))
          BY <3>2, <4>1, <4>2
        <4>4. Terminal(ready[j - Len(sent)])
          BY <3>2, <4>3
        <4>5. j - Len(sent) = Len(ready)
          BY <2>1, <4>3, <4>4
        <4> QED BY <3>2, <4>2, <4>5
      <3>4. sent' # <<>> /\ sent'[Len(sent')] = ready[Len(ready)]
        BY <2>1, <2>3, <3>2
      <3> QED BY <2>1, <2>2, <2>4, <3>1, <3>2, <3>3, <3>4 DEF OutInv, Output, Flagged
    <2> QED BY <2>5, <2>6
  <1> QED BY <1>1, <1>2

LEMMA WrittenPreserves ==
  ASSUME NEW e \in BOOLEAN, OutInv, handle_write_frame(e)
  PROVE  OutInv'
  <1>1. writes = 1 /\ m_write_flag /\ m_current_msgs' = <<>>
        /\ UNCHANGED <<m_send_queue, sent>>
    BY DEF OutInv, Output, Flagged, handle_write_frame
  <1>2. CASE e \/ Terminal(m_current_msgs[Len(m_current_msgs)])
    <2>1. writes' = 0 /\ m_write_flag' = m_write_flag
      BY <1>2 DEF handle_write_frame, Fails, Terminate, TerminateFrom
    <2> QED BY <1>1, <2>1 DEF OutInv, Output, Flagged
  <1>3. CASE ~(e \/ Terminal(m_current_msgs[Len(m_current_msgs)]))
    <2>1. writes' = 0 /\ m_write_flag' = FALSE
      BY <1>1, <1>3 DEF handle_write_frame
    <2>2. \A j \in DOMAIN sent : ~Terminal(sent[j])
      BY <1>1, <1>3 DEF OutInv, Output, Flagged
    <2>3. Output'
      <3>1. m_write_flag' \in BOOLEAN
        BY <2>1
      <3>2. <<>> \in Seq(FrameKinds)
        OBVIOUS
      <3> QED BY <1>1, <2>1, <3>1, <3>2 DEF OutInv, Output
    <2>4. Flagged'
      BY <1>1, <2>1, <2>2 DEF Flagged
    <2> QED BY <2>3, <2>4 DEF OutInv
  <1> QED BY <1>2, <1>3

LEMMA OutInvNext == OutInv /\ [Next]_vars => OutInv'
  <1> SUFFICES ASSUME OutInv, [Next]_vars PROVE OutInv'
    OBVIOUS
  <1> USE DEF state, timers, output, manager
  <1>1. CASE write_frame
    BY <1>1, WriteFramePreserves
  <1>2. CASE \E e \in BOOLEAN : handle_write_frame(e)
    BY <1>2, WrittenPreserves
  <1>3. CASE \E f \in FrameKinds : WritePush(f)
    BY <1>3, PushPreserves
  <1>4. CASE m_send_queue' = m_send_queue /\ UNCHANGED written
    BY <1>4, OutFrame
  <1>5. CASE writes' = 0 /\ UNCHANGED <<m_send_queue, m_write_flag, m_current_msgs, sent>>
    BY <1>5, StopPreserves
  <1>6. CASE Handshake
    BY <1>4, <1>5, <1>6
    DEF Handshake, handle_transport_init, handle_read_handshake, handle_send_http_request,
        handle_write_http_response, handle_read_http_response, OpenOrFail, Goto, Terminate, TerminateFrom, written
  <1>7. CASE on_open \/ on_close
    BY <1>4, <1>7 DEF on_open, on_close, written
  <1>a. ASSUME NEW a \in BOOLEAN, NEW t, send_close_frame(a, t) PROVE OutInv'
    <2>1. WritePush("last") \/ WritePush("close")
      BY <1>a DEF send_close_frame, Closing
    <2>2. "last" \in FrameKinds /\ "close" \in FrameKinds
      BY DEF FrameKinds
    <2> QED BY <1>3, <2>1, <2>2
  <1>8. CASE handle_read_frame \/ read_frame \/ DataOrPong \/ Ping
    <2>1. CASE Ping
      <3>1. WritePush("pong")
        BY <2>1 DEF Ping
      <3>2. "pong" \in FrameKinds
        BY DEF FrameKinds
      <3> QED BY <1>3, <3>1, <3>2
    <2>2. CASE handle_read_frame \/ read_frame \/ DataOrPong
      BY <1>4, <2>2 DEF handle_read_frame, read_frame, DataOrPong, written
    <2> QED BY <1>8, <2>1, <2>2
  <1>9. ASSUME NEW v \in BOOLEAN, CloseFrame(v) PROVE OutInv'
    <2>1. CASE send_close_frame(TRUE, m_is_server)
      BY <1>a, <2>1
    <2>2. CASE ~send_close_frame(TRUE, m_is_server)
      BY <1>4, <1>5, <1>9, <2>2 DEF CloseFrame, Terminate, TerminateFrom, written
    <2> QED BY <2>1, <2>2
  <1>10. ASSUME NEW b \in BOOLEAN, ProtocolError(b) PROVE OutInv'
    <2>1. CASE send_close_frame(FALSE, ~b)
      BY <1>a, <2>1
    <2>2. CASE ~send_close_frame(FALSE, ~b)
      BY <1>5, <1>10, <2>2 DEF ProtocolError, Terminate, TerminateFrom
    <2> QED BY <2>1, <2>2
  <1>11. CASE ReadFails \/ Timeout \/ \E i : HandshakeError(i)
    BY <1>5, <1>11
    DEF ReadFails, Timeout, handle_handshake_timeout, HandshakeError, Fails, Terminate,
        TerminateFrom
  <1>12. CASE TimerExpires \/ UNCHANGED vars
    BY <1>4, <1>12 DEF TimerExpires, vars, written
  <1>13. CASE Proc
    <2>1. CASE SendPushes
      <3>1. WritePush("data")
        BY <2>1 DEF SendPushes
      <3>2. "data" \in FrameKinds
        BY DEF FrameKinds
      <3> QED BY <1>3, <3>1, <3>2
    <2>2. CASE ProcLock \/ SendChecks \/ ProcUnlock
      BY <1>4, <2>2 DEF ProcLock, SendChecks, SendIf, ProcUnlock, written
    <2> QED BY <1>13, <2>1, <2>2 DEF Proc
  <1> QED
    BY <1>1, <1>2, <1>6, <1>7, <1>8, <1>9, <1>10, <1>11, <1>12, <1>13 DEF Next, Frames

\* Never two writes at once, and the frames of a write are kept until it is
\* called back (connection_impl.hpp:1750-1885).
THEOREM OneWriteTheorem == Spec => []OneWrite
  <1>1. OutInv => OneWrite
    BY DEF OutInv, Output, Flagged, OneWrite
  <1> QED BY <1>1, OutInvInit, OutInvNext, PTL DEF Spec

\* Nothing follows a terminal frame on the wire (connection_impl.hpp:1764-1774).
THEOREM NothingAfterTerminalTheorem == Spec => []NothingAfterTerminal
  <1>1. OutInv => NothingAfterTerminal
    BY DEF OutInv, Output, Flagged, NothingAfterTerminal
  <1> QED BY <1>1, OutInvInit, OutInvNext, PTL DEF Spec
-----------------------------------------------------------------------------

\* All frames in the order in which they are or will be written.
wire == sent \o m_send_queue

NoClose(s) == \A j \in DOMAIN s : s[j] # "close"
NoneLate(s) == \A j, k \in DOMAIN s : s[j] = "close" /\ j < k => s[k] # "data"
OneLate(s) ==
  \A j, k, l \in DOMAIN s :
    s[j] = "close" /\ j < k /\ k < l => s[k] # "data" \/ s[l] # "data"

\* No frame is late while the connection is open; Proc, caught between its two
\* locks, is the one that can be late, and only with the frame it holds.  Once
\* the connection is closed nothing more is written.
LateInv ==
  /\ OneLate(sent)
  /\ m_state # "closed" =>
       /\ OneLate(wire)
       /\ proc = "push" => NoneLate(wire)
       /\ m_state # "closing" => NoClose(wire)

\* An element appended to a sequence.
LEMMA Appended ==
  ASSUME NEW s \in Seq(FrameKinds), NEW f \in FrameKinds
  PROVE  /\ NoClose(s) /\ f # "close" => NoClose(Append(s, f))
         /\ NoneLate(s) /\ f # "data" => NoneLate(Append(s, f))
         /\ OneLate(s) /\ f # "data" => OneLate(Append(s, f))
         /\ NoneLate(s) => OneLate(Append(s, f))
         /\ NoClose(s) => NoneLate(s)
         /\ NoneLate(s) => OneLate(s)
  <1>1. PICK n \in Nat : n = Len(s)
    OBVIOUS
  <1>2. PICK t : t = Append(s, f)
    OBVIOUS
  <1>3. /\ DOMAIN s = 1 .. n /\ DOMAIN t = 1 .. n + 1
        /\ t[n + 1] = f /\ \A j \in 1 .. n : t[j] = s[j]
    BY <1>1, <1>2, AppendProperties
  <1>4. \A j \in 1 .. n + 1 : j \in 1 .. n \/ j = n + 1
    OBVIOUS
  <1>5. NoClose(s) /\ f # "close" => NoClose(t)
    BY <1>3, <1>4 DEF NoClose
  <1>6. NoneLate(s) /\ f # "data" => NoneLate(t)
    BY <1>3, <1>4 DEF NoneLate
  <1>7. OneLate(s) /\ f # "data" => OneLate(t)
    BY <1>3, <1>4 DEF OneLate
  <1>8. NoneLate(s) => OneLate(t)
    BY <1>3, <1>4 DEF OneLate, NoneLate
  <1>9. (NoClose(s) => NoneLate(s)) /\ (NoneLate(s) => OneLate(s))
    BY DEF OneLate, NoneLate, NoClose
  <1> QED BY <1>2, <1>5, <1>6, <1>7, <1>8, <1>9

\* The sent part of the wire is a prefix of it.
LEMMA SentLate ==
  ASSUME NEW s \in Seq(FrameKinds), NEW q \in Seq(FrameKinds), OneLate(s \o q)
  PROVE  OneLate(s)
  <1>1. PICK t : t = s \o q
    OBVIOUS
  <1>2. \A j \in DOMAIN s : j \in DOMAIN t /\ t[j] = s[j]
    BY <1>1, ConcatProperties
  <1> QED BY <1>1, <1>2 DEF OneLate

\* What write_frame takes comes off the front of the queue.
LEMMA ReadySplits ==
  ASSUME NEW q \in Seq(FrameKinds), q # <<>>
  PROVE  Ready(q) \o SubSeq(q, Len(Ready(q)) + 1, Len(q)) = q
  <1>1. PICK n \in Nat, k \in Nat : n = Len(q) /\ k = Len(Ready(q))
    BY ReadyTakes
  <1>2. k \in 1 .. n /\ Ready(q) = SubSeq(q, 1, k)
    BY <1>1, ReadyTakes
  <1>3. SubSeq(q, 1, k) \o SubSeq(q, k + 1, n) = SubSeq(q, 1, n)
    <2>1. 1 \in 1 .. Len(q) + 1 /\ k \in 0 .. Len(q) /\ n \in k .. Len(q)
      BY <1>1, <1>2
    <2> QED BY <2>1, ConcatAdjacentSubSeq
  <1>4. SubSeq(q, 1, n) = q
    BY <1>1, SubSeqFull
  <1> QED BY <1>1, <1>2, <1>3, <1>4

LEMMA LateInvInit == Init => LateInv
  <1> SUFFICES ASSUME Init PROVE LateInv
    OBVIOUS
  <1>1. sent = <<>> /\ m_send_queue = <<>> /\ m_state = "connecting" /\ proc = "pop"
    BY DEF Init
  <1>2. wire = <<>>
    <2>1. <<>> \o <<>> = <<>>
      OBVIOUS
    <2> QED BY <1>1, <2>1 DEF wire
  <1>3. NoClose(<<>>) /\ OneLate(<<>>)
    BY DEF OneLate, NoClose
  <1>4. OneLate(sent) /\ OneLate(wire) /\ NoClose(wire)
    BY <1>1, <1>2, <1>3
  <1> QED BY <1>1, <1>4 DEF LateInv

\* The connection is closed: what is left in the queue does not matter.
LEMMA LateClosed ==
  ASSUME LateInv, m_state' = "closed", sent' = sent
  PROVE  LateInv'
  BY DEF LateInv, OneLate

\* Proc leaves the place between its locks, or the state is left as it was.
LEMMA LateElsewhere ==
  ASSUME LateInv, UNCHANGED <<sent, m_send_queue>>, proc' = proc \/ proc' # "push",
         m_state' = m_state \/ (m_state = "connecting" /\ m_state' = "open")
  PROVE  LateInv'
  BY DEF LateInv, wire, OneLate, NoneLate, NoClose

\* A frame is queued behind all others.
LEMMA WireGrows ==
  ASSUME NEW f \in FrameKinds, OutInv, WritePush(f)
  PROVE  wire \in Seq(FrameKinds) /\ wire' = Append(wire, f) /\ sent' = sent
  <1>1. sent \in Seq(FrameKinds) /\ m_send_queue \in Seq(FrameKinds)
    BY DEF OutInv, Output
  <1>2. sent' = sent /\ m_send_queue' = Append(m_send_queue, f)
    BY DEF WritePush
  <1>3. sent \o Append(m_send_queue, f) = Append(sent \o m_send_queue, f)
    BY <1>1
  <1> QED BY <1>1, <1>2, <1>3, ConcatProperties DEF wire

LEMMA LatePush ==
  ASSUME NEW f \in FrameKinds, OutInv, LateInv, WritePush(f),
         \/ f # "data" /\ f # "close" /\ UNCHANGED <<m_state, proc>>
         \/ f # "data" /\ m_state' = "closing" /\ proc' = proc /\ m_state # "closed"
         \/ f = "data" /\ m_state' = m_state /\ proc = "push" /\ proc' # "push"
  PROVE  LateInv'
  <1>1. wire \in Seq(FrameKinds) /\ wire' = Append(wire, f) /\ sent' = sent
    BY WireGrows
  <1>2. /\ NoClose(wire) /\ f # "close" => NoClose(wire')
        /\ NoneLate(wire) /\ f # "data" => NoneLate(wire')
        /\ OneLate(wire) /\ f # "data" => OneLate(wire')
        /\ NoneLate(wire) => OneLate(wire')
        /\ NoClose(wire) => NoneLate(wire)
    BY <1>1, Appended, Zenon
  <1>3. OneLate(sent')
    BY <1>1 DEF LateInv
  <1> QED BY <1>2, <1>3 DEF LateInv

\* write_frame moves frames from the queue to the transport, or drops them.
LEMMA LateWrite ==
  ASSUME OutInv, LateInv, write_frame
  PROVE  LateInv'
  <1>1. m_state' = m_state /\ proc' = proc
    BY DEF write_frame, WriteFrame, state, manager
  <1>2. CASE m_write_flag \/ m_send_queue = <<>>
    <2>1. m_send_queue' = m_send_queue /\ sent' = sent
      BY <1>2 DEF write_frame, WriteFrame
    <2> QED BY <1>1, <2>1, LateElsewhere
  <1>3. CASE ~(m_write_flag \/ m_send_queue = <<>>)
    <2>1. CASE m_state = "closed"
      <3>1. sent' = sent
        BY <1>3, <2>1 DEF write_frame, WriteFrame
      <3> QED BY <1>1, <2>1, <3>1, LateClosed
    <2>2. CASE m_state # "closed"
      <3>1. PICK r : r = Ready(m_send_queue)
        OBVIOUS
      <3>2. /\ m_send_queue' = SubSeq(m_send_queue, Len(r) + 1, Len(m_send_queue))
            /\ sent' = sent \o m_current_msgs \o r
        BY <1>3, <2>2, <3>1 DEF write_frame, WriteFrame
      <3>3. /\ m_current_msgs = <<>> /\ sent \in Seq(FrameKinds)
            /\ m_send_queue \in Seq(FrameKinds) /\ r \in Seq(FrameKinds)
        BY <1>3, <3>1, ReadyTakes DEF OutInv, Output, Flagged
      <3>4. sent' = sent \o r
        BY <3>2, <3>3, ConcatEmptySeq
      <3>5. m_send_queue' \in Seq(FrameKinds)
        BY WriteFramePreserves DEF OutInv, Output
      <3>6. r \o m_send_queue' = m_send_queue
        BY <1>3, <3>1, <3>2, <3>3, ReadySplits
      <3>7. wire' = wire
        <4>1. (sent \o r) \o m_send_queue' = sent \o (r \o m_send_queue')
          BY <3>3, <3>5, ConcatAssociative
        <4> QED BY <3>4, <3>6, <4>1 DEF wire
      <3>8. OneLate(wire)
        BY <2>2 DEF LateInv
      <3>9. OneLate(sent')
        <4>1. sent' \in Seq(FrameKinds) /\ sent' \o m_send_queue' = wire
          BY <3>3, <3>4, <3>7, ConcatProperties DEF wire
        <4> QED BY <3>5, <3>8, <4>1, SentLate
      <3> QED BY <1>1, <2>2, <3>7, <3>9 DEF LateInv
    <2> QED BY <2>1, <2>2
  <1> QED BY <1>2, <1>3

LEMMA LateInvNext == Inv /\ OutInv /\ LateInv /\ [Next]_vars => LateInv'
  <1> SUFFICES ASSUME Inv, OutInv, LateInv, [Next]_vars PROVE LateInv'
    OBVIOUS
  <1> USE DEF state, timers, output, manager
  <1>1. CASE write_frame
    BY <1>1, LateWrite
  <1>2. CASE UNCHANGED <<sent, m_send_queue, m_state, proc>>
    BY <1>2, LateElsewhere
  <1>3. ASSUME Terminate, sent' = sent PROVE LateInv'
    BY <1>3, LateClosed DEF Terminate, TerminateFrom
  <1>4. ASSUME NEW a, NEW t, send_close_frame(a, t), proc' = proc, m_state # "closed"
        PROVE  LateInv'
    <2>1. m_state' = "closing" /\ (WritePush("last") \/ WritePush("close"))
      BY <1>4 DEF send_close_frame, Closing
    <2>2. "last" \in FrameKinds /\ "close" \in FrameKinds
      BY DEF FrameKinds
    <2> QED BY <1>4, <2>1, <2>2, LatePush
  <1>5. CASE \E e \in BOOLEAN : handle_write_frame(e)
    BY <1>2, <1>3, <1>5 DEF handle_write_frame, Fails
  <1>6. CASE Handshake
    <2>1. CASE handle_write_http_response \/ handle_read_http_response
      <3>1. OpenOrFail /\ m_state = "connecting"
        BY <2>1 DEF handle_write_http_response, handle_read_http_response, Handling,
                    Inv, Domains, Stage, Up
      <3>2. CASE answer = "accept"
        <4>1. UNCHANGED <<sent, m_send_queue, proc>> /\ m_state' = "open"
          BY <3>1, <3>2 DEF OpenOrFail
        <4> QED BY <3>1, <4>1, LateElsewhere
      <3>3. CASE answer # "accept"
        BY <1>3, <3>1, <3>3 DEF OpenOrFail
      <3> QED BY <3>2, <3>3
    <2>2. CASE handle_transport_init \/ handle_read_handshake \/ handle_send_http_request
      BY <1>2, <2>2
      DEF handle_transport_init, handle_read_handshake, handle_send_http_request, Goto
    <2> QED BY <1>6, <2>1, <2>2 DEF Handshake
  <1>7. CASE on_open \/ on_close \/ handle_read_frame \/ read_frame \/ DataOrPong
    BY <1>2, <1>7 DEF on_open, on_close, handle_read_frame, read_frame, DataOrPong
  <1>8. CASE Ping
    <2>1. WritePush("pong") /\ UNCHANGED <<m_state, proc>>
      BY <1>8 DEF Ping
    <2>2. "pong" \in FrameKinds
      BY DEF FrameKinds
    <2> QED BY <2>1, <2>2, LatePush
  <1>9. ASSUME NEW v \in BOOLEAN, CloseFrame(v) PROVE LateInv'
    <2>1. io = "frames" /\ proc' = proc
      BY <1>9 DEF CloseFrame, Consume
    <2>2. m_state # "closed"
      BY <2>1 DEF Inv, Called, Up
    <2>3. CASE send_close_frame(TRUE, m_is_server)
      BY <1>4, <2>1, <2>2, <2>3
    <2>4. CASE ~send_close_frame(TRUE, m_is_server)
      BY <1>2, <1>3, <1>9, <2>4 DEF CloseFrame
    <2> QED BY <2>3, <2>4
  <1>10. ASSUME NEW b \in BOOLEAN, ProtocolError(b) PROVE LateInv'
    <2>1. CASE m_state = "open"
      <3>1. send_close_frame(FALSE, ~b) /\ proc' = proc
        BY <1>10, <2>1 DEF ProtocolError
      <3> QED BY <1>4, <2>1, <3>1
    <2>2. CASE m_state # "open"
      BY <1>3, <1>10, <2>2 DEF ProtocolError
    <2> QED BY <2>1, <2>2
  <1>11. CASE ReadFails \/ Timeout \/ \E i : HandshakeError(i)
    BY <1>3, <1>11 DEF ReadFails, Timeout, handle_handshake_timeout, HandshakeError, Fails
  <1>12. CASE TimerExpires \/ UNCHANGED vars
    BY <1>2, <1>12 DEF TimerExpires, vars
  <1>13. CASE ProcLock \/ ProcUnlock
    <2>1. UNCHANGED <<sent, m_send_queue, m_state>> /\ proc' # "push"
      BY <1>13 DEF ProcLock, ProcUnlock
    <2> QED BY <2>1, LateElsewhere
  <1>14. CASE SendChecks
    <2>1. UNCHANGED <<sent, m_send_queue, m_state>>
      BY <1>14 DEF SendChecks, SendIf
    <2>2. CASE m_state = "open"
      BY <2>1, <2>2 DEF LateInv, wire, OneLate, NoneLate, NoClose
    <2>3. CASE m_state # "open"
      <3>1. proc' # "push"
        BY <1>14, <2>3 DEF SendChecks, SendIf
      <3> QED BY <2>1, <3>1, LateElsewhere
    <2> QED BY <2>2, <2>3
  <1>15. CASE SendPushes
    <2>1. WritePush("data") /\ m_state' = m_state /\ proc = "push" /\ proc' # "push"
      BY <1>15 DEF SendPushes
    <2>2. "data" \in FrameKinds
      BY DEF FrameKinds
    <2> QED BY <2>1, <2>2, LatePush
  <1> QED
    BY <1>1, <1>5, <1>6, <1>7, <1>8, <1>9, <1>10, <1>11, <1>12, <1>13, <1>14, <1>15
    DEF Next, Frames, Proc

\* At most one data frame follows a close frame on the wire: the one Proc held
\* when the closing handshake began (connection_impl.hpp:82-130).
THEOREM OneLateFrameTheorem == Spec => []OneLateFrame
  <1>1. LateInv => OneLateFrame
    BY DEF LateInv, OneLate, OneLateFrame
  <1> QED
    BY <1>1, LateInvInit, LateInvNext, InvTheorem, OutInvInit, OutInvNext, PTL DEF Spec
=============================================================================
