------------------------- MODULE WebSocketConnection -------------------------
(***************************************************************************)
(* One connection of the endpoint that event_manager and agent_websocket   *)
(* own, as a client or as a server, the thread that runs its handlers, and *)
(* event_manager's own thread, which sends to the connections that on_open *)
(* listed and on_close has not removed.                                    *)
(*                                                                         *)
(* The chain of asynchronous operations of a connection (initialise, read  *)
(* and write the handshake, read frames) has one operation at a time, and  *)
(* m_internal_state names it; pending says that it has been submitted.     *)
(* After terminate the transport has dropped its callbacks, so nothing     *)
(* that was submitted before is called back.                               *)
(***************************************************************************)
EXTENDS Naturals, Sequences

CONSTANTS MaxFrames,   \* bound: frames received
          MaxPackets   \* bound: packets event_manager sends

ASSUME BoundsAssumption == {MaxFrames, MaxPackets} \subseteq Nat

VARIABLES m_is_server, m_state, m_internal_state, pending, answer, m_was_clean,
          timer,          \* the armed timer m_handshake_timer refers to
          orphan,         \* a close timer runs that nothing refers to any more
          expired,        \* timers whose callback is queued: too late to cancel
          m_send_queue, m_write_flag, m_current_msgs,
          writes,         \* writes the transport has not called back
          posted,         \* write_frame calls posted to the thread
          sent,           \* frames handed to the transport
          io,             \* where the handler thread is
          web_connections, mutex, proc, packets, received,
          calls           \* handlers called: what the contract speaks of

state == <<m_is_server, m_state, m_internal_state, pending, answer, m_was_clean>>
timers == <<timer, orphan, expired>>
output == <<m_send_queue, m_write_flag, m_current_msgs, writes, posted, sent>>
manager == <<web_connections, mutex, proc, packets>>
vars == <<state, timers, output, manager, io, received, calls>>

Terminal(f) == f = "last"

Init ==
    /\ m_is_server \in BOOLEAN /\ m_state = "connecting"
    /\ m_internal_state = "TRANSPORT_INIT" /\ pending = TRUE
    /\ answer = "none" /\ m_was_clean = FALSE
    /\ timer = "off" /\ orphan = FALSE /\ expired = {}
    /\ m_send_queue = <<>> /\ m_write_flag = FALSE /\ m_current_msgs = <<>>
    /\ writes = 0 /\ posted = 0 /\ sent = <<>>
    /\ io = "idle" /\ received = 0 /\ calls = <<>>
    /\ web_connections = {} /\ mutex = "free" /\ proc = "pop" /\ packets = 0

(***************************************************************************)
(* terminate: cancel the timer, then fail, close, or do nothing when the   *)
(* connection is closed already; async_shutdown calls handle_terminate     *)
(* at once.  on_fail is empty; on_close waits for the mutex.               *)
(***************************************************************************)
TerminateFrom(closes) ==
    /\ timer' = "off" /\ UNCHANGED <<orphan, m_is_server, m_internal_state>>
    /\ m_state' = "closed" /\ pending' = FALSE /\ writes' = 0
    /\ calls' = IF m_state # "connecting" THEN calls
                ELSE Append(calls, "fail")
    /\ io' = IF m_state \in closes THEN "on_close" ELSE "idle"

\* Mutants: a connection that is closed already is closed again; one that was
\* closing is closed without its handler.
TerminateAgain == TerminateFrom({"open", "closing", "closed"})
TerminateSilently == TerminateFrom({"open"})

Terminate == TerminateFrom({"open", "closing"})

Fails == Terminate /\ UNCHANGED <<answer, m_was_clean, received>>

Arm(t) ==
    /\ timer' = t
    /\ orphan' = (orphan \/ timer # "off")
    /\ UNCHANGED expired

(***************************************************************************)
(* The handshake.                                                          *)
(***************************************************************************)
Handling(istate) == io = "idle" /\ pending /\ m_internal_state = istate

HandshakeError(istate) ==
    /\ Handling(istate) /\ Fails
    /\ UNCHANGED <<expired, m_send_queue, m_write_flag, m_current_msgs, posted,
                   sent, manager>>

Goto(istate) ==
    /\ m_internal_state' = istate
    /\ UNCHANGED <<m_is_server, m_state, pending, m_was_clean, io, received,
                   calls, output, manager>>

\* read_handshake and send_http_request arm the same timer
handle_transport_init ==
    /\ Handling("TRANSPORT_INIT")
    /\ Goto(IF m_is_server THEN "READ_HTTP_REQUEST" ELSE "WRITE_HTTP_REQUEST")
    /\ Arm("open") /\ UNCHANGED answer

\* a request that is none for a WebSocket is rejected as well: nobody has set
\* an http handler
process_handshake_request == answer' \in {"accept", "reject"}

\* a complete request, or a malformed one
handle_read_handshake ==
    /\ Handling("READ_HTTP_REQUEST")
    /\ Goto("PROCESS_HTTP_REQUEST")
    /\ process_handshake_request
    /\ UNCHANGED timers

handle_send_http_request ==
    /\ Handling("WRITE_HTTP_REQUEST")
    /\ Goto("READ_HTTP_RESPONSE")
    /\ answer' \in {"accept", "reject"}
    /\ UNCHANGED timers

\* the response is written, or read: cancel the timer, and open or give up
OpenOrFail ==
    /\ IF answer = "accept"
         THEN /\ m_internal_state' = "PROCESS_CONNECTION" /\ m_state' = "open"
              /\ io' = "on_open" /\ timer' = "off" /\ pending' = FALSE
              /\ UNCHANGED <<orphan, m_is_server, writes, calls>>
         ELSE Terminate
    /\ UNCHANGED <<answer, m_was_clean, received, expired, m_send_queue,
                   m_write_flag, m_current_msgs, posted, sent, manager>>

handle_write_http_response == Handling("PROCESS_HTTP_REQUEST") /\ OpenOrFail

handle_read_http_response == Handling("READ_HTTP_RESPONSE") /\ OpenOrFail

on_open ==
    /\ io = "on_open" /\ mutex = "free"
    /\ web_connections' = {"con"}
    /\ calls' = Append(calls, "open")
    /\ io' = "frames"          \* handle_read_frame, with what was read already
    /\ UNCHANGED <<state, timers, output, mutex, proc, packets, received>>

on_close ==
    /\ io = "on_close" /\ mutex = "free"
    /\ web_connections' = {}
    /\ calls' = Append(calls, "close")
    /\ io' = "idle"
    /\ UNCHANGED <<state, timers, output, mutex, proc, packets, received>>

(***************************************************************************)
(* Writing.  write_push under the write lock, and a post of write_frame    *)
(* when no write is outstanding.                                           *)
(***************************************************************************)
WritePush(f) ==
    /\ m_send_queue' = Append(m_send_queue, f)
    /\ posted' = IF m_write_flag THEN posted ELSE posted + 1
    /\ UNCHANGED <<m_write_flag, m_current_msgs, writes, sent>>

\* Mutant: the queue is taken beyond a terminal frame.
ReadyAll(q) == q

\* what write_frame takes: all of the queue, or up to the first terminal frame
Ready(q) ==
    LET ends == {i \in DOMAIN q : Terminal(q[i])}
        n == IF ends = {} THEN Len(q)
             ELSE CHOOSE i \in ends : \A j \in ends : i <= j
    IN  SubSeq(q, 1, n)

WriteFrame(busy) ==
    /\ io = "idle" /\ posted > 0
    /\ posted' = posted - 1
    /\ LET ready == Ready(m_send_queue)
       IN  IF busy \/ m_send_queue = <<>>
             THEN UNCHANGED <<m_send_queue, m_write_flag, m_current_msgs, writes, sent>>
             ELSE /\ m_send_queue' =
                         SubSeq(m_send_queue, Len(ready) + 1, Len(m_send_queue))
                  /\ m_write_flag' = TRUE
                  /\ IF m_state = "closed"     \* handle_write_frame with an error
                       THEN UNCHANGED <<m_current_msgs, writes, sent>>
                       ELSE /\ m_current_msgs' = m_current_msgs \o ready
                            /\ writes' = writes + 1
                            /\ sent' = sent \o m_current_msgs \o ready
    /\ UNCHANGED <<state, timers, io, manager, received, calls>>

\* Mutant: the write flag is not looked at.
WriteFrameAnyway == WriteFrame(FALSE)

write_frame == WriteFrame(m_write_flag)

handle_write_frame(error) ==
    /\ io = "idle" /\ writes > 0
    /\ m_current_msgs' = <<>>
    /\ IF error \/ Terminal(m_current_msgs[Len(m_current_msgs)])
         THEN Fails /\ UNCHANGED <<m_write_flag, posted>>
         ELSE /\ m_write_flag' = FALSE /\ writes' = writes - 1
              /\ posted' = IF m_send_queue = <<>> THEN posted ELSE posted + 1
              /\ UNCHANGED <<state, timer, orphan, io, received, calls>>
    /\ UNCHANGED <<expired, m_send_queue, sent, manager>>

(***************************************************************************)
(* Reading.  handle_read_frame consumes one frame after the other, and     *)
(* then reads again; after an error of the protocol it closes and does not *)
(* read again.                                                             *)
(***************************************************************************)
handle_read_frame ==
    /\ Handling("PROCESS_CONNECTION") /\ received < MaxFrames
    /\ io' = "frames" /\ pending' = FALSE
    /\ UNCHANGED <<m_is_server, m_state, m_internal_state, answer, m_was_clean,
                   timers, output, manager, received, calls>>

read_frame ==
    /\ io = "frames"
    /\ io' = "idle" /\ pending' = TRUE
    /\ UNCHANGED <<m_is_server, m_state, m_internal_state, answer, m_was_clean,
                   timers, output, manager, received, calls>>

Consume ==
    /\ io = "frames" /\ received < MaxFrames
    /\ received' = received + 1

Closing(ack, terminal) ==
    /\ WritePush(IF terminal THEN "last" ELSE "close")
    /\ m_state' = "closing"
    /\ m_was_clean' = (m_was_clean \/ ack)
    /\ UNCHANGED <<m_is_server, m_internal_state, answer>>

\* Mutant: no timer is armed for the answer.
CloseWithoutTimer(ack, terminal) == Closing(ack, terminal) /\ UNCHANGED timers

send_close_frame(ack, terminal) == Closing(ack, terminal) /\ Arm("close")

DataOrPong ==          \* on_message parses the text and forgets it
    Consume /\ UNCHANGED <<state, timers, output, manager, io, calls>>

Ping ==
    /\ Consume /\ m_state = "open"
    /\ WritePush("pong")
    /\ UNCHANGED <<state, timers, manager, io, calls>>

CloseFrame(valid) ==
    /\ Consume
    /\ \/ /\ ~valid \/ m_state = "open"
          /\ send_close_frame(TRUE, m_is_server)
          /\ UNCHANGED <<pending, io, calls>>
       \/ /\ valid /\ m_state = "closing" /\ ~m_was_clean
          /\ m_was_clean' = TRUE
          /\ IF m_is_server
               THEN Terminate
               ELSE UNCHANGED <<m_is_server, m_state, m_internal_state, pending,
                                timer, orphan, writes, io, calls>>
          /\ UNCHANGED <<answer, expired, m_send_queue, m_write_flag,
                         m_current_msgs, posted, sent>>
       \/ /\ valid /\ m_state = "closing" /\ m_was_clean        \* spurious
          /\ UNCHANGED <<state, timers, output, io, calls>>
    /\ UNCHANGED manager

\* close(): every code but the blank one is terminal
ProtocolError(blank) ==
    /\ Consume
    /\ IF m_state = "open"
         THEN /\ send_close_frame(FALSE, ~blank)
              /\ io' = "idle" /\ UNCHANGED <<pending, calls>>
         ELSE /\ Terminate
              /\ UNCHANGED <<answer, m_was_clean, expired, m_send_queue,
                             m_write_flag, m_current_msgs, posted, sent>>
    /\ UNCHANGED manager

\* end of file, or an error of the transport
ReadFails ==
    /\ Handling("PROCESS_CONNECTION") /\ Fails
    /\ UNCHANGED <<expired, m_send_queue, m_write_flag, m_current_msgs, posted,
                   sent, manager>>

(***************************************************************************)
(* Timers.                                                                 *)
(***************************************************************************)
TimerExpires ==
    /\ timer # "off" \/ orphan
    /\ \/ timer # "off" /\ timer' = "off" /\ expired' = expired \cup {timer}
          /\ UNCHANGED orphan
       \/ orphan /\ orphan' = FALSE /\ expired' = expired \cup {"close"}
          /\ UNCHANGED timer
    /\ UNCHANGED <<state, output, manager, io, received, calls>>

handle_handshake_timeout(t) ==
    /\ io = "idle" /\ t \in expired
    /\ expired' = expired \ {t}
    /\ Fails
    /\ UNCHANGED <<m_send_queue, m_write_flag, m_current_msgs, posted, sent, manager>>

(***************************************************************************)
(* event_manager::Proc: one packet, to every connection, under the mutex.  *)
(* send looks at m_state under one lock and queues under another.          *)
(***************************************************************************)
ProcLock ==
    /\ proc = "pop" /\ packets < MaxPackets /\ mutex = "free"
    /\ packets' = packets + 1 /\ mutex' = "proc"
    /\ proc' = IF web_connections = {} THEN "unlock" ELSE "send"
    /\ UNCHANGED <<state, timers, output, io, received, calls, web_connections>>

SendIf(open) ==
    /\ proc = "send"
    /\ proc' = IF open THEN "push" ELSE "unlock"
    /\ UNCHANGED <<state, timers, output, io, received, calls, web_connections,
                   mutex, packets>>

\* Mutant: send does not look at the state.
SendAnyway == SendIf(TRUE)

SendChecks == SendIf(m_state = "open")

SendPushes ==
    /\ proc = "push"
    /\ WritePush("data")
    /\ proc' = "unlock"
    /\ UNCHANGED <<state, timers, io, received, calls, web_connections, mutex, packets>>

ProcUnlock ==
    /\ proc = "unlock"
    /\ mutex' = "free" /\ proc' = "pop"
    /\ UNCHANGED <<state, timers, output, io, received, calls, web_connections, packets>>

Proc == ProcLock \/ SendChecks \/ SendPushes \/ ProcUnlock

Handshake ==
    \/ handle_transport_init \/ handle_read_handshake
    \/ handle_write_http_response
    \/ handle_send_http_request \/ handle_read_http_response

Timeout == \E t \in {"open", "close"} : handle_handshake_timeout(t)

Frames ==
    \/ handle_read_frame \/ read_frame \/ DataOrPong \/ Ping
    \/ \E v \in BOOLEAN : CloseFrame(v) \/ ProtocolError(v)

Next ==
    \/ Handshake \/ on_open \/ on_close \/ Frames \/ ReadFails
    \/ \E i \in {"TRANSPORT_INIT", "READ_HTTP_REQUEST", "WRITE_HTTP_REQUEST",
                 "PROCESS_HTTP_REQUEST", "READ_HTTP_RESPONSE"} : HandshakeError(i)
    \/ write_frame \/ \E e \in BOOLEAN : handle_write_frame(e)
    \/ TimerExpires \/ Timeout \/ Proc

-----------------------------------------------------------------------------

\* The two threads run and timers expire.  The peer owes nothing: no answer, no
\* acknowledgement, and it need not take what is written.  Only the connecting
\* and the post-initialisation of the transport, which have timers of their
\* own, are taken to end.
Spec == Init /\ [][Next]_vars
FairSpec ==
  /\ Spec
  /\ WF_vars(handle_transport_init) /\ WF_vars(on_open) /\ WF_vars(on_close)
  /\ WF_vars(read_frame) /\ WF_vars(TimerExpires) /\ SF_vars(Timeout)
  /\ WF_vars(Proc)

-----------------------------------------------------------------------------

\* The connection keeps the contract of its handlers (connection.hpp:50-80):
\* answered exactly once, and sooner or later; closed at most once, and only
\* when it was opened.
Promised == INSTANCE ConnectionContract
Contract == Promised!Spec

\* Between two handlers event_manager lists the connection exactly when the
\* library holds it open or closing: Proc never sends to a connection that is
\* gone for good, and no connection that could be sent to is missing.
ListedIsConnected ==
  io = "idle" => (web_connections # {} <=> m_state \in {"open", "closing"})

\* At most one write is with the transport, and its frames are kept until it
\* is called back (handle_write_frame looks at the last of them).
OneWrite == writes <= 1 /\ (writes = 1 => m_current_msgs # <<>>)

\* Nothing is written after a terminal frame.
NothingAfterTerminal ==
  \A j \in DOMAIN sent : Terminal(sent[j]) => j = Len(sent)

\* send looks at the state and queues under two locks: a close frame can come
\* between, but only one data frame can follow it.
OneLateFrame ==
  \A j, k, l \in DOMAIN sent :
    sent[j] = "close" /\ j < k /\ k < l => sent[k] # "data" \/ sent[l] # "data"

\* Once the closing handshake has begun the close handler is called, whatever
\* the peer does.
ClosingEnds == m_state = "closing" ~> calls = <<"open", "close">>
=============================================================================
