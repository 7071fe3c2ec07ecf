# TLA+ verification of HLDS_AGENT

HLDS_AGENT is a C++ agent that counts people with time-of-flight sensors. It
reads humans and depth frames from each sensor, counts who crosses the border
of an area, draws a picture, streams the pictures to TCP clients, and takes
commands from those clients. This directory holds TLA+ models of its core
logic, TLC configurations that check them on small instances, and proofs that
TLAPS checks for every value of the constants.

## The system

| Part | State | Operations | Who calls |
|---|---|---|---|
| `xthread` (Lib/xthread) | four unlocked flags and a thread handle | Start, Stop, destructor, the loop Run around a virtual Proc | every component below is an xthread |
| `hlds_agent` | one sensor, the humans it knows, counters, view angles | Proc: StatusInfo, poll, read, CatchHumans, CountHumans, DrawHumans, UpdateHLDSImage | its own thread, one per sensor |
| `agent_broker` | command boxes, device info, lists of agents and clients, the image slot | Set.../Get..., Add/Del, StreamHLDSClients | client, agent, manager, accept and stream threads |
| `agent_manager` | none of its own | Proc polls `m_device_manage_flag`, adds or deletes agents | its own thread |
| `accept_manager` | the listening socket | Proc accepts, makes a client, AddClient | its own thread |
| `agent_client` | socket, receive queue, send queue | Proc (receive), ComPacketProc (carry out), SendProc (send) | three threads per client |
| `stream_hlds` | none | Proc takes the current image and streams it | its own thread |
| `event_manager`, `agent_websocket` | a websocket endpoint each, `event_manager` also a list of connections and a packet queue | handlers on_open, on_close, on_message; Proc | own threads, and the threads that run the endpoints |
| `websocketpp::connection` (include/websocketpp) | the state of one connection: handshake, timers, send queue | asynchronous reads and writes, send, terminate | the endpoint's thread; send: any thread |
| `xpacket` (Lib/xpacket) | a buffer, a position, a header | Push*, Pop*, Pack, Split, Merge | clients, broker |
| `config`, `sha256`, `pidfile`, `stopwatch`, `logger` (Lib/common) | the key/value map of the configuration | readConfig, checkVal, getters | main at start |

Everything meets in the broker, which is passive: it has a thread whose Proc
does nothing, and its methods run on the threads of the callers. Threads share
its fields under many small mutexes, or under none. A command goes
client socket -> Proc -> `m_recv_q` -> ComPacketProc -> a box of the broker ->
StatusInfo of every running agent. A picture goes agent -> image slot ->
stream_hlds -> Split -> `m_send_q` of every client -> SendProc -> socket.

### What is hard

* **Flags without locks.** `xthread` (stop, detach, started), the broker's
  command flags and `m_device_manage_flag` are read and written by several
  threads; the order of two plain assignments decides correctness.
* **Failure in the middle.** SDK calls fail between two reads of one turn; a
  connection is lost while its socket is being written.
* **Early returns.** The broker's setters return with a mutex held if a packet
  is too short.
* **Limits.** Queues drop the oldest packet, a ring wraps, a slice counter is
  16 bits wide.
* **Order.** Threads are started in constructors before their argument is set;
  slices of a frame are queued one at a time while they are being sent.
* **Iterators.** Loops over the list of agents step and then dereference.
* **Ownership by pointer.** One image slot is filled by all agents and read by
  the stream thread; the delete and the assignment are two statements.
* **A peer that owes nothing.** Websocket connections end by the peer, by a
  failed operation, by one of two timers, one of which may be too late to
  cancel, or by the closing handshake, while another thread sends to them.
* **Framing.** Packets are found in a byte stream by a prefix that noise can
  imitate, and closed by a tail that bodies can contain.

The repository has no tests, and its README is one line, so the code and its
comments are the only reference. `PROJECT.json` lists each hazard at its line
with the properties that would catch it.

### What makes each component correct

* xthread: Stop means stopped, lives do not overlap, a freed object is not used.
* People counter: counters equal the people registered in each direction,
  frames are counted once and in order, reads do not block.
* Mailbox: a command is whole, is acted on at most once per agent, is lost only
  under a known race, and no lock is kept.
* Queues: bounded, no packet lost track of but by the thread that takes it,
  nothing freed that is in use, the newest packets kept in order.
* Session: the socket outlives the write, a lost connection ends the client,
  the stream comes in order.
* xpacket: Merge undoes Split; after ResetPos, reading gets the body and nothing
  else.
* Device registry: one agent per ADD and for the device that was asked for, a
  command lost only under a known race, DEL reaches every agent but the first.
* Stream pipeline: the picture that is copied or deleted is alive, none leaks,
  a client gets whole frames, OFF stops the stream after one more frame at most,
  and a picture in the slot is streamed.
* Packet reader: what is received is what was sent, whole and in order, and
  noise loses nothing, until a size that no packet has is copied.
* Websocket connection: the program is told once that an attempt succeeded or
  failed and once that a connection ended; the list of connections agrees with
  the library; one write at a time, nothing after a terminal frame; closing ends.

## Modules

| Module | Models | Uses |
|---|---|---|
| `XThread` | one xthread object and its owner | |
| `HumanCounter` | `hlds_agent::Proc` from poll to count | |
| `CommandMailbox` | the broker's focus, angle and move boxes; `StatusInfo` | |
| `NewestWindow` | abstract: a queue that keeps the newest packets | |
| `PacketQueue` | `PushSendPacket`, `PopSendPacket` and the receive twins, by statement | refines `NewestWindow` |
| `ClientSession` | one client, its three threads, AddClient, StreamHLDSClients | two instances of `NewestWindow` |
| `PacketReader` | `agent_client::Proc` over the bytes of the connection; `ClientSession` takes its result as one action | |
| `XPacket` | Split, Merge, PushMem, PopMem | |
| `StreamPipeline` | agents, image slot, `stream_hlds`, list of clients, stream switch | |
| `DeviceRegistry` | the list of agents: ManageDeviceAddDel, SetDeviceCheck, agent_manager::Proc, AddAgent, DelAgent | |
| `ConnectionContract` | abstract: the handlers a websocket connection calls | |
| `WebSocketConnection` | one connection of the library with `event_manager` on top of it | refines `ConnectionContract` |
| `MCHumanCounter`, `MCCommandMailbox`, `MCPacketReader`, `MCXPacket`, `MCDeviceRegistry` | constants for TLC | |
| `XThreadProofs`, `HumanCounterProofs`, `CommandMailboxProofs`, `PacketQueueProofs`, `ClientSessionProofs`, `StreamPipelineProofs`, `DeviceRegistryProofs`, `WebSocketConnectionProofs` | theorems; `ClientSessionProofs` also those about `PacketReader`, `StreamPipelineProofs` those about `XPacket` | |

A definition whose comment begins with "Mutant:" is a plausible wrong
version of the definition that follows it; each property is shown to fail when
its mutant is put in place of the original, so no property holds by the shape of
the model.

### XThread

State: the four members `m_stop_flag`, `m_detach_at_destroy`,
`m_thread_started` and the handle `m_thread` (as the number of the life it
belongs to), and a program counter for the owner and for the worker of each
life. One action per access to a shared flag, because none is locked. `owner =
"gone"` means that the memory is freed; a worker that reads `m_stop_flag` then
gets either value. `m_detach_at_destroy` is set by the worker of a life that
returns `DEATH_CODE` and never reset; for an object that is started again after
that (no object of the program is) `StopQuiesces` and `OneWorker` are not
promised, and the models show why: Stop would detach a running worker, and the
next Start would clear the flag that should have ended it. The case is excluded
by name (`ReusedAfterDeath`).

### HumanCounter

State: the sensor's newest frame, the two frames Proc has read, the humans it
manages with their track rings, and the counters. `NewFrame` may happen between
any two SDK calls. GetFrameStatus, whose result the code ignores, may fail, and
then the comparison of an uninitialised number goes either way. A frame that
was never read carries number 0 here, the number that GetFrameStatus reports
before the first frame. CatchHumans, CountHumans and what is between them run
in one action: they touch nothing that another thread reads. History variables (`path`,
`gone`) record where each human has been and what those who left had
registered.

Positions, slopes and intercepts are floats in the code. A float is a whole
multiple of a small enough unit, so positions are integers (`UNIT` of them make a
mm) and the comparisons of InCountArea, which are with whole numbers, are exact.
The slopes of the two diagonals and the values `y1` and `y2` are rounded;
`ROUNDING` bounds their error, and a comparison with a diagonal that is closer
than that has either outcome. So CountDirection is the set of directions the code
may return, and CatchAndCount takes any of them for each human. `DirsAreLastCrossing`
promises that the direction is a side that the point outside lies beyond, except
next to a corner of the area, where the rounding reaches (`AtCorner`: within
`ROUNDING` of the corner up or down, within 1083/47 times as much left or right):
there it may be the other side that meets in the corner. The code does so: the
point x = -3235.000244, y = -3219 lies beyond the left side only and is counted
UP.

### CommandMailbox

State: per box a flag, data in parts, and a lock; a program counter per client
and per agent. A client thread locks, raises the flag, pops the payload, stores
the data part by part, unlocks. An agent tests the flag, lowers it, and copies
the data part by part, without the lock. The pop fails if the packet's buffer
has no byte left; then the client keeps the lock, as the code does
(`PopByteFails`). It never does, since the buffer of a received packet always
has `RECV_BUF_LEN` bytes whatever the packet says: the mutant that gives the
buffer the size of the packet makes `CommandsComplete` fail. History variables
count commands and takes and record whether one crossed the other.

### PacketQueue and NewestWindow

`NewestWindow` has two operations, Put (append, and forget the oldest beyond
`MAX_SIZE + 1`) and Get. `PacketQueue` has the lock, the loop that deletes the
front, and the place of every packet: with its maker, queued, held by the taker,
deleted, or forgotten. It is either of the two queues (`queue`), which differ in what
the taker does. SendProc deletes a packet that it has written (`Write`) and forgets
a stream packet that it skips while the stream is off; ComPacketProc forgets
every packet (`LetGo`). So every packet received leaks, and the slices that are skipped;
`OnePlaceEach` says that this is all that leaks. The refinement maps the queue
while a pusher is inside the critical
section to what it was before. `ClientSession` then uses the abstract queue for
`m_send_q` and `m_recv_q`.

### ClientSession

State: the connection, the socket pointer with its lock, the flags of the
client's xthread, where each of the five threads is, the two queues, and
histories of what was done, written and dropped. Reading a whole packet is one
action, an error another; `PacketReader` looks into it. `StreamHLDSClients` tests IsStopped
once per frame, then pushes slice by slice. `DefaultOff` states the comment on
`stream_onoff` and is violated.

### PacketReader

State: the elements on the wire, what the peer has sent, the reader's step and
its two buffers. A read takes as many elements as it asks for, or waits. The
prefix is looked for through a window of four elements that moves by one; the
rest of the header is one element, the size that it announces; sizes count
elements. The peer may send noise between packets (anything but a prefix),
bodies that look like tails, packets with a bad tail, and headers with a size
that no packet has (`Misfits`): less than header and tail, or more than the
packet's own buffer. The code's one check is `TooLong`, which takes the rest of the
packet as a signed number of a bounded width (`WORD`) and lets all pass that is at most
`RECV_BUF_LEN`. Some of these sizes end the client. Others pass: a negative rest, of
which asio reads no more than `m_recv_buf` holds, and sizes a little above
`RECV_BUF_LEN`, because line 282 copies the rest behind the header. A size between
the header and header plus tail takes bytes of the header for the tail. Where a copy
leaves its buffer the behaviour is undefined: `ReadMisfit` raises
`undefined`, the reader of the model stops, and `ReceivedInOrder` speaks of the time
before. `GoodPacketsArrive` speaks of the good packets sent before a misfit.
`PacketReaderAssumption` says that what is sent consists of elements of `Byte`, that
a tail is as long as the code's, that a packet of the peer fits, and that the
width holds twice the buffer. A packet with a bad tail is dropped; the code also forgets
the packet that was being made, which is never deleted. Names that `ClientSession`
has too begin with Reader here, or are others (`HangUp`, `ReadFails`), so that
`ClientSessionProofs` can extend both.

### StreamPipeline

State: the slot with its lock, the pictures (numbered as they are made, with the
set of deleted ones), the position and the picture in hand of every agent, the
list of clients with its lock, and the stream thread's copy, index and slice.
`UpdateHLDSImage` is three actions: the lock, the delete, the assignment. Between
the last two the slot dangles, and what keeps it from being read is the lock that
the code takes only when it is told to. The switch is read without a lock, by
the stream thread and by the agents, and may hold a byte that is neither ON nor
OFF. `got` is the slice pushed last to each client; the client's queue is
`ClientSession`'s.

### XPacket

The life of one large packet: split, merge, read. Merge first adds up the lengths of
the slices, one at a time, then allocates the packet, then copies, and leaves
the position at the end, where PopMem finds nothing. `Rewind` is ResetPos, which
PushRecvPacket and the two websocket parts call before they read; it is an action
of its own and may come in the middle of reading too. Nothing in the program calls
Merge. The number of slices is taken
modulo `WORD` (2^16 in the code), so that bodies with more slices than the field
can hold lose their end, and the model shows from which length on. The names of the
specification begin with XPacket, for `StreamPipelineProofs` extends this module too.

### DeviceRegistry

State: the flag and the device info that clients store (in two parts, since the
manager copies it without their lock), the list `m_agents`, a record for every
agent ever made, and the position of each thread with its iterator. The clients'
mutexes exclude clients from each other only; `m_agentcheck_manage_lock` and
`m_device_exits_lock` are taken by the manager alone and are left out.

An iterator is a position, and the loops advance before they dereference. What
`DelAgent` or `SetDeviceCheck` finds at the end of the list, or in an agent that
the manager has just deleted, is undefined: the program crashes, or the memory
compares unequal to every device and nothing happens. An erasure moves the
elements under the other iterators, from the front or from the back, as the
deque of libstdc++ does. A crash is a state, not a property: every DEL on a
non-empty list risks one, and the properties say what holds as long as there is
none. What is checked of the loop is its outcome. One pass of `DelAgent` skips
the agent after a deleted one, and yet `DelCompletes` holds, because the flag
stays up and the manager goes through the list again; its mutant lowers the flag
after one pass, and three agents show the difference. A DEL that AddAgent's reset of
the flag swallows, or that an ADD replaces, is excused. The first agent is never
compared, so the last sensor cannot be removed by any command, and
`DelCompletes` speaks of the others.

### WebSocketConnection and ConnectionContract

`ConnectionContract` is what the comments of connection.hpp promise about the
handlers: an attempt is answered once, by open or by fail, and close is called
once, for opened connections only. `WebSocketConnection` is the code: the chain
of asynchronous operations (initialise, handshake of a client or a server, read
frames), the write queue with its flag, the two timers, `terminate`, and the
thread of `event_manager` that sends to the connections in its list.

* The handler thread runs one handler at a time. `on_open` and `on_close` wait
  for the mutex of `event_manager`, so they are actions of their own (`io`).
* A timer that has expired may have its callback queued already; cancelling it
  then has no effect (`expired`). `set_timer` replaces the member that refers to
  the timer before (`orphan`), which runs on. So the timer of the opening
  handshake can close a connection that has been opened meanwhile, and a second
  close timer can find a connection that is closed. The contract holds
  nevertheless.
* After `terminate` the transport has dropped the callbacks of the operations
  that were submitted; none is called any more.
* `send` looks at `m_state` under one lock and queues under another. The
  handler thread can start the closing handshake between the two: at most one
  data frame follows the close frame (`OneLateFrame`).

The content of frames and headers is left out: a handshake is accepted or not, a
frame is data, ping, a valid or invalid close, or breaks the protocol.

## Runs

| Run | Config | Shows | Bounds |
|---|---|---|---|
| xthread | `XThread.cfg` | Stop, destructor and worker in every order | 3 lives: first, restarted, restarted after a death |
| counter | `HumanCounter.cfg` | counters, direction, track ring, failing calls, every frame is got to | 1 id that leaves and comes back, all sides, a float next to a corner, the inside; units of 1/4096 mm, rounding error of 2 units; 4 frames, ring of 2, which wraps |
| mailbox | `CommandMailbox.cfg` | when a take is whole, once, or lost; every command ends | 2 clients, 1 agent, 2 commands, an angle in 2 parts |
| queue | `PacketQueue.cfg` | one place for each packet, nothing freed in use, refinement | both queues; 2 pushers, 1 taker, 6 packets through a queue of 2 + 1 |
| session | `ClientSession.cfg` | safety of a session, its death, commands done | 3 frames of 2 slices, send queue 3 + 1 (two frames, as 2048 + 1 holds two frames of 923), receive queue 1 + 1, 4 commands: both queues overflow |
| stream_default | `ClientSession_default.cfg` | a violation: the stream is on by default | 1 frame, 1 command |
| reader | `PacketReader.cfg` | what is received is what was sent, in order | 2 packets or headers, three bodies, two tails, six sizes at the edges of what fits and of an int of 64 values, 3 elements of noise, which are letters of the prefix |
| stream | `StreamPipeline.cfg` | ownership of pictures, whole frames, the switch, streaming | 2 agents, 1 client, 2 slices, 2 pictures |
| registry | `DeviceRegistry.cfg` | which device an agent is for, lost commands, what DEL does to the list | 2 clients, 2 devices, 4 commands: three agents and a DEL whose first pass skips one, or a SetDeviceCheck that meets a DEL |
| registry_duplicates | `DeviceRegistry_duplicates.cfg` | a violation: two agents for one device | 2 clients, 2 commands |
| packets | `XPacket.cfg` | split, merge, read, before ResetPos and after it | bodies 0..18, slices of 1..4 bytes, counter of 8 values: fewer, exactly and more slices than it holds |
| websocket | `WebSocketConnection.cfg` | the handlers called, what is written when, closing ends | client and server, 2 frames received, 2 packets sent |

Why the bounds are enough: two writers and one reader make every pair of accesses
of a box meet; a third actor of a kind meets the same two accesses. Two agents
are what it takes to change the slot behind each other, and one walking thread
reads it. Two commands are enough for one to meet the other. In the queue the run
fills the queue, overflows it and empties it again. Two frames let a close frame
come after a ping or a close. Where a run is small in a dimension that matters,
the theorems cover it: several people, whose counters could be confused
(`CountsConservedTheorem`), several agents that poll one box, lists of agents long
enough for an erasure to move the front (`ListIsAliveTheorem`), several clients
of the stream (`WholeFramesTheorem`), any number of frames and packets.

`MaxFrames`, `MaxCommands`, `MaxStarts`, `MaxPackets`, `MaxPictures` and
`MaxNoise` appear only in guards of the actions that the environment takes.
Deadlock is not checked where the environment may stop (no more frames, packets,
pictures or starts). It is checked in the mailbox, whose agents never stop, and in
the queue.

## Fairness

* `XThread`: every thread is scheduled and Proc returns; a Stop that was called
  goes on. Nobody has to call Stop.
* `HumanCounter`: a call of the SDK that can succeed is made again or fails;
  Proc runs in a loop. The sensor owes no frame, and no failure.
* `CommandMailbox`: a client finishes its command and agents run. The weak
  fairness of a waiting `Lock` would not be enough against an endless stream of
  commands by the others, and `std::mutex` promises no more; the number of
  commands is bounded in the run, so the lock is free in the end.
* `PacketReader`: the receiving thread runs. The peer owes no byte.
* `StreamPipeline`: the stream thread runs, and so does an agent up to the end of
  `UpdateHLDSImage`. The sensors owe no picture and the clients no command.
* `WebSocketConnection`: the two threads run and timers expire. The callback of an
  expired timer is in asio's queue and is called in its turn, although the
  handler thread is busy again and again: strong fairness. The peer owes nothing:
  no answer, no acknowledgement, and it need not take what is written. Only the
  initialisation of the transport, which has a timer of its own, is taken to end.
* `ClientSession`: threads run. The peer owes nothing: no packet has to come,
  and a write may block for ever as long as the connection stands. What is read
  from or written to a lost connection fails.
* `DeviceRegistry`: the manager's Proc runs in a loop and a client finishes its
  command.

## Proofs

All theorems are of the form `Spec => []P` or `Spec => [][A]_vars` and follow
from an inductive invariant that TLC checked first.

* `XThreadProofs`. `StopQuiesces` alone is not inductive: after a death Stop
  does not wait, so one must know where a worker can be when the detach flag is
  up (past its last write). The invariant says for each life where its worker
  can be, given the owner's position, the handle and the two flags, and that
  lives before the current one are over unless the object was reused after a
  death. One lemma for Start, one for the rest of the owner, one for a step of
  a worker.
* `HumanCounterProofs`. The invariant is type correctness, `CountsConserved`,
  `ReadsNeverWait`, the order of frame numbers, and that the cancellation in
  CountHumans concerns managed humans only. The step of CountHumans is a lemma
  about cardinalities (`Recount`): people registered in a direction before,
  minus those cancelled, plus those crossing, are the people registered after,
  with the ones that left moved into the history. `CountDirectionFaces` is a fact
about the geometry alone: whatever point outside is given, and however the
comparisons near a diagonal come out, the side that CountDirection names is one
the point is beyond, or one of the two at a corner that the rounding reaches. It
needs a rounding error of less than half the area's height. `DirsAreLastCrossing` and
  `TrackIsRecentPath` have an invariant of their own (`PathInv`) about each managed
  human and the path of its positions: the slot of the ring that holds the
  point passed `a` frames ago, and that each of the two directions is one the point
  outside was beyond, or at the corner of, in the last step over the border, or
  none if there was none.
* `CommandMailboxProofs`. The invariant is split into a conjunct per client,
  per agent and per box (who holds the lock, what of the data is stored, what of
  it is copied, and what a "clean" take has seen so far), so that a step of one actor
  leaves the conjuncts of the others alone by a frame lemma. It is needed
  because `WholeAtRest` says nothing of a box in use.
* `PacketQueueProofs`. A packet has one owner at a time: it is in the queue once, in
  one hand, deleted, or forgotten by the taker; only the front can be in the queue
  and elsewhere, while
  it is taken or dropped, and then the thread that does so holds the lock. For
  the refinement the drops belong to the push that caused them: the abstract
  queue keeps what was dropped (`spilled`) until the push, and there is something
  spilled only as long as the queue is full. Each concrete step is then a Put, a
  Get or a stutter.
* `ClientSessionProofs`. The slices written, the one in the sender's hand, those
  that wait and the next one to be pushed form one increasing sequence, and the
  place of a slice in the queue bounds its number from above; so a slice that
  falls out of a full queue is older than the `MAX_SENDQ_SIZE + 1` newest. As long
  as nobody has given up, every slice newer than that is written, in hand or in
  the queue (`KeptInv`), which gives both `StreamInOrder` and `OnlyOldFramesTorn`.
  The module also holds the proof about `PacketReader`. Its invariant
  (`ReaderInv`) says that there is a stream of all that was sent, in it a list of
  the packets with the place where each starts, a number of elements that the
  reader has read and a number of packets it is done with, and what its buffers
  hold then. It rests on a fact about the prefix: between two packets there is
  none, and as its only "G" is its last element none begins in the noise and ends
  in the next packet. So the reader finds a prefix where a packet starts and
  nowhere else, whatever the bodies look like. After a header with a misfit size
  no packet that matters follows, and once its rest is copied the invariant says
  nothing (`undefined`).
* `StreamPipelineProofs`. The slot's lock excludes the agents from each other and
  from the stream thread; a deleted picture is in the slot only while the agent
  that deleted it is about to put in its own. Separate invariants follow
  the lock of the list of clients, the walk through it (what was pushed last to each
  client, by its position: `FrameInv`) and the switch (`LateInv`).
  The module also holds the proof about `XPacket`, the slices of a frame: the cuts
  start at 0 and are a slice's body apart, a slice holds the body from its cut to
  the next, and what has been merged is the body up to a cut (`CutInv`). At its end
  nothing fits any more, and after ResetPos what has been read is the body up to
  the position. That gives `MergeUndoesSplit` for every length of slice and every
  body whose number of slices fits its field.
* `DeviceRegistryProofs`. The list and the agents that live agree at every step of
  an erasure, whatever happens to the clients' iterators; a client that is storing
  a device has stored it up to the part it has reached; `clean` implies that
  what the manager has copied is the last device.
* `WebSocketConnectionProofs`. One invariant ties the handlers called so far to
  `m_state` and to where the handler thread is, and proves the list and the
  safety part of the contract. A second one, about the write flag, the outstanding
  write and its frames, gives `OneWrite` and `NothingAfterTerminal`: the flag stays
  up from the write of a terminal frame on. A third one takes what is written
  and what waits as one sequence: at most one data frame comes after a close
  frame in it, and none while Proc still holds the frame that can be late
  (`OneLateFrame`).

Assumptions on constants are named and as weak as the code justifies:
`XThreadAssumption`, `HumanCounterAssumption` (finite ids,
positions in whole units, an error smaller than half the area's height, a ring of
at least one), `CommandMailboxAssumption` (the buffer is longer than
header and tail), `PacketQueueAssumption`, `ClientSessionAssumption`,
`PacketReaderAssumption` (see above), `XPacketAssumption`,
`StreamPipelineAssumption` (a frame has a slice), `DeviceRegistryAssumption`,
`BoundsAssumption` of `WebSocketConnection`.

Only model-checked: the liveness properties (`StopReturns`, `NewFrameIsRead`,
`CommandsComplete`, `ClientDies`, `CommandsDone`, `DelCompletes`,
`SlotIsStreamed`, `GoodPacketsArrive`, `ClosingEnds`) and the part of `Contract`
that says that a handler which is owed is called. Temporal reasoning under
fairness, with ENABLED, is out of the prover's reach. Every invariant and every
action property that a run checks is also a theorem, but for the two whose runs
expect a violation.

## Findings

`stream_default`: the comment on `agent_client::stream_onoff` says "default
OFF", but it is initialised with `STREAM_ON` and never changed. A client that
has asked for nothing is streamed to as soon as another client has switched the
broker's stream on.

`registry_duplicates`: the comment at agent_manager.cpp:32 calls
`GetDeviceInfo` the handling of duplicates, but its comparison is commented out
and it answers "true" for every device: a second ADD of a device makes a second
agent for the same sensor.

## Not modelled

* Depth conversion, drawing, scaling, OpenCV: no decision depends on them.
* Opening the sensor in `InitAgent`, and the deletion of an agent while its thread
  is in Proc: the destructor deletes the SDK object before `~xthread` joins the
  thread. What the SDK does with a read on a deleted object is not stated
  anywhere, so there is nothing to check a model against.
* Destructors of clients and the broker: no code path of the program reaches
  them while it runs; clients are never removed from the list.
* `event_manager`'s constructor (it starts the thread that runs the endpoint before
  the endpoint is initialised) and the retry after an exception in `run_thread`:
  what the endpoint does then is undefined. `WebSocketConnection` begins with a
  connection of a running endpoint.
* Of the websocket library: ping, pong timeout, pause and interrupt, deferred
  answers and plain HTTP, which the program never uses; frame headers, masking and
  UTF-8, whose outcome is a choice between a valid and an invalid frame.
* `accept_manager`: blocking socket calls; every connection is handed to AddClient,
  where `ClientSession` and `StreamPipeline` take over.
* `config`: read once, in `main`, before any thread runs. The getters that re-read
  the file and `checkVal`'s substitution have no caller.
* `sha256`, `pidfile`, `stopwatch`, `logger`, database stubs: no state with an
  interleaving, or no caller.
* Vendored code: JsonCpp, SQLite, CppSQLite3, the rest of websocketpp, the sensor
  SDK. Most lines of the repository are these (the SQLite header and JsonCpp exist
  in several copies), so the share of lines that the models stand for stays small
  whatever is modelled of the program itself. What the models rely on is external
  in the map: the sensor produces frames, the peer sends bytes, the network may cut
  a connection.

## What is left

* Composing `XThread` with an agent, once it is known what the SDK allows of a
  call that overlaps the deletion of its object.
* `PacketReader` as a refinement of the two actions of `ClientSession` that stand
  for it.
