# A TLA+ verification of vt-muxer

vt-muxer multiplexes logical connections over one TCP stream. This directory
holds TLA+ models of its write side, its read side, the protocol between two
endpoints and its addresses, the TLC configurations that check them, and TLAPS
proofs of the main invariants of the writer, the receive buffer, the reader's wakers and
the protocol.

## The system and its parts

A frame on the wire is a `SocketAddr` (18 bytes), a two byte big-endian length
and that many payload bytes. An empty frame opens the address if the receiver
does not know it and closes it if it does.

| Part | Source | Changes state | Model |
|---|---|---|---|
| Write pipe | `src/write.rs` | `poll_write`, `poll_flush`, `poll_shutdown`, `handshake`, `Drop` and its task | `WriteInner` |
| Packet buffer | `src/packet_buffer.rs` | `push`, `clear` | `PacketBuffer` |
| Poll mutex | `src/poll_mutex.rs` | `poll_lock`, `lock`, `take_token` | `PollMutex` |
| Frame header | `src/protocol.rs`, `src/integers.rs` | nothing | in `PacketBuffer`, `FrameDecoder`, `ThinAddr` |
| Receive buffer | `src/read/read_buffer.rs` | `fill_buffer`, `read` | `ReadBuffer`, `ByteQueue` |
| Shared reader | `src/read.rs` | `poll_read`, `poll_next_packet`, `insert`, `remove`, `SendSocket` | `SharedReader`; the parser alone in `FrameDecoder` |
| Public interface | `src/lib.rs` | `add_connection`, `accept`, `into_pipe` | `Mux`; each half in `WriteInner` and `SharedReader` |
| Thin addresses | `src/thin_addr.rs` | nothing | `ThinAddr`, used by `Mux` |
| Constructor | `src/constructor.rs` | nothing | no |

Every `MuxConnection` owns a `WriteInner` and a `ReaderInner`. The writers
share the TCP write half behind a tokio mutex. The readers share the read half:
whoever polls parses frames for everybody and fills the other connections'
receive buffers.

## The modules

`MuxConstants` names the connections. `PollMutex` and `FrameDecoder` are
components that `WriteInner` extends; `FrameDecoder` extends `PacketBuffer`.

**PollMutex.** `owner` is the connection that tokio's permit belongs to, whether
it has the guard or the permit waits in `PollMutex.fut`; `queue` is tokio's FIFO.
tokio is external: the model has what the code relies on, namely that
a release hands the mutex to the first waiter at once.

**PacketBuffer.** A payload is a sequence. `max_len`, `push_len` and
`must_flush_for` are the code's case distinctions on how much of the length field
has been sent. The radix of a byte and the size of an address are parameters.

**FrameDecoder.** The peer's parser (`NextPacket`, `Read`), which consumes each
byte as it is written. `rx.intact` turns false at the first byte that a
well-formed frame would not have in that place.

**WriteInner.** `state` is `WritePipeState` flattened, plus the states of the two
futures that own a writer (`Handshake*`, `Drop*`). A poll is several steps, each
ending where the code touches the lock or the socket; `pc`, `left` and `wrote` are
the call in progress. The socket accepts one byte per step, or returns Pending, or
(once `broken`) an error. The n-th byte that an application writes is the number
n, so loss, repetition and reordering show. `accepted` and `pushed` are histories.
Calls that only return an error, such as `poll_write` after a shutdown, change
nothing and are stuttering steps. So is the wake-up of the previous writer's
waker in `poll_shutdown`.

**ReadBuffer.** The block cell by cell with `pos`, `filled` and `initialized`.
One step per operation, because the entry's mutex is held throughout. A full
block, Pending and errors change nothing. `ByteQueue` is what it promises.

**SharedReader.** An entry is one `ReaderEntry`, that is one session of an address;
one task reads each connection and one accepts. A step is what happens under an
entry's lock (`Read*`), under the accept channel's (`Accept*`), or one round of
`ReaderMut::poll` under the shared lock (`Round`); `remove` takes two, since it
releases the entry before it drops the Weak, and a `Removing` tag marks the gap.
`woken` holds the tasks whose waker was called since their last poll began, and a
waiting task is polled again only when it is in it: a lost wake-up is a task that
sleeps over something. The external parts are the socket, which remembers the last
task it answered Pending; tokio's `consume_budget`, which may make a task yield;
and flume's channel, which moves a pending send in when an item is taken out and
fails it when the receiver goes. Units in the socket are header or payload units
and carry their session as history; the code sees the address. `setting` is chosen
at the start and never changes: the addresses, who opens them, and in `may` what can
happen: `yield`, `close`, `late` (a frame arrives in two parts, the second in
`transit`), `short` (a read ends anywhere), `drop`, `cancel`, `repoll`, `into_pipe`,
`eof`, `ioerror`. One run so covers several situations.

**Mux.** Two endpoints and the frames between them, one step per frame: this is the
protocol of opening and closing, whose only message is an empty frame. It rests on
what the other modules check: frames are whole (`WriteInner`), and reach the entry
of their address (`SharedReader`). `add_connection` is two steps, `Insert` and
`Handshake`; `Cancel` drops its future in between, the map keeps the entry, and the
writer's drop task sends an empty frame all the same. A shutdown is two steps as well,
the call and the closing frame; a connection dropped in between is `"abandoned"`: no
closing frame follows (`write.rs:358`). A frame carries as history its place in the
session: the opener's first empty frame opens, every other closes, whatever its sender
meant by it. `ReopenAfter` says when an application opens an
address again. The application has std addresses, which `setting` chooses; the
endpoints see what `ThinAddr` makes of them.

**ThinAddr.** The conversions, as operators. A standard address is a number, a port
and a scope, a thin one its bytes; the layout of an IPv4-mapped address is a
parameter. The text forms are std's and left out: the code prints `to_std` and
parses before `from_std`.

Definitions marked `MUTANT` are deliberately wrong variants of the definition
that follows them. Nothing uses them: each shows that a property can fail.

## What the runs check

| Run | Shows |
|---|---|
| `writer_frames` | an opened and an accepted connection on a stream that may fail: `FramesIntact`, `StreamOrder`, `CleanClose`, `ShutdownDelivers`, `OpenWhileDelivering`, `NeverPoisoned`, `LocksReleased`, and `IInv` and `StreamInv`, invariants of the proofs |
| `writer_single` | one connection, radix 3: `FramesIntact`, `DeliveredMatchesSent`, and `NumberInv` of the proofs |
| `writer_liveness` | cancelled handshakes and dropped shutdowns: `ShutdownCompletes`, `DropCompletes`, and `MutexInv` of the proofs |
| `read_buffer` | `OffsetsOrdered`, `InitializedWritten`, `NothingLost`, `FullHasBytes`, `BufferInv`, and the refinement `FifoSpec` |
| `reader_safety` | two sessions in four settings: `Demultiplexed` (each entry refines `ByteQueue`), `EosComplete`, `DataWakes`, `RoomWakes`, `AcceptWakes`, `MapAgrees`, and `WakeInv` of the proofs |
| `reader_live` | connections that stay open, of a client and of a listener: `NoLostWakeup`, `EventuallyRead` |
| `mux_sessions` | two sessions of one address under two names, or of two addresses: `ToggleAgrees`, `SessionsApart`, `MapSettled`, `AddressFreed`, and of the addresses `OneIdentifier` and `AddressReported`; and `MuxInv` of the proofs. With cancelled `add_connection`s, and drops before and in a shutdown |

The settings of `reader_safety` are `Demux` (a client whose polls are cancelled and
repeated), `Accepting` (the peer opens two connections, the listener may become a
pipe, the stream may fail), `Reusing` (one address twice, with drops, cancelled accepts
and closes) and `Faults` (frames in parts, short reads, drops, end and failure of the
stream).

Five runs end in a counterexample, where the code differs from what its comments,
tests or documentation say:

| Run | Violated | What happens |
|---|---|---|
| `writer_duplicate` | `DeliveredMatchesSent` | `poll_write` returns Pending after pushing part of its argument (`write.rs:222`); the caller repeats it |
| `writer_drop_shutdown` | `FramesIntact` | a drop during a pending shutdown releases the lock inside a frame (`write.rs:358`) |
| `writer_drop_buffered` | `DropDelivers` | the drop task closes without sending the buffered packet (`write.rs:366-369`) |
| `writer_cancel_handshake` | `CleanClose` | a cancelled `add_connection` still sends an empty frame, which the peer reads as an opening one |
| `writer_idle_holder` | `ShutdownCompletes` | a connection nobody polls keeps the lock, or a lock handed to it |

### Limits

Some properties of the reader and of the protocol hold only under a discipline that
the passing runs assume. Each line says what to change in a run to see it fail;
TLC refutes every one of them.

| Where | Change | Refuted |
|---|---|---|
| `read.rs:246` | `reader_live` with `"short"` and `HeaderSize = 2` | `NoLostWakeup`: a header read in pieces ends the poll with Pending and no waker |
| `read.rs:363` | `reader_live` with `"close"` | `NoLostWakeup`: the task the socket would wake has reached the end of its own stream, and bytes for the others wake nobody |
| `read.rs:146` | `reader_live` with `"close"` | `life[e] = "open" /\ Asleep(e) => Weakly(e)`: `remove` copies the waker before the Weak is gone; a reader in between stores a new one and sleeps |
| `read.rs:200` | `reader_live` with `"drop"` | `RoomWakes` with `life[e] # "dropped"` added to what it concludes: a connection dropped with a full buffer does not wake the task that waits for room |
| `read.rs:165` | `reader_live` with `"eof"` | `state.tag = "Error" /\ life[e] = "open" => ~Asleep(e)`: the error that ends the stream wakes nobody else |
| `read.rs:255` | `mux_sessions` with one address opened from both ends | `ToggleAgrees`: each end takes the other's opening frame for a close |
| `read.rs:256` | `ReopenAfter = ConnStates`, `MayDrop = FALSE` | `SessionsApart`: an address is opened again while the earlier connection is still written to |
| `write.rs:374` | `"closing"` added to `ReopenAfter` | `SessionsApart`: the drop task's closing frame follows the opening frame of a new connection |
| `write.rs:358`, `lib.rs:154` | `"abandoned"` added to the states `MapSettled` is about, or to those of `AddressFreed` | each: a connection dropped in a pending shutdown, or a cancelled `add_connection`, sends no closing frame, and its address stays taken at the other end |
| `lib.rs:154` | `"abandoned"` added to `ReopenAfter` | `ToggleAgrees`: the address of a cancelled `add_connection` becomes free when the other end closes what the drop task opened there; a new opening frame meets the old entry |
| `read.rs:246`, `363`, `200` | `AddressFreed` without its premise | `AddressFreed`: an endpoint that stops reading frees nothing |

So `reader_live` has no closes, drops or short reads, and in `mux_sessions` one side
opens an address and waits for its earlier connections there to be shut down or, if
dropped, for their task; it does not return to an address it has abandoned. `MapSettled`
and `AddressFreed` are about sessions whose end sends a closing frame: a shutdown that
returned, or a drop before any shutdown.

`DropDuringShutdown` and `CancelHandshake` switch on two things an application
may do (both legal in Rust). `writer_liveness` has both. They are off in the runs and
theorems about intact frames, because with them on those properties fail as the
table of the five runs says. `CleanClose` and `StreamOrder` say nothing of a broken
stream.

### Bounds

Two connections give every competition for the lock between a holder and a
waiter; three or more waiters are covered only by the proofs. With `Radix = 2`
a packet holds 3 bytes, so a full packet, a frame that grows while it is sent
and both limits of the length field occur with `MaxBytes = 4`. On a stream that fails
`MaxBroken` takes its place: 2 bytes, so it fails before, inside and behind a frame. `writer_single`
uses `Radix = 3` (8 bytes) and a two byte address: only there can `push` find
room left in the packet and too little of it under the low digit. The other runs use fewer bytes,
since their subject is the order of calls. `Capacity = 4` with a
stream of 10 bytes reuses the receive block at least twice. In the reader's runs two
connections give one that parses for another; buffers of one or two cells and
frames of up to three units are split by a full buffer, and two sessions over a
channel of one place fill it. A header is two units, or one in `reader_live`, where
it is read whole; nothing depends on more than whether it is complete. A setting's
`quota` bounds the units per session and its `backlog` the units in the socket when
the peer sends again. One unit for each session of a reused address tells whose
payload it is. One task accepts: competing accepts are not covered. In
`mux_sessions` two sessions of one address with a data frame each way are one reuse
of an address; the setting with two addresses has no data. Bytes there have two
values, and IPv4 addresses are two bytes behind one zero and one mark byte: enough
for an IPv4 address, its mapped form and the address that merely has its number.

Deadlock is checked in `read_buffer` only: the other systems stop when every
connection is finished or the peer has sent its bound.

### Fairness

`WF` on a connection's own steps: the executor polls a task whose lock or socket
is ready, and the global runtime polls the drop tasks. `SF` on `SendByte`: the peer keeps
reading, so a socket polled again and again accepts a byte. `SF` on `ShutdownCall`
for `Diligent` connections only: their application keeps polling shutdown.
Nothing makes another application poll again, which `writer_idle_holder` uses.

`SharedReader`: `WF` on a task's rounds, reads and accepts, that is, the executor
polls a woken task and the application keeps reading and accepting; `SF` on `Lock`,
because parking_lot's mutex is eventually fair. A sleeping task is never polled
again by fairness alone. `WF` on `Deliver`: TCP delivers.

`Mux`: `WF` on the drop tasks, which the global runtime runs on a stream that takes
their frame in the end (`DropCompletes`); nothing makes an application shut down, and
nothing makes an endpoint read. The limits above for `read.rs:246`, `363` and `200` show that
reading can stop although bytes are there, so reception is not assumed to be fair:
`AddressFreed` has as its premise that the endpoint has again and again received all
that was sent.

## What is proved

Every theorem holds for all values of the constants that satisfy the named
assumptions of its modules; what else it assumes is said here. Each inductive invariant
is also an invariant of a run.

**The lock of the writers** (`WriteInnerProofs`: `MutexInductive`, `NothingHeldAfterTheEnd`,
that is `MutexInv`, `LocksReleased`), for any set of connections, with or without cancelled handshakes, dropped shutdowns and
failures. `LocksReleased` only speaks of connections that are done; `MutexInv` says of
every connection whether its state may own the mutex or stand in tokio's queue, and
that it does so once.

**The frames of the writers** (`WriteInnerProofs`: `Inductive`, `TypeCorrect`,
`StreamStaysIntact`, `NoPoison`, that is `IInv`, `TypeOK`, `FramesIntact`,
`NeverPoisoned`), for any set of connections, radix of at least 2, address size and
bound, with or without failures of the stream, assuming `~DropDuringShutdown` and
`~CancelHandshake`. `FramesIntact` is not inductive: it says nothing of who may send
next. `IInv` adds that a state with a guard owns the mutex (`LockInv`), where the packet
is empty (`CallInv`), and that the peer has parsed exactly the bytes that the holder has
sent, with a high digit that agrees with the packet as it is now (`RxInv`). The
arithmetic core is that `push` never changes a digit already sent (`HighDigitStable`).
The argument goes action by action: `WriteInnerLemmas` has what the steps share and the
actions that take, keep or drop the guard, `WriteInnerProofs` the ones that fill the
packet or send a byte of it, and the theorems.

**The stream of a connection** (`WriteInnerStream`), under the same two hypotheses:
`StreamsInOrder` (`StreamOrder`), `NothingLostByShutdown` (`ShutdownDelivers`),
`TogglesPaired` (`CleanClose`) and the action property `DeliveredWhileOpen`
(`OpenWhileDelivering`). `StreamInv` stands on `IInv`: what was pushed is what the peer
got followed by what is in the packet and not yet sent (`InStream`), and the number of
empty frames the peer has seen follows from the state (`InToggle`). `NumberInductive`
and `NumberedAlone` (`DeliveredMatchesSent`) are for one connection, `Conn = {x}`: the code can repeat bytes
only when `poll_write` waits for the mutex, as `writer_duplicate` shows, and
`NumberInv` says that nobody ever does.

**The receive buffer** (`ReadBufferProofs`), for every capacity and length of stream:
`BufferInductive`, `BufferTyped`, `OffsetsSafe`, `InitializedSafe`,
`BufferLosesNothing`, `FullIsReadable`, and `BufferIsFifo` (ReadBuffer implements
ByteQueue). `BufferInv` adds that an empty block has been started over and which stream
byte each unread cell holds.

**The wakers of the shared reader** (`SharedReaderProofs`), for any number of
connections, any capacity, header and channel size, and every event of the model:
`ReadersAreWoken` (`DataWakes`), `RoomIsSignalled` (`RoomWakes`), `AcceptorIsWoken`
(`AcceptWakes`). These properties speak of tasks that sleep, which is too late: a task
has looked before it asks for the shared lock. `WakeInv` speaks of it from that moment
on: until its waker is called, its waker is in its entry and its buffer empty
(`ReaderHooked`), the buffer that stopped it is full (`RoomHooked`), the channel it is
hooked to is empty (`AcceptHooked`).

**The protocol** (`MuxSendSteps` has the steps that send, `MuxProofs` the rest), for any number of sessions, addresses and data frames:
`MuxInductive`, `MuxTypeCorrect`, `EmptyFramesAgree` (`ToggleAgrees`),
`SessionsStayApart` (`SessionsApart`), `ClosedLeaveTheMap` (`MapSettled`), for
applications that open an address from one end only (`OneOpener`) and again only when
the earlier connection is shut down or its drop task is done (`Patient`). Cancelled
`add_connection`s and drops in a pending shutdown are covered, failures of the stream
and frames cut short are not; `ClosedLeaveTheMap` speaks of the sessions whose closing
frame was sent, and the limits show the others. The table of
limits shows that both are needed; `MCMux` assumes both, so TLC evaluates them. `MuxInv`
is about all frames on their way, not only the next: they agree with the state of
their sender (`FromSender`), a session's are in order (`InOrder`) and numbered from
what its entry has got on (`Numbered`), and between two sessions of one address lies
the closing frame of the first (`Separate`). A receiver's map is then exact (`InMap`).

Only model-checked:

* liveness (`ShutdownCompletes`, `DropCompletes`, `EventuallyRead`, `AddressFreed`),
  which is out of the prover's reach together with `ENABLED`;
* `OneIdentifier` and `AddressReported`: they are about the digits of a number of any
  length, which takes induction over data, also out of reach;
* `EosComplete`, `MapAgrees`, `Demultiplexed` and the bound on `given` in `TypeOK` of the
  shared reader, which need an invariant about the frames in the socket;
* `NoLostWakeup`, which holds only in the settings of `reader_live`.

## What is not modelled

The in-place construction of `constructor.rs` and all allocation, including the
failure of `insert` when memory runs out; the orders of `NetworkOrderU16` and of
addresses, which nothing in the crate uses (the `PartialOrd` of `integers.rs:39`
compares `other` with itself, so it disagrees with `Ord`); the text forms of addresses; several tasks that accept;
a reader that returns more than it was asked for, which the code turns into an error and
tokio's does not do; a socket
whose `poll_flush` is Pending (a `TcpStream`'s never is); `poll_write` of the socket
returning 0, which the code treats like the error that is modelled; shutdown of the
runtime. In `Mux`: failures of the stream, which end all connections at once, and a shutdown or
an `add_connection` that is given up inside a frame, after which nothing holds
(`writer_drop_shutdown`, `writer_cancel_handshake`). The widths of the counters are not modelled: `NeverPoisoned` bounds `written`
by the frame, which is at most 65555 bytes for the `u32`, and 20 for the `u8`,
which only counts an empty frame.

## Open ends

1. An invariant about the frames in the socket, and with it proofs of `EosComplete`,
   `MapAgrees` and `Demultiplexed` of the shared reader.
2. `TypeCorrect` and `NoPoison` without the two hypotheses.
3. An abstract specification of the writer and a refinement to it.
