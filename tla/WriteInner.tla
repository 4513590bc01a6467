----------------------------- MODULE WriteInner -----------------------------
(***************************************************************************)
(* The write side of the multiplexer (src/write.rs, and the handshake and  *)
(* accept paths of src/lib.rs that create writers): every logical          *)
(* connection has a WriteInner, all of them share the write half of one    *)
(* TcpStream behind a mutex.                                               *)
(*                                                                         *)
(* Connections run on different threads, so a poll is not one step: each   *)
(* step ends where the code touches the shared mutex or socket.  pc[c] is  *)
(* the poll call in progress on c ("idle" between calls), `left` and       *)
(* `wrote` are its locals.  Futures that own the writer (the handshake and *)
(* the task spawned by Drop) need no pc: their state says where they are.  *)
(*                                                                         *)
(* The socket accepts one byte per step; a poll_write of k bytes is k such *)
(* steps of the same loop in flush_buf.  It may also return Pending at any *)
(* byte, and an error once the peer is gone, from then on for ever.        *)
(***************************************************************************)
EXTENDS PollMutex, FrameDecoder

CONSTANTS
    Openers,              \* connections made by add_connection; the others are accepted
    MaxBytes,             \* bound: payload bytes pushed per connection
    MaxChunk,             \* bound: bytes offered to one poll_write
    CanBreak,             \* the TCP stream may fail
    MaxBroken,            \* bound: MaxBytes for a stream that fails
    DropDuringShutdown,   \* a connection may be dropped while its shutdown is pending
    CancelHandshake,      \* an add_connection future may be dropped while pending
    Diligent              \* connections whose application ends by shutting them down

ASSUME OpenersAssumption == Openers \subseteq Conn /\ Diligent \subseteq Conn
ASSUME BoundsAssumption == {MaxBytes, MaxBroken} \subseteq Nat /\ MaxChunk \in Nat \ {0}
ASSUME FlagsAssumption == {CanBreak, DropDuringShutdown, CancelHandshake} \subseteq BOOLEAN

VARIABLES
    state,      \* WritePipeState, or what the handshake / drop task is doing
    written,    \* bytes of the current frame already on the wire
    buffer,     \* payload of the PacketBuffer
    pc,         \* poll call in progress
    left,       \* bytes of poll_write's buf not yet taken
    wrote,      \* bytes of poll_write's buf taken by this call
    broken,     \* the TCP stream has failed
    accepted,   \* history: bytes poll_write has reported as written
    pushed      \* history: bytes that went into the packet buffer

connVars == <<state, written, buffer>>
callVars == <<pc, left, wrote>>
histVars == <<accepted, pushed>>
vars == <<owner, queue, rx, delivered, ctrl, state, written, buffer,
          pc, left, wrote, broken, accepted, pushed>>

WritingStates  == {"Buffering", "Flushing"}
ShutdownStates == {"WaitingLock", "ShutFlushing", "ShutWriting", "Done", "Error"}
TaskStates     == {"HandshakeLock", "HandshakeWrite", "DropLock", "DropRest", "DropEof"}
States == WritingStates \cup ShutdownStates \cup TaskStates \cup {"New", "Dropped"}

\* The states that own the mutex guard.
GuardStates == {"Flushing", "ShutFlushing", "ShutWriting",
                "HandshakeWrite", "DropRest", "DropEof"}

Calls == {"idle", "write", "writeFlush", "flush", "shutdown"}

ConnType == /\ state \in [Conn -> States]
            /\ written \in [Conn -> Nat]
            /\ buffer \in [Conn -> Seq(Nat)]

CallType == /\ pc \in [Conn -> Calls]
            /\ left \in [Conn -> Nat]
            /\ wrote \in [Conn -> Nat]

HistType == /\ accepted \in [Conn -> Nat]
            /\ pushed \in [Conn -> Seq(Nat)]

TypeOK == LockType /\ RxType /\ ConnType /\ CallType /\ broken \in BOOLEAN /\ HistType

Init ==
    /\ LockInit
    /\ RxInit
    /\ state = [c \in Conn |-> "New"]
    /\ written = [c \in Conn |-> 0]
    /\ buffer = [c \in Conn |-> << >>]
    /\ pc = [c \in Conn |-> "idle"]
    /\ left = [c \in Conn |-> 0]
    /\ wrote = [c \in Conn |-> 0]
    /\ broken = FALSE
    /\ accepted = [c \in Conn |-> 0]
    /\ pushed = [c \in Conn |-> << >>]

(***************************************************************************)
(* The frame c is sending.  Outside the three flushing states what is sent *)
(* is an empty frame, and the buffer is empty.                             *)
(***************************************************************************)
Sent(c) == written[c] = FrameSize(buffer[c])

\* Move c to state s with w bytes of its next frame written.
Become(c, s, w) ==
    /\ state' = [state EXCEPT ![c] = s]
    /\ written' = [written EXCEPT ![c] = w]

\* The poll call on c returns.
Return(c) ==
    /\ pc' = [pc EXCEPT ![c] = "idle"]
    /\ left' = [left EXCEPT ![c] = 0]
    /\ wrote' = [wrote EXCEPT ![c] = 0]

Goto(c, p) == pc' = [pc EXCEPT ![c] = p] /\ UNCHANGED <<left, wrote>>

Clear(c) == buffer' = [buffer EXCEPT ![c] = << >>]

-----------------------------------------------------------------------------
(***************************************************************************)
(* flush_buf, and the write_all of the handshake and of the drop task.     *)
(***************************************************************************)

\* c is inside flush_buf or write_all, about to poll the socket.
Sending(c) ==
    /\ written[c] < FrameSize(buffer[c])
    /\ \/ pc[c] = "writeFlush"
       \/ pc[c] = "flush" /\ state[c] = "Flushing" /\ ~is_empty(buffer[c])
       \/ pc[c] = "shutdown" /\ state[c] = "ShutFlushing" /\ ~is_empty(buffer[c])
       \/ pc[c] = "shutdown" /\ state[c] = "ShutWriting"
       \/ state[c] \in {"HandshakeWrite", "DropRest", "DropEof"}

\* The socket accepts the next byte.
SendByte(c) ==
    /\ Sending(c)
    /\ ~broken
    /\ Receive(ByteAt(c, buffer[c], written[c] + 1))
    /\ written' = [written EXCEPT ![c] = @ + 1]
    /\ UNCHANGED <<owner, queue, state, buffer, callVars, broken, histVars>>

\* MUTANT: Pending is returned as Pending, with bytes already in the packet.
SendPendingSilent(c) ==
    /\ Sending(c)
    /\ ~broken
    /\ pc[c] # "idle"
    /\ Return(c)
    /\ UNCHANGED <<lockVars, rxVars, connVars, broken, histVars>>

\* The socket returns Pending to a poll call.  poll_write reports what it has
\* taken so far, which only counts as Pending if that is nothing.
SendPending(c) ==
    /\ Sending(c)
    /\ ~broken
    /\ pc[c] # "idle"
    /\ Return(c)
    /\ accepted' = [accepted EXCEPT ![c] = @ + wrote[c]]
    /\ UNCHANGED <<lockVars, rxVars, connVars, broken, pushed>>

\* MUTANT: a failed shutdown counts as done.
SendErrorIgnored(c) ==
    /\ Sending(c)
    /\ broken
    /\ pc[c] # "idle"
    /\ Become(c, IF pc[c] = "shutdown" THEN "Done" ELSE "Buffering", 0)
    /\ Unlock
    /\ Return(c)
    /\ UNCHANGED <<rxVars, buffer, broken, histVars>>

\* The socket returns an error to a poll call.  The packet is kept, the lock
\* is not.
SendError(c) ==
    /\ Sending(c)
    /\ broken
    /\ pc[c] # "idle"
    /\ Become(c, IF pc[c] = "shutdown" THEN "Error" ELSE "Buffering", 0)
    /\ Unlock
    /\ Return(c)
    /\ UNCHANGED <<rxVars, buffer, broken, histVars>>

-----------------------------------------------------------------------------
(***************************************************************************)
(* poll_write                                                              *)
(***************************************************************************)

\* The application offers the next n bytes of its stream.  The n-th byte of
\* the stream is the number n, so a byte that is lost, repeated or out of
\* place shows.
WriteCall(c, n) ==
    /\ pc[c] = "idle" /\ state[c] \in WritingStates
    /\ Len(pushed[c]) + n <= IF broken THEN MaxBroken ELSE MaxBytes
    /\ pc' = [pc EXCEPT ![c] = "write"]
    /\ left' = [left EXCEPT ![c] = n]
    /\ UNCHANGED <<lockVars, rxVars, connVars, wrote, broken, histVars>>

\* push!: the packet takes as much of buf as it may.
Push(c, w) ==
    LET n    == push_len(buffer[c], w, left[c])
        from == accepted[c] + wrote[c]
        new  == [i \in 1 .. n |-> from + i]
    IN  /\ buffer' = [buffer EXCEPT ![c] = @ \o new]
        /\ pushed' = [pushed EXCEPT ![c] = @ \o new]
        /\ left' = [left EXCEPT ![c] = @ - n]
        /\ wrote' = [wrote EXCEPT ![c] = @ + n]

\* Buffering, room left: buffer only, no lock is taken.
WriteBuffering(c) ==
    /\ pc[c] = "write" /\ left[c] > 0
    /\ state[c] = "Buffering" /\ ~is_full(buffer[c])
    /\ Push(c, 0)
    /\ UNCHANGED <<lockVars, rxVars, state, written, pc, broken, accepted>>

\* Buffering and full: the packet must go out, and the lock is free.
WriteLock(c) ==
    /\ pc[c] = "write" /\ left[c] > 0
    /\ state[c] = "Buffering" /\ is_full(buffer[c])
    /\ LockReady(c)
    /\ Become(c, "Flushing", 0)
    /\ Goto(c, "writeFlush")
    /\ UNCHANGED <<rxVars, buffer, broken, histVars>>

\* The same, but another connection has the lock: Pending, whatever this call
\* has already pushed.
WriteLockPending(c) ==
    /\ pc[c] = "write" /\ left[c] > 0
    /\ state[c] = "Buffering" /\ is_full(buffer[c])
    /\ LockPending(c)
    /\ Return(c)
    /\ UNCHANGED <<rxVars, connVars, broken, histVars>>

\* Flushing since an earlier call: the frame may still grow as long as its
\* length field allows it, then flushing goes on.
WriteFlushing(c) ==
    /\ pc[c] = "write" /\ left[c] > 0
    /\ state[c] = "Flushing"
    /\ IF must_flush_for(buffer[c], written[c])
       THEN UNCHANGED <<buffer, pushed, left, wrote>>
       ELSE Push(c, written[c])
    /\ pc' = [pc EXCEPT ![c] = "writeFlush"]
    /\ UNCHANGED <<lockVars, rxVars, state, written, broken, accepted>>

\* MUTANT: the packet is not cleared.
WriteFlushedUncleared(c) ==
    /\ pc[c] = "writeFlush" /\ Sent(c)
    /\ Become(c, "Buffering", 0)
    /\ Unlock
    /\ Goto(c, "write")
    /\ UNCHANGED <<rxVars, buffer, broken, histVars>>

\* flush_buf has sent the frame: back to buffering, without the lock.
WriteFlushed(c) ==
    /\ pc[c] = "writeFlush" /\ Sent(c)
    /\ Clear(c)
    /\ Become(c, "Buffering", 0)
    /\ Unlock
    /\ Goto(c, "write")
    /\ UNCHANGED <<rxVars, broken, histVars>>

\* buf is used up: Ready(wrote).
WriteReturn(c) ==
    /\ pc[c] = "write" /\ left[c] = 0
    /\ Return(c)
    /\ accepted' = [accepted EXCEPT ![c] = @ + wrote[c]]
    /\ UNCHANGED <<lockVars, rxVars, connVars, broken, pushed>>

-----------------------------------------------------------------------------
(***************************************************************************)
(* poll_flush                                                              *)
(***************************************************************************)

FlushCall(c) ==
    /\ pc[c] = "idle" /\ state[c] \in WritingStates
    /\ Goto(c, "flush")
    /\ UNCHANGED <<lockVars, rxVars, connVars, broken, histVars>>

\* poll_locked.  An empty packet asks for the lock as well, to flush the socket.
FlushLock(c) ==
    /\ pc[c] = "flush" /\ state[c] = "Buffering"
    /\ LockReady(c)
    /\ Become(c, "Flushing", 0)
    /\ UNCHANGED <<rxVars, buffer, callVars, broken, histVars>>

FlushLockPending(c) ==
    /\ pc[c] = "flush" /\ state[c] = "Buffering"
    /\ LockPending(c)
    /\ Return(c)
    /\ UNCHANGED <<rxVars, connVars, broken, histVars>>

\* Nothing to send, or all sent.  Flushing a TcpStream is always Ready.
FlushReturn(c) ==
    /\ pc[c] = "flush" /\ state[c] = "Flushing"
    /\ is_empty(buffer[c]) \/ Sent(c)
    /\ Clear(c)
    /\ Become(c, "Buffering", 0)
    /\ Unlock
    /\ Return(c)
    /\ UNCHANGED <<rxVars, broken, histVars>>

-----------------------------------------------------------------------------
(***************************************************************************)
(* poll_shutdown                                                           *)
(***************************************************************************)

\* The first call leaves Writing for good and keeps the guard if there is
\* one; later calls resume.
ShutdownCall(c) ==
    /\ pc[c] = "idle"
    /\ state[c] \in WritingStates \cup {"WaitingLock", "ShutFlushing", "ShutWriting"}
    /\ state' = [state EXCEPT ![c] = CASE @ = "Buffering" -> "WaitingLock"
                                       [] @ = "Flushing"  -> "ShutFlushing"
                                       [] OTHER           -> @]
    /\ Goto(c, "shutdown")
    /\ UNCHANGED <<lockVars, rxVars, written, buffer, broken, histVars>>

ShutdownLock(c) ==
    /\ pc[c] = "shutdown" /\ state[c] = "WaitingLock"
    /\ LockReady(c)
    /\ Become(c, "ShutFlushing", 0)
    /\ UNCHANGED <<rxVars, buffer, callVars, broken, histVars>>

ShutdownLockPending(c) ==
    /\ pc[c] = "shutdown" /\ state[c] = "WaitingLock"
    /\ LockPending(c)
    /\ Return(c)
    /\ UNCHANGED <<rxVars, connVars, broken, histVars>>

\* MUTANT: the packet is not cleared.
ShutdownFlushedUncleared(c) ==
    /\ pc[c] = "shutdown" /\ state[c] = "ShutFlushing"
    /\ is_empty(buffer[c]) \/ Sent(c)
    /\ Become(c, "ShutWriting", 0)
    /\ UNCHANGED <<lockVars, rxVars, buffer, callVars, broken, histVars>>

\* The last data frame is out; next comes an empty one, under the same lock.
ShutdownFlushed(c) ==
    /\ pc[c] = "shutdown" /\ state[c] = "ShutFlushing"
    /\ is_empty(buffer[c]) \/ Sent(c)
    /\ Clear(c)
    /\ Become(c, "ShutWriting", 0)
    /\ UNCHANGED <<lockVars, rxVars, callVars, broken, histVars>>

\* MUTANT: Done keeps the guard.
ShutdownReturnLocked(c) ==
    /\ pc[c] = "shutdown" /\ state[c] = "ShutWriting" /\ Sent(c)
    /\ Become(c, "Done", 0)
    /\ Return(c)
    /\ UNCHANGED <<lockVars, rxVars, buffer, broken, histVars>>

\* The empty frame is out.
ShutdownReturn(c) ==
    /\ pc[c] = "shutdown" /\ state[c] = "ShutWriting" /\ Sent(c)
    /\ Become(c, "Done", 0)
    /\ Unlock
    /\ Return(c)
    /\ UNCHANGED <<rxVars, buffer, broken, histVars>>

-----------------------------------------------------------------------------
(***************************************************************************)
(* Creation: add_connection with its handshake, and accept without one.    *)
(***************************************************************************)

\* MUTANT: the connection is used without a handshake.
AddConnectionSilent(c) ==
    /\ c \in Openers /\ state[c] = "New"
    /\ Become(c, "Buffering", 0)
    /\ UNCHANGED <<lockVars, rxVars, buffer, callVars, broken, histVars>>

AddConnection(c) ==
    /\ c \in Openers /\ state[c] = "New"
    /\ Become(c, "HandshakeLock", 0)
    /\ UNCHANGED <<lockVars, rxVars, buffer, callVars, broken, histVars>>

Accept(c) ==
    /\ c \notin Openers /\ state[c] = "New"
    /\ Become(c, "Buffering", 0)
    /\ UNCHANGED <<lockVars, rxVars, buffer, callVars, broken, histVars>>

HandshakeLock(c) ==
    /\ state[c] = "HandshakeLock"
    /\ \/ LockReady(c) /\ Become(c, "HandshakeWrite", 0)
       \/ LockPending(c) /\ ~Queued(c) /\ UNCHANGED <<state, written>>
    /\ UNCHANGED <<rxVars, buffer, callVars, broken, histVars>>

HandshakeReturn(c) ==
    /\ state[c] = "HandshakeWrite" /\ Sent(c)
    /\ Become(c, "Buffering", 0)
    /\ Unlock
    /\ UNCHANGED <<rxVars, buffer, callVars, broken, histVars>>

\* add_connection gives up, on an error or because its future is dropped: the
\* guard or the queued lock goes first, then Drop runs on an idle writer.
HandshakeAbort(c) ==
    /\ state[c] \in {"HandshakeLock", "HandshakeWrite"}
    /\ \/ CancelHandshake
       \/ broken /\ Sending(c)
    /\ LockDrop(c)
    /\ Become(c, "DropLock", 0)
    /\ UNCHANGED <<rxVars, buffer, callVars, broken, histVars>>

-----------------------------------------------------------------------------
(***************************************************************************)
(* Drop, and the task it spawns.                                           *)
(***************************************************************************)

\* MUTANT: Drop forgets a pending shutdown together with its guard or lock future.
DropShutdownLocked(c) ==
    /\ pc[c] = "idle"
    /\ state[c] \in ShutdownStates
    /\ DropDuringShutdown \/ state[c] \in {"Done", "Error"}
    /\ Become(c, "Dropped", 0)
    /\ Clear(c)
    /\ UNCHANGED <<lockVars, rxVars, callVars, broken, histVars>>

\* Shut down, or being shut down: nothing is sent, whatever is held is
\* released.
DropShutdown(c) ==
    /\ pc[c] = "idle"
    /\ state[c] \in ShutdownStates
    /\ DropDuringShutdown \/ state[c] \in {"Done", "Error"}
    /\ LockDrop(c)
    /\ Become(c, "Dropped", 0)
    /\ Clear(c)
    /\ UNCHANGED <<rxVars, callVars, broken, histVars>>

\* MUTANT: a frame that has begun is thrown away as well.
DropWritingBegun(c) ==
    /\ pc[c] = "idle"
    /\ \/ state[c] = "Flushing" /\ Become(c, "DropEof", 0)
       \/ state[c] = "Buffering" /\ Become(c, "DropLock", 0)
    /\ Clear(c)
    /\ UNCHANGED <<lockVars, rxVars, callVars, broken, histVars>>

\* MUTANT: a connection that is only buffering is closed without a frame.
DropWritingSilent(c) ==
    /\ pc[c] = "idle"
    /\ \/ /\ state[c] = "Flushing" /\ written[c] >= 1
          /\ Become(c, "DropRest", written[c])
          /\ UNCHANGED buffer
       \/ /\ state[c] = "Flushing" /\ written[c] = 0
          /\ Become(c, "DropEof", 0)
          /\ Clear(c)
       \/ /\ state[c] = "Buffering"
          /\ Become(c, "Dropped", 0)
          /\ Clear(c)
    /\ UNCHANGED <<lockVars, rxVars, callVars, broken, histVars>>

\* Still writing.  A frame that has begun is completed, a packet that has not
\* is thrown away; lock and lock future move into the task.
DropWriting(c) ==
    /\ pc[c] = "idle"
    /\ \/ /\ state[c] = "Flushing" /\ written[c] >= 1
          /\ Become(c, "DropRest", written[c])
          /\ UNCHANGED buffer
       \/ /\ state[c] = "Flushing" /\ written[c] = 0
          /\ Become(c, "DropEof", 0)
          /\ Clear(c)
       \/ /\ state[c] = "Buffering"
          /\ Become(c, "DropLock", 0)
          /\ Clear(c)
    /\ UNCHANGED <<lockVars, rxVars, callVars, broken, histVars>>

DropLock(c) ==
    /\ state[c] = "DropLock"
    /\ \/ LockReady(c) /\ Become(c, "DropEof", 0)
       \/ LockPending(c) /\ ~Queued(c) /\ UNCHANGED <<state, written>>
    /\ UNCHANGED <<rxVars, buffer, callVars, broken, histVars>>

DropRestSent(c) ==
    /\ state[c] = "DropRest" /\ Sent(c)
    /\ Become(c, "DropEof", 0)
    /\ Clear(c)
    /\ UNCHANGED <<lockVars, rxVars, callVars, broken, histVars>>

\* MUTANT: the guard that Drop has moved into the task outlives it.
DropEndLocked(c) ==
    /\ \/ state[c] = "DropEof" /\ Sent(c)
       \/ state[c] \in {"DropRest", "DropEof"} /\ Sending(c) /\ broken
    /\ Become(c, "Dropped", 0)
    /\ Clear(c)
    /\ UNCHANGED <<lockVars, rxVars, callVars, broken, histVars>>

\* The task ends: the empty frame is out, or a write failed.
DropEnd(c) ==
    /\ \/ state[c] = "DropEof" /\ Sent(c)
       \/ state[c] \in {"DropRest", "DropEof"} /\ Sending(c) /\ broken
    /\ Become(c, "Dropped", 0)
    /\ Clear(c)
    /\ Unlock
    /\ UNCHANGED <<rxVars, callVars, broken, histVars>>

-----------------------------------------------------------------------------

\* The peer goes away.
Break ==
    /\ CanBreak /\ ~broken
    /\ \A c \in Conn : Len(pushed[c]) <= MaxBroken
    /\ broken' = TRUE
    /\ UNCHANGED <<lockVars, rxVars, connVars, callVars, histVars>>

\* What the application decides to do.
Application(c) ==
    \/ AddConnection(c) \/ Accept(c)
    \/ \E n \in 1 .. MaxChunk : WriteCall(c, n)
    \/ FlushCall(c) \/ ShutdownCall(c)
    \/ DropShutdown(c) \/ DropWriting(c)

\* A call or a task goes on by itself.
Proceed(c) ==
    \/ SendError(c)
    \/ WriteBuffering(c) \/ WriteLock(c) \/ WriteLockPending(c)
    \/ WriteFlushing(c) \/ WriteFlushed(c) \/ WriteReturn(c)
    \/ FlushLock(c) \/ FlushLockPending(c) \/ FlushReturn(c)
    \/ ShutdownLock(c) \/ ShutdownLockPending(c)
    \/ ShutdownFlushed(c) \/ ShutdownReturn(c)
    \/ HandshakeLock(c) \/ HandshakeReturn(c)
    \/ DropLock(c) \/ DropRestSent(c) \/ DropEnd(c)

Next ==
    \/ \E c \in Conn : \/ Application(c) \/ Proceed(c)
                      \/ SendByte(c) \/ SendPending(c) \/ HandshakeAbort(c)
    \/ Break

Spec == Init /\ [][Next]_vars

(***************************************************************************)
(* Fairness.  The executor runs what can run: tokio wakes the task whose   *)
(* lock or socket is ready, and the global runtime polls the drop tasks.   *)
(* The peer keeps reading, so a socket that is polled again and again      *)
(* accepts a byte again and again.  A diligent application keeps polling   *)
(* shutdown; nothing is assumed of the others once a call has returned.    *)
(***************************************************************************)
Fairness ==
    /\ \A c \in Conn : WF_vars(Proceed(c)) /\ SF_vars(SendByte(c))
    /\ \A c \in Diligent : SF_vars(ShutdownCall(c))

FairSpec == Spec /\ Fairness

-----------------------------------------------------------------------------
(***************************************************************************)
(* Safety                                                                  *)
(***************************************************************************)

\* The peer never meets a byte that a well-formed frame would not have in
\* that place, however connections interleave, frames grow while they are
\* being sent, and writers are dropped: flush_buf resumes where it stopped,
\* push respects the length digits already sent, and the lock is only given
\* up between frames.
FramesIntact == rx.intact

\* Payload bytes of the frame in progress that are already on the wire.
SentPayload(c) ==
    IF state[c] \in {"Flushing", "ShutFlushing", "DropRest"} /\ written[c] > HeaderSize
    THEN written[c] - HeaderSize
    ELSE 0

\* The states in which the packet buffer still is to be sent.
HoldsPacket(c) == state[c] \in WritingStates \cup ShutdownStates \cup {"DropRest"}

\* The part of the packet that has not gone out.
Unsent(c) == SubSeq(buffer[c], SentPayload(c) + 1, Len(buffer[c]))

\* What a connection pushed into its packet buffer arrives at its address in
\* order, once, and nothing else does: what was delivered, followed by what
\* the buffer still has to send, is what was pushed.
StreamOrder ==
    \A c \in Conn : ~broken /\ HoldsPacket(c) => pushed[c] = delivered[c] \o Unsent(c)

\* A connection that shut down, or was dropped, leaves the peer in no doubt:
\* the peer toggles an address at every empty frame, and of a connection that
\* is over it has seen both the opening and the closing frame, or neither.
\* (The opening frame of an accepted connection came from the peer.)
Closed(c) == IF c \in Openers THEN ctrl[c] \in {0, 2} ELSE ctrl[c] = 1
CleanClose ==
    \A c \in Conn : state[c] \in {"Done", "Dropped"} /\ ~broken => Closed(c)

\* shutdown completes only after everything pushed has been delivered.
ShutdownDelivers ==
    \A c \in Conn : state[c] = "Done" => delivered[c] = pushed[c]

\* A connection dropped without shutdown is shut down by the task that Drop
\* spawns: like a shutdown, that delivers everything pushed.
DropDelivers ==
    \A c \in Conn : state[c] = "Dropped" /\ ~broken => delivered[c] = pushed[c]

\* The n-th byte delivered is the n-th byte the application wrote: a byte that
\* poll_write did not report as taken is offered again, so it must not have
\* gone into the packet.
DeliveredMatchesSent ==
    \A c \in Conn : delivered[c] = [i \in 1 .. Len(delivered[c]) |-> i]

\* Nothing is delivered for a connection before its handshake or after its
\* closing frame.
OpenWhileDelivering ==
    [][\A c \in Conn : delivered'[c] # delivered[c] =>
          ctrl[c] = IF c \in Openers THEN 1 ELSE 0]_vars

\* No assertion of the code fails and no slice is out of bounds, so no writer
\* is poisoned: bytes_from(written) stays inside the frame, the handshake
\* starts from an empty packet, and the closing frame of shutdown is empty.
NeverPoisoned ==
    \A c \in Conn :
        /\ written[c] <= FrameSize(buffer[c])
        /\ Len(buffer[c]) <= PACKET_SIZE
        /\ state[c] \in {"HandshakeLock", "HandshakeWrite", "ShutWriting"}
              => is_empty(buffer[c])

\* A connection that is over has nothing of the mutex left, neither a guard
\* nor a granted or queued lock future: it cannot stand in anyone's way.
LocksReleased ==
    \A c \in Conn : state[c] \in {"Done", "Error", "Dropped"} => owner # c /\ ~Queued(c)

-----------------------------------------------------------------------------
(***************************************************************************)
(* The inductive invariant behind FramesIntact.                            *)
(***************************************************************************)

\* Whoever is in a state with a guard owns the mutex.
LockInv == \A c \in Conn : state[c] \in GuardStates => owner = c

\* A poll call runs in the states it was made in.
InCall(c) ==
    /\ pc[c] = "writeFlush" => state[c] = "Flushing"
    /\ pc[c] \in {"write", "flush"} => state[c] \in WritingStates
    /\ pc[c] = "shutdown" => state[c] \in {"WaitingLock", "ShutFlushing", "ShutWriting"}

\* Where the packet is empty, and that `written` counts within a frame.
InPacket(c) ==
    /\ Len(buffer[c]) <= PACKET_SIZE
    /\ written[c] <= FrameSize(buffer[c])
    /\ state[c] \notin GuardStates => written[c] = 0
    /\ state[c] \in {"New", "HandshakeLock", "HandshakeWrite", "ShutWriting", "Done",
                    "DropLock", "DropEof", "Dropped"} => buffer[c] = << >>
    /\ state[c] = "Flushing" /\ buffer[c] = << >> => pc[c] = "flush" /\ written[c] = 0
    /\ state[c] = "ShutFlushing" /\ buffer[c] = << >> => written[c] = 0
    /\ state[c] = "DropRest" => buffer[c] # << >>

CallInv == \A c \in Conn : InCall(c) /\ InPacket(c)

\* The peer has parsed exactly the first written[c] bytes of c's frame, and the
\* digits it has read agree with the packet as it is now.
RxAt(c) ==
    \/ /\ written[c] <= AddrSize
       /\ rx.left = 0 /\ rx.filled = written[c]
       /\ written[c] > 0 => rx.addr = c
    \/ /\ written[c] = AddrSize + 1
       /\ rx.left = 0 /\ rx.filled = written[c]
       /\ rx.addr = c /\ rx.high = HighDigit(Len(buffer[c]))
    \/ /\ written[c] >= HeaderSize
       /\ rx.filled = 0 /\ rx.left = FrameSize(buffer[c]) - written[c]
       /\ rx.left > 0 => rx.addr = c

RxInv ==
    /\ rx.intact
    /\ ~broken => \/ \E c \in Conn : state[c] \in GuardStates /\ RxAt(c)
                  \/ AtBoundary /\ \A c \in Conn : state[c] \notin GuardStates

\* One inductive invariant: the wire is between two frames exactly when no
\* guard is held, and inside the frame of the connection that holds it.
IInv == TypeOK /\ LockInv /\ CallInv /\ RxInv

(***************************************************************************)
(* The inductive invariant behind LocksReleased, about the mutex and the   *)
(* states alone.                                                           *)
(***************************************************************************)
UsesLock(c) == owner = c \/ Queued(c)

\* The guard and the place in tokio's queue belong to connections whose state says so
\* (poll_lock, take_token), and to none that is done, failed or dropped.
MutexInv ==
    /\ LockType /\ state \in [Conn -> States] /\ pc \in [Conn -> Calls]
    /\ QueuedOnce /\ LockInv
    /\ \A c \in Conn : InCall(c)
    /\ \A c \in Conn : UsesLock(c) => state[c] \notin {"Done", "Error", "Dropped"}

(***************************************************************************)
(* What has to be added to IInv for the stream of a connection: what was   *)
(* delivered and how many empty frames the peer has seen.                  *)
(***************************************************************************)

\* Nothing is pushed before the handshake is over; with the first byte of the
\* closing frame everything has been delivered, whatever breaks from then on.
InStream(c) ==
    /\ ~broken /\ HoldsPacket(c) => pushed[c] = delivered[c] \o Unsent(c)
    /\ state[c] \in {"New", "HandshakeLock", "HandshakeWrite"} =>
          pushed[c] = << >> /\ delivered[c] = << >>
    /\ state[c] = "Done" \/ (state[c] = "ShutWriting" /\ written[c] > 0) =>
          delivered[c] = pushed[c]

\* Empty frames of an open connection, and whether another one is complete.
Opening(c) == IF c \in Openers THEN 1 ELSE 0
Toggled(c) == IF written[c] = HeaderSize THEN 1 ELSE 0

\* The empty frames of c, as far as its state says.
InToggle(c) ==
    ~broken =>
        /\ state[c] # "Error"
        /\ state[c] \in {"HandshakeLock", "HandshakeWrite"} => c \in Openers
        /\ state[c] \in {"New", "HandshakeLock"} => ctrl[c] = 0
        /\ state[c] = "HandshakeWrite" => ctrl[c] = Toggled(c)
        /\ state[c] \in {"Buffering", "Flushing", "WaitingLock", "ShutFlushing", "DropLock",
                         "DropRest"} => ctrl[c] = Opening(c)
        /\ state[c] \in {"ShutWriting", "DropEof"} => ctrl[c] = Opening(c) + Toggled(c)
        /\ state[c] \in {"Done", "Dropped"} => ctrl[c] = Opening(c) + 1

\* What poll_write has pushed is, in order, what the peer got and what is still in the
\* packet, and the peer has seen as many empty frames as handshake, poll_shutdown and
\* Drop have sent.
StreamInv == \A c \in Conn : InStream(c) /\ InToggle(c)

\* A connection alone never waits for the mutex: what was pushed is the first so
\* many bytes of its stream, and poll_write has reported, or is about to report,
\* all of them.
UpTo(n) == [i \in 1 .. n |-> i]
Numbered(c) ==
    /\ delivered[c] = UpTo(Len(delivered[c]))
    /\ ~broken => pushed[c] = UpTo(accepted[c] + wrote[c])
    /\ pc[c] \notin {"write", "writeFlush"} => wrote[c] = 0

\* With one connection nobody waits for the mutex and poll_write repeats no byte.
NumberInv == queue = << >> /\ \A c \in Conn : Numbered(c)

-----------------------------------------------------------------------------
(***************************************************************************)
(* Liveness                                                                *)
(***************************************************************************)

\* A shutdown that has begun ends, although it competes for the lock with
\* every other connection and the socket keeps returning Pending.
ShutdownCompletes ==
    \A c \in Diligent :
        state[c] \in ShutdownStates ~> state[c] \in {"Done", "Error", "Dropped"}

\* The task spawned for a connection dropped without shutdown gets the lock,
\* completes the frame it inherited and ends.
DropCompletes ==
    \A c \in Conn :
        state[c] \in {"DropLock", "DropRest", "DropEof"} ~> state[c] = "Dropped"
=============================================================================
