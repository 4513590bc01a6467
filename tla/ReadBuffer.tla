----------------------------- MODULE ReadBuffer -----------------------------
(***************************************************************************)
(* The receive buffer of one logical connection (src/read/read_buffer.rs): *)
(* a heap block that fill_buffer fills from the socket and read empties    *)
(* into the application's ReadBuf.  The block is reused from its start     *)
(* only when it has been read to the end.                                  *)
(*                                                                         *)
(* `mem` is the block, cell by cell; a cell never written is Uninit, so    *)
(* that handing one out would show.  The n-th byte of the stream is the    *)
(* number n.  The entry's mutex makes each operation one step.             *)
(***************************************************************************)
EXTENDS Naturals, Sequences

CONSTANTS Capacity,   \* 2 * u16::MAX in the code (DEFAULT_BUFFER_CAPACITY)
          MaxStream,  \* bound: bytes that arrive
          Uninit      \* a cell nobody has written

ASSUME CapacityAssumption == Capacity \in Nat \ {0}
ASSUME StreamAssumption == MaxStream \in Nat
ASSUME UninitAssumption == Uninit \notin Nat

VARIABLES mem, pos, filled, initialized,
          arrived,     \* history: bytes taken from the socket
          out          \* history: bytes handed to the application

bufferVars == <<mem, pos, filled, initialized, arrived, out>>

Cells == 0 .. (Capacity - 1)

BufferType ==
    /\ mem \in [Cells -> Nat \cup {Uninit}]
    /\ {pos, filled, initialized} \subseteq 0 .. Capacity
    /\ arrived \in Nat
    /\ out \in Seq(Nat \cup {Uninit})

BufferInit ==
    /\ mem = [i \in Cells |-> Uninit]
    /\ pos = 0 /\ filled = 0 /\ initialized = 0
    /\ arrived = 0
    /\ out = << >>

-----------------------------------------------------------------------------

\* The bytes not yet read.
bytes == [i \in 1 .. (filled - pos) |-> mem[pos + i - 1]]

\* The block once the next n bytes of the stream are stored from `at` on.
Stored(at, n) ==
    [i \in Cells |-> IF at <= i /\ i < at + n THEN arrived + (i - at) + 1 ELSE mem[i]]

\* MUTANT: the room left is not looked at.
fill_buffer_unbounded(n) ==
    /\ filled < Capacity
    /\ mem' = Stored(filled, n)
    /\ filled' = filled + n
    /\ initialized' = IF filled + n > initialized THEN filled + n ELSE initialized
    /\ arrived' = arrived + n
    /\ UNCHANGED <<pos, out>>

\* MUTANT: the bytes are stored at the read offset.
fill_buffer_at_pos(n) ==
    /\ filled < Capacity /\ n <= Capacity - filled
    /\ mem' = Stored(pos, n)
    /\ filled' = filled + n
    /\ initialized' = IF filled + n > initialized THEN filled + n ELSE initialized
    /\ arrived' = arrived + n
    /\ UNCHANGED <<pos, out>>

\* MUTANT: the initialized length is not brought up to date.
fill_buffer_uninit(n) ==
    /\ filled < Capacity /\ n <= Capacity - filled
    /\ mem' = Stored(filled, n)
    /\ filled' = filled + n
    /\ arrived' = arrived + n
    /\ UNCHANGED <<pos, initialized, out>>

\* MUTANT: the whole block counts as initialized.
fill_buffer_all_init(n) ==
    /\ filled < Capacity /\ n <= Capacity - filled
    /\ mem' = Stored(filled, n)
    /\ filled' = filled + n
    /\ initialized' = Capacity
    /\ arrived' = arrived + n
    /\ UNCHANGED <<pos, out>>

\* The socket has n bytes that fit, none at the end of the stream: they go
\* behind the filled part.  A full block (Ready(None)), Pending and an error
\* change nothing: they are stuttering steps.
fill_buffer(n) ==
    /\ filled < Capacity /\ n <= Capacity - filled
    /\ mem' = Stored(filled, n)
    /\ filled' = filled + n
    /\ initialized' = IF filled + n > initialized THEN filled + n ELSE initialized
    /\ arrived' = arrived + n
    /\ UNCHANGED <<pos, out>>

\* How much a read into so much room takes.
ReadLen(room) == IF room < Len(bytes) THEN room ELSE Len(bytes)

\* MUTANT: a block that was read to the end is not started over.
read_onward(room) ==
    /\ out' = out \o SubSeq(bytes, 1, ReadLen(room))
    /\ pos' = pos + ReadLen(room)
    /\ UNCHANGED <<mem, filled, initialized, arrived>>

\* MUTANT: every read starts the block over.
read_discarding(room) ==
    /\ out' = out \o SubSeq(bytes, 1, ReadLen(room))
    /\ IF ReadLen(room) = 0
       THEN UNCHANGED <<pos, filled>>
       ELSE pos' = 0 /\ filled' = 0
    /\ UNCHANGED <<mem, initialized, arrived>>

\* The application reads into a ReadBuf with so much room.
read(room) ==
    /\ out' = out \o SubSeq(bytes, 1, ReadLen(room))
    /\ \/ ReadLen(room) = 0 /\ UNCHANGED <<pos, filled>>
       \/ /\ ReadLen(room) > 0 /\ pos + ReadLen(room) = filled
          /\ pos' = 0 /\ filled' = 0
       \/ /\ ReadLen(room) > 0 /\ pos + ReadLen(room) # filled
          /\ pos' = pos + ReadLen(room) /\ UNCHANGED filled
    /\ UNCHANGED <<mem, initialized, arrived>>

BufferNext ==
    \/ \E n \in 0 .. Capacity : arrived + n <= MaxStream /\ fill_buffer(n)
    \/ \E room \in 0 .. Capacity : read(room)

BufferSpec == BufferInit /\ [][BufferNext]_bufferVars

-----------------------------------------------------------------------------

\* The order of the offsets that bytes, fill_buffer and read take for granted
\* (unchecked_sub, assert_unchecked and the slice of raw_bytes): if any state
\* broke it, the code would have undefined behaviour.
OffsetsOrdered == pos <= filled /\ filled <= initialized /\ initialized <= Capacity

\* The bytes that fill_buffer declares initialized to the ReadBuf have all been
\* written, also after the block was started over many times.
InitializedWritten == \A i \in Cells : i < initialized => mem[i] # Uninit

\* What the application has read, followed by what the block still holds, is
\* what arrived: every byte once and in order, however fills and partial reads
\* alternate and wherever the block is started over.
NothingLost == out \o bytes = [i \in 1 .. arrived |-> i]

\* When fill_buffer answers None the shared reader waits for the application to
\* read, which helps only if there is something to read: a block with no room
\* left holds unread bytes ("the polling only waits if the buffer is full",
\* ReaderInner::poll_read).
FullHasBytes == filled = Capacity => Len(bytes) > 0

\* The inductive invariant behind these: the offsets, that an empty block has
\* been started over, and which byte of the stream is in which unread cell.
BufferInv ==
    /\ BufferType /\ OffsetsOrdered /\ InitializedWritten
    /\ pos = filled => filled = 0
    /\ Len(out) + (filled - pos) = arrived
    /\ \A i \in 1 .. Len(out) : out[i] = i
    /\ \A k \in Cells : pos <= k /\ k < filled => mem[k] = Len(out) + (k - pos) + 1

-----------------------------------------------------------------------------

\* The block implements a bounded first-in first-out queue of bytes.
Fifo == INSTANCE ByteQueue WITH q <- bytes, taken <- out, given <- arrived

\* Every fill is a put of that many bytes and every read a take.
FifoSpec == Fifo!QSpec
=============================================================================
