-------------------------- MODULE ReadBufferProofs --------------------------
(***************************************************************************)
(* ReadBuffer: for every capacity and every length of stream, the block is *)
(* safe to use unchecked, loses nothing, and is a bounded queue.           *)
(***************************************************************************)
EXTENDS ReadBuffer, Integers, SequenceTheorems, TLAPS

\* Every block starts out with the invariant.
LEMMA InitBuffer == BufferInit => BufferInv
  BY CapacityAssumption
  DEF BufferInit, BufferInv, BufferType, OffsetsOrdered, InitializedWritten, Cells

\* What bytes() returns: the next filled - pos bytes of the stream.
BytesAre ==
  /\ bytes \in Seq(Nat \cup {Uninit})
  /\ Len(bytes) = filled - pos
  /\ \A i \in 1 .. (filled - pos) : bytes[i] = Len(out) + i

\* The invariant determines what bytes() returns.
LEMMA BytesFacts == BufferInv => BytesAre
  <1> SUFFICES ASSUME BufferInv PROVE BytesAre
    OBVIOUS
  <1>1. filled - pos \in Nat /\ pos \in Nat /\ filled \in Nat /\ filled <= Capacity
    BY CapacityAssumption DEF BufferInv, BufferType, OffsetsOrdered
  <1>2. \A i \in 1 .. (filled - pos) : pos + i - 1 \in Cells
    BY <1>1, CapacityAssumption DEF Cells
  <1>3. \A i \in 1 .. (filled - pos) : mem[pos + i - 1] \in Nat \cup {Uninit}
    BY <1>2 DEF BufferInv, BufferType
  <1>4. bytes \in [1 .. (filled - pos) -> Nat \cup {Uninit}]
    BY <1>3 DEF bytes
  <1>5. bytes \in Seq(Nat \cup {Uninit}) /\ Len(bytes) = filled - pos
    BY <1>1, <1>4
  <1>6. \A i \in 1 .. (filled - pos) : mem[pos + i - 1] = Len(out) + i
    <2> TAKE i \in 1 .. (filled - pos)
    <2>1. pos + i - 1 \in Cells /\ pos <= pos + i - 1 /\ pos + i - 1 < filled
      BY <1>1, <1>2
    <2>2. mem[pos + i - 1] = Len(out) + ((pos + i - 1) - pos) + 1
      BY <2>1 DEF BufferInv
    <2>3. Len(out) \in Nat
      BY DEF BufferInv, BufferType
    <2> QED BY <1>1, <2>2, <2>3
  <1> QED BY <1>5, <1>6, Zenon DEF bytes, BytesAre

\* Storing n bytes behind the filled part keeps the invariant: fill_buffer.
LEMMA FillBuffer ==
  ASSUME BufferInv, NEW n \in 0 .. Capacity, fill_buffer(n)
  PROVE  BufferInv'
  <1>1. /\ filled \in Nat /\ pos \in Nat /\ initialized \in Nat /\ arrived \in Nat
        /\ n \in Nat /\ Capacity \in Nat /\ Len(out) \in Nat
        /\ pos <= filled /\ filled <= initialized /\ initialized <= Capacity
    BY CapacityAssumption DEF BufferInv, BufferType, OffsetsOrdered
  <1>2. /\ filled' = filled + n /\ filled + n <= Capacity
        /\ pos' = pos /\ out' = out /\ arrived' = arrived + n
        /\ initialized' = IF filled + n > initialized THEN filled + n ELSE initialized
        /\ mem' = Stored(filled, n)
    BY <1>1 DEF fill_buffer
  <1>3. \A i \in Cells : i \in Nat /\ i < Capacity
    BY <1>1 DEF Cells
  <1>4. \A i \in Cells : mem'[i] = IF filled <= i /\ i < filled + n
                                   THEN arrived + (i - filled) + 1 ELSE mem[i]
    BY <1>2 DEF Stored
  <1>5. mem' \in [Cells -> Nat \cup {Uninit}]
    <2>1. \A i \in Cells : filled <= i => arrived + (i - filled) + 1 \in Nat
      BY <1>1, <1>3
    <2>2. \A i \in Cells : mem[i] \in Nat \cup {Uninit}
      BY DEF BufferInv, BufferType
    <2> QED BY <1>2, <2>1, <2>2 DEF Stored
  <1>6. BufferType'
    BY <1>1, <1>2, <1>5 DEF BufferInv, BufferType
  <1>7. OffsetsOrdered'
    BY <1>1, <1>2 DEF OffsetsOrdered
  <1>8. InitializedWritten'
    <2> SUFFICES ASSUME NEW i \in Cells, i < initialized' PROVE mem'[i] # Uninit
      BY DEF InitializedWritten
    <2>1. CASE filled <= i /\ i < filled + n
      <3>1. mem'[i] = arrived + (i - filled) + 1
        BY <1>4, <2>1
      <3>2. arrived + (i - filled) + 1 \in Nat
        BY <1>1, <1>3, <2>1, SMTT(20)
      <3> QED BY <3>1, <3>2, UninitAssumption
    <2>2. CASE ~(filled <= i /\ i < filled + n)
      <3>1. mem'[i] = mem[i]
        BY <1>4, <2>2
      <3>2. i < initialized
        BY <1>1, <1>2, <1>3, <2>2
      <3> QED BY <3>1, <3>2 DEF BufferInv, InitializedWritten
    <2> QED BY <2>1, <2>2
  <1>9. (pos = filled => filled = 0)'
    BY <1>1, <1>2 DEF BufferInv, fill_buffer
  <1>10. (Len(out) + (filled - pos) = arrived)'
    BY <1>1, <1>2 DEF BufferInv
  <1>11. \A k \in Cells : pos' <= k /\ k < filled' => mem'[k] = Len(out') + (k - pos') + 1
    <2> SUFFICES ASSUME NEW k \in Cells, pos <= k, k < filled + n
                 PROVE  mem'[k] = Len(out) + (k - pos) + 1
      BY <1>2
    <2>1. CASE filled <= k
      <3>1. mem'[k] = arrived + (k - filled) + 1
        BY <1>4, <2>1
      <3>2. arrived = Len(out) + (filled - pos)
        BY DEF BufferInv
      <3> QED BY <1>1, <1>3, <3>1, <3>2
    <2>2. CASE k < filled
      <3>1. mem'[k] = mem[k]
        BY <1>1, <1>3, <1>4, <2>2
      <3> QED BY <2>2, <3>1 DEF BufferInv
    <2> QED BY <1>1, <1>3, <2>1, <2>2
  <1> QED BY <1>2, <1>6, <1>7, <1>8, <1>9, <1>10, <1>11, Zenon DEF BufferInv

\* What read appends to the application's bytes, and by how much it moves on.
LEMMA ReadFacts ==
  ASSUME BufferInv, NEW room \in 0 .. Capacity
  PROVE  LET len == ReadLen(room)
             got == SubSeq(bytes, 1, len)
         IN  /\ len \in 0 .. (filled - pos)
             /\ got \in Seq(Nat \cup {Uninit}) /\ Len(got) = len
             /\ \A i \in 1 .. len : got[i] = Len(out) + i
             /\ out \o got \in Seq(Nat \cup {Uninit})
             /\ Len(out \o got) = Len(out) + len
             /\ \A i \in 1 .. (Len(out) + len) : (out \o got)[i] = i
  <1> DEFINE len == ReadLen(room)
             got == SubSeq(bytes, 1, len)
  <1>1. /\ filled \in Nat /\ pos \in Nat /\ filled - pos \in Nat
        /\ out \in Seq(Nat \cup {Uninit}) /\ Len(out) \in Nat
    BY CapacityAssumption DEF BufferInv, BufferType, OffsetsOrdered
  <1>2. /\ bytes \in Seq(Nat \cup {Uninit}) /\ Len(bytes) = filled - pos
        /\ \A i \in 1 .. (filled - pos) : bytes[i] = Len(out) + i
    BY BytesFacts DEF BytesAre
  <1>3. len \in 0 .. (filled - pos)
    BY <1>1, <1>2, CapacityAssumption DEF ReadLen
  <1> HIDE DEF len
  <1>4. /\ got \in Seq(Nat \cup {Uninit}) /\ Len(got) = len
        /\ \A i \in 1 .. len : got[i] = bytes[i]
    BY <1>1, <1>2, <1>3
  <1>5. \A i \in 1 .. len : got[i] = Len(out) + i
    BY <1>1, <1>2, <1>3, <1>4
  <1> HIDE DEF got
  <1>6. out \o got \in Seq(Nat \cup {Uninit}) /\ Len(out \o got) = Len(out) + len
    BY <1>1, <1>4
  <1>7. \A i \in 1 .. (Len(out) + len) : (out \o got)[i] = i
    <2> TAKE i \in 1 .. (Len(out) + len)
    <2>1. CASE i <= Len(out)
      <3>1. (out \o got)[i] = out[i]
        BY <1>1, <1>3, <1>4, <2>1
      <3>2. out[i] = i
        BY <1>1, <1>3, <2>1 DEF BufferInv
      <3> QED BY <3>1, <3>2
    <2>2. CASE i > Len(out)
      <3>1. (out \o got)[i] = got[i - Len(out)]
        BY <1>1, <1>3, <1>4, <2>2
      <3>2. i - Len(out) \in 1 .. len
        BY <1>1, <1>3, <2>2
      <3> QED BY <1>1, <1>3, <1>5, <3>1, <3>2
    <2>3. i <= Len(out) \/ i > Len(out)
      BY <1>1, <1>3
    <2> QED BY <2>1, <2>2, <2>3, Zenon
  <1> QED BY <1>3, <1>4, <1>5, <1>6, <1>7, Zenon DEF got, len

\* Where read leaves the offsets.
LEMMA ReadOffsets ==
  ASSUME BufferInv, NEW room \in 0 .. Capacity, read(room)
  PROVE  /\ UNCHANGED <<mem, initialized, arrived>>
         /\ out' = out \o SubSeq(bytes, 1, ReadLen(room))
         /\ \/ pos + ReadLen(room) = filled /\ pos' = 0 /\ filled' = 0
            \/ pos + ReadLen(room) < filled /\ pos' = pos + ReadLen(room) /\ filled' = filled
  <1> DEFINE len == ReadLen(room)
  <1>1. len \in 0 .. (filled - pos)
    BY ReadFacts
  <1>2. /\ filled \in Nat /\ pos \in Nat /\ pos <= filled
        /\ pos = filled => filled = 0
    BY CapacityAssumption DEF BufferInv, BufferType, OffsetsOrdered
  <1>3. /\ UNCHANGED <<mem, initialized, arrived>>
        /\ out' = out \o SubSeq(bytes, 1, len)
    BY Zenon DEF read
  <1>4. \/ len = 0 /\ pos' = pos /\ filled' = filled
        \/ len > 0 /\ pos + len = filled /\ pos' = 0 /\ filled' = 0
        \/ len > 0 /\ pos + len # filled /\ pos' = pos + len /\ filled' = filled
    BY Zenon DEF read
  <1> HIDE DEF len
  <1>5. \/ pos + len = filled /\ pos' = 0 /\ filled' = 0
        \/ pos + len < filled /\ pos' = pos + len /\ filled' = filled
    BY <1>1, <1>2, <1>4
  <1> QED BY <1>3, <1>5, Zenon DEF len

\* Reading keeps the invariant: read.
LEMMA ReadBytes ==
  ASSUME BufferInv, NEW room \in 0 .. Capacity, read(room)
  PROVE  BufferInv'
  <1> DEFINE len == ReadLen(room)
  <1>1. /\ len \in 0 .. (filled - pos)
        /\ out' \in Seq(Nat \cup {Uninit}) /\ Len(out') = Len(out) + len
        /\ \A i \in 1 .. Len(out') : out'[i] = i
    BY ReadFacts, ReadOffsets, Zenon
  <1>2. /\ UNCHANGED <<mem, initialized, arrived>>
        /\ \/ pos + len = filled /\ pos' = 0 /\ filled' = 0
           \/ pos + len < filled /\ pos' = pos + len /\ filled' = filled
    BY ReadOffsets
  <1> HIDE DEF len
  <1>3. /\ filled \in Nat /\ pos \in Nat /\ initialized \in Nat /\ arrived \in Nat
        /\ Capacity \in Nat /\ Len(out) \in Nat /\ len \in Nat
        /\ pos <= filled /\ filled <= initialized /\ initialized <= Capacity
        /\ Len(out) + (filled - pos) = arrived
    BY <1>1, CapacityAssumption DEF BufferInv, BufferType, OffsetsOrdered
  <1>4. BufferType' /\ OffsetsOrdered'
    BY <1>1, <1>2, <1>3, SMTT(20) DEF BufferInv, BufferType, OffsetsOrdered
  <1>5. InitializedWritten'
    BY <1>2 DEF BufferInv, InitializedWritten
  <1>6. (pos' = filled' => filled' = 0) /\ Len(out') + (filled' - pos') = arrived'
    BY <1>1, <1>2, <1>3, SMTT(20)
  <1>7. \A k \in Cells : pos' <= k /\ k < filled' => mem'[k] = Len(out') + (k - pos') + 1
    <2> SUFFICES ASSUME NEW k \in Cells, pos' <= k, k < filled'
                 PROVE  mem'[k] = Len(out') + (k - pos') + 1
      OBVIOUS
    <2>1. k \in Nat
      BY <1>3 DEF Cells
    <2>2. pos' = pos + len /\ filled' = filled
      BY <1>2, <1>3, <2>1
    <2>3. mem[k] = Len(out) + (k - pos) + 1
      BY <1>3, <2>1, <2>2 DEF BufferInv
    <2> QED BY <1>1, <1>2, <1>3, <2>1, <2>2, <2>3
  <1> QED BY <1>1, <1>4, <1>5, <1>6, <1>7 DEF BufferInv

\* Both operations keep the invariant, and so does a call that changes nothing.
LEMMA NextBuffer == BufferInv /\ [BufferNext]_bufferVars => BufferInv'
  <1> SUFFICES ASSUME BufferInv, [BufferNext]_bufferVars PROVE BufferInv'
    OBVIOUS
  <1>1. CASE \E n \in 0 .. Capacity : arrived + n <= MaxStream /\ fill_buffer(n)
    BY <1>1, FillBuffer
  <1>2. CASE \E room \in 0 .. Capacity : read(room)
    BY <1>2, ReadBytes
  <1>3. CASE UNCHANGED bufferVars
    BY <1>3
    DEF bufferVars, BufferInv, BufferType, OffsetsOrdered, InitializedWritten
  <1> QED BY <1>1, <1>2, <1>3 DEF BufferNext

\* The inductive invariant of the receive buffer.
THEOREM BufferInductive == BufferSpec => []BufferInv
  BY InitBuffer, NextBuffer, PTL DEF BufferSpec

\* No operation of ReadBuffer takes an offset out of the block.
THEOREM BufferTyped == BufferSpec => []BufferType
  <1>1. BufferInv => BufferType
    BY DEF BufferInv
  <1> QED BY <1>1, BufferInductive, PTL

\* What the unchecked operations of ReadBuffer assume of the offsets holds in
\* every state: pos <= filled <= initialized <= capacity.
THEOREM OffsetsSafe == BufferSpec => []OffsetsOrdered
  <1>1. BufferInv => OffsetsOrdered
    BY DEF BufferInv
  <1> QED BY <1>1, BufferInductive, PTL

\* fill_buffer never declares a cell initialized that was not written.
THEOREM InitializedSafe == BufferSpec => []InitializedWritten
  <1>1. BufferInv => InitializedWritten
    BY DEF BufferInv
  <1> QED BY <1>1, BufferInductive, PTL

\* The application receives, byte for byte, what fill_buffer stored.
THEOREM BufferLosesNothing == BufferSpec => []NothingLost
  <1>1. ASSUME BufferInv PROVE NothingLost
    <2>1. /\ bytes \in Seq(Nat \cup {Uninit}) /\ Len(bytes) = filled - pos
          /\ \A i \in 1 .. (filled - pos) : bytes[i] = Len(out) + i
      BY <1>1, BytesFacts DEF BytesAre
    <2>2. /\ out \in Seq(Nat \cup {Uninit}) /\ Len(out) \in Nat /\ arrived \in Nat
          /\ filled - pos \in Nat /\ Len(out) + (filled - pos) = arrived
          /\ \A i \in 1 .. Len(out) : out[i] = i
      BY <1>1, CapacityAssumption DEF BufferInv, BufferType, OffsetsOrdered
    <2>3. out \o bytes \in Seq(Nat \cup {Uninit}) /\ Len(out \o bytes) = arrived
      BY <2>1, <2>2
    <2>4. \A i \in 1 .. arrived : (out \o bytes)[i] = i
      <3> TAKE i \in 1 .. arrived
      <3>1. CASE i <= Len(out)
        BY <2>1, <2>2, <3>1
      <3>2. CASE i > Len(out)
        <4>1. i - Len(out) \in 1 .. (filled - pos)
          BY <2>2, <3>2
        <4>2. (out \o bytes)[i] = bytes[i - Len(out)]
          BY <2>1, <2>2, <3>2, <4>1
        <4> QED BY <2>1, <2>2, <4>1, <4>2
      <3>3. i <= Len(out) \/ i > Len(out)
        BY <2>2
      <3> QED BY <3>1, <3>2, <3>3, Zenon
    <2>5. out \o bytes \in [1 .. arrived -> Nat \cup {Uninit}]
      <3>1. out \o bytes \in [1 .. Len(out \o bytes) -> Nat \cup {Uninit}]
        BY <2>3, LenProperties, Zenon
      <3> QED BY <2>3, <3>1
    <2> QED BY <2>4, <2>5, Zenon DEF NothingLost
  <1> QED BY <1>1, BufferInductive, PTL

\* Whoever waits because a block is full waits for bytes that can be read.
THEOREM FullIsReadable == BufferSpec => []FullHasBytes
  <1>1. ASSUME BufferInv PROVE FullHasBytes
    <2>1. Len(bytes) = filled - pos
      BY <1>1, BytesFacts DEF BytesAre
    <2> QED BY <1>1, <2>1, CapacityAssumption
            DEF BufferInv, BufferType, OffsetsOrdered, FullHasBytes
  <1> QED BY <1>1, BufferInductive, PTL

-----------------------------------------------------------------------------
(***************************************************************************)
(* ReadBuffer implements ByteQueue.                                        *)
(***************************************************************************)

\* A fill of n bytes is a put.
LEMMA FillPuts ==
  ASSUME BufferInv, NEW n \in 1 .. Capacity, fill_buffer(n)
  PROVE  Fifo!Put(n)
  <1> DEFINE new == [i \in 1 .. n |-> arrived + i]
  <1>1. BufferInv'
    BY FillBuffer
  <1>2. /\ bytes \in Seq(Nat \cup {Uninit}) /\ Len(bytes) = filled - pos
        /\ \A i \in 1 .. (filled - pos) : bytes[i] = Len(out) + i
    BY BytesFacts DEF BytesAre
  <1>3. /\ bytes' \in Seq(Nat \cup {Uninit}) /\ Len(bytes') = filled' - pos'
        /\ \A i \in 1 .. (filled' - pos') : bytes'[i] = Len(out') + i
    <2>1. BufferInv' => BytesAre'
      BY BytesFacts, PTL
    <2> QED BY <1>1, <2>1 DEF BytesAre
  <1>4. /\ filled' = filled + n /\ filled + n <= Capacity
        /\ pos' = pos /\ out' = out /\ arrived' = arrived + n
    BY CapacityAssumption DEF fill_buffer, BufferInv, BufferType
  <1>5. /\ filled \in Nat /\ pos \in Nat /\ arrived \in Nat /\ n \in Nat
        /\ Len(out) \in Nat /\ Capacity \in Nat /\ filled - pos \in Nat
        /\ Len(out) + (filled - pos) = arrived
    BY CapacityAssumption DEF BufferInv, BufferType, OffsetsOrdered
  <1>6. new \in Seq(Nat \cup {Uninit}) /\ Len(new) = n /\ \A i \in 1 .. n : new[i] = arrived + i
    BY <1>5
  <1> HIDE DEF new
  <1>7. bytes' = bytes \o new
    <2>1. /\ bytes \o new \in Seq(Nat \cup {Uninit})
          /\ Len(bytes \o new) = Len(bytes')
      <3>1. /\ bytes \o new \in Seq(Nat \cup {Uninit})
            /\ Len(bytes \o new) = (filled - pos) + n
        <4>1. /\ bytes \in Seq(Nat \cup {Uninit}) /\ Len(bytes) = filled - pos
              /\ new \in Seq(Nat \cup {Uninit}) /\ Len(new) = n
          BY <1>2, <1>6
        <4>2. /\ bytes \o new \in Seq(Nat \cup {Uninit})
              /\ Len(bytes \o new) = Len(bytes) + Len(new)
          BY <4>1, ConcatProperties, Zenon
        <4> QED BY <4>1, <4>2
      <3>2. Len(bytes') = (filled - pos) + n
        <4>1. Len(bytes') = filled' - pos'
          BY <1>3
        <4>2. filled' - pos' = (filled - pos) + n
          BY <1>4, <1>5
        <4> QED BY <4>1, <4>2
      <3> QED BY <3>1, <3>2
    <2>2. \A i \in 1 .. Len(bytes') : bytes'[i] = (bytes \o new)[i]
      <3> TAKE i \in 1 .. Len(bytes')
      <3>0. i \in Nat /\ i >= 1 /\ i <= (filled - pos) + n
        BY <1>3, <1>4, <1>5
      <3>1. CASE i <= filled - pos
        BY <1>2, <1>3, <1>4, <1>5, <1>6, <3>0, <3>1
      <3>2. CASE i > filled - pos
        <4>1. i - (filled - pos) \in 1 .. n
          BY <1>5, <3>0, <3>2
        <4>2. (bytes \o new)[i] = new[i - (filled - pos)]
          <5>1. i \in 1 .. ((filled - pos) + n) /\ ~(i <= filled - pos)
            BY <1>5, <3>0, <3>2
          <5>2. /\ bytes \in Seq(Nat \cup {Uninit}) /\ new \in Seq(Nat \cup {Uninit})
                /\ Len(bytes) = filled - pos /\ Len(new) = n
            BY <1>2, <1>6, Zenon
          <5>3. i \in 1 .. (Len(bytes) + Len(new))
            BY <5>1, <5>2, Zenon
          <5>4. (bytes \o new)[i] = IF i <= Len(bytes) THEN bytes[i] ELSE new[i - Len(bytes)]
            BY <5>2, <5>3, ConcatProperties, Zenon
          <5> QED BY <5>1, <5>2, <5>4, Zenon
        <4>3. new[i - (filled - pos)] = arrived + (i - (filled - pos))
          BY <1>6, <4>1
        <4>4. bytes'[i] = Len(out) + i
          BY <1>3, <1>4
        <4>5. arrived + (i - (filled - pos)) = Len(out) + i
          BY <1>5, <3>0
        <4> QED BY <4>2, <4>3, <4>4, <4>5
      <3>3. i <= filled - pos \/ i > filled - pos
        BY <1>5, <3>0
      <3> QED BY <3>1, <3>2, <3>3, Zenon
    <2> QED BY <1>3, <2>1, <2>2, SeqEqual, Zenon
  <1> QED BY <1>2, <1>4, <1>5, <1>7 DEF Fifo!Put, new

\* A read is a take of as many bytes as it returned.
LEMMA ReadTakes ==
  ASSUME BufferInv, NEW room \in 0 .. Capacity, read(room)
  PROVE  Fifo!Take(ReadLen(room))
  <1> DEFINE len == ReadLen(room)
             rest == SubSeq(bytes, len + 1, Len(bytes))
  <1>1. BufferInv'
    BY ReadBytes
  <1>2. /\ bytes \in Seq(Nat \cup {Uninit}) /\ Len(bytes) = filled - pos
        /\ \A i \in 1 .. (filled - pos) : bytes[i] = Len(out) + i
    BY BytesFacts DEF BytesAre
  <1>3. /\ bytes' \in Seq(Nat \cup {Uninit}) /\ Len(bytes') = filled' - pos'
        /\ \A i \in 1 .. (filled' - pos') : bytes'[i] = Len(out') + i
    <2>1. BufferInv' => BytesAre'
      BY BytesFacts, PTL
    <2> QED BY <1>1, <2>1 DEF BytesAre
  <1>4. /\ len \in 0 .. (filled - pos)
        /\ out' = out \o SubSeq(bytes, 1, len) /\ Len(out') = Len(out) + len
        /\ arrived' = arrived
        /\ \/ pos + len = filled /\ pos' = 0 /\ filled' = 0
           \/ pos + len < filled /\ pos' = pos + len /\ filled' = filled
    BY ReadFacts, ReadOffsets, SMTT(20)
  <1> HIDE DEF len
  <1>5. /\ filled \in Nat /\ pos \in Nat /\ filled - pos \in Nat
        /\ Len(out) \in Nat /\ len \in Nat
    BY <1>4, CapacityAssumption, SMTT(20) DEF BufferInv, BufferType, OffsetsOrdered
  <1>6. filled' - pos' = (filled - pos) - len
    BY <1>4, <1>5
  <1>7. /\ rest \in Seq(Nat \cup {Uninit})
        /\ Len(rest) = (filled - pos) - len
        /\ \A i \in 1 .. ((filled - pos) - len) : rest[i] = bytes[len + i]
    <2>1. \A i \in (len + 1) .. Len(bytes) : bytes[i] \in Nat \cup {Uninit}
      BY <1>2, <1>4, <1>5, SMTT(20)
    <2>2. /\ rest \in Seq(Nat \cup {Uninit})
          /\ Len(rest) = IF len + 1 <= Len(bytes) THEN Len(bytes) - (len + 1) + 1 ELSE 0
          /\ \A i \in 1 .. (Len(bytes) - (len + 1) + 1) : rest[i] = bytes[(len + 1) + i - 1]
      <3>1. len + 1 \in Int /\ Len(bytes) \in Int
        BY <1>2, <1>5
      <3> QED BY <2>1, <3>1, SubSeqProperties
    <2>3. /\ Len(bytes) - (len + 1) + 1 = (filled - pos) - len
          /\ \A i \in 1 .. ((filled - pos) - len) : (len + 1) + i - 1 = len + i
      BY <1>2, <1>4, <1>5
    <2> HIDE DEF rest
    <2>4. Len(rest) = (filled - pos) - len
      BY <1>2, <1>4, <1>5, <2>2
    <2> QED BY <2>2, <2>3, <2>4, Zenon
  <1> HIDE DEF rest
  <1>8. bytes' = rest
    <2>1. Len(bytes') = Len(rest)
      BY <1>3, <1>6, <1>7
    <2>2. \A i \in 1 .. Len(bytes') : bytes'[i] = rest[i]
      <3> TAKE i \in 1 .. Len(bytes')
      <3>1. i \in 1 .. ((filled - pos) - len) /\ len + i \in 1 .. (filled - pos)
        BY <1>3, <1>4, <1>5, <1>6
      <3>2. bytes'[i] = (Len(out) + len) + i
        BY <1>3, <1>4, <1>6, <3>1, Zenon
      <3>3. rest[i] = Len(out) + (len + i)
        BY <1>2, <1>7, <3>1, Zenon
      <3> QED BY <1>5, <3>1, <3>2, <3>3
    <2> QED BY <1>3, <1>7, <2>1, <2>2, SeqEqual, Zenon
  <1> QED BY <1>2, <1>4, <1>5, <1>8 DEF Fifo!Take, rest, len

\* Every operation of the block is an operation of the queue, or changes
\* neither the queue nor its histories.
LEMMA StepIsQueueStep ==
  BufferInv /\ [BufferNext]_bufferVars => [Fifo!QNext]_<<bytes, arrived, out>>
  <1> SUFFICES ASSUME BufferInv, [BufferNext]_bufferVars
               PROVE  [Fifo!QNext]_<<bytes, arrived, out>>
    OBVIOUS
  <1>1. ASSUME NEW n \in 0 .. Capacity, fill_buffer(n)
        PROVE  [Fifo!QNext]_<<bytes, arrived, out>>
    <2>1. CASE n = 0
      <3>1. /\ filled' = filled /\ arrived' = arrived /\ pos' = pos /\ out' = out
            /\ \A i \in Cells : mem'[i] = mem[i]
        BY <1>1, <2>1, CapacityAssumption
        DEF fill_buffer, Stored, BufferInv, BufferType, Cells
      <3>2. mem' = mem
        BY <1>1, <3>1, Zenon DEF fill_buffer, Stored, BufferInv, BufferType
      <3> QED BY <3>1, <3>2, Zenon DEF bytes
    <2>2. CASE n # 0
      <3>1. n \in 1 .. Capacity
        BY <2>2, CapacityAssumption
      <3> QED BY <1>1, <3>1, FillPuts, Zenon DEF Fifo!QNext
    <2> QED BY <2>1, <2>2
  <1>2. ASSUME NEW room \in 0 .. Capacity, read(room)
        PROVE  [Fifo!QNext]_<<bytes, arrived, out>>
    <2>1. Fifo!Take(ReadLen(room)) /\ ReadLen(room) \in 0 .. (filled - pos)
      BY <1>2, ReadTakes, ReadFacts, Zenon
    <2>2. /\ filled - pos \in Nat /\ filled - pos <= Capacity /\ Capacity \in Nat
      BY CapacityAssumption DEF BufferInv, BufferType, OffsetsOrdered
    <2>3. CASE ReadLen(room) = 0
      <3>1. out' = out \o SubSeq(bytes, 1, 0) /\ arrived' = arrived
            /\ bytes' = SubSeq(bytes, 1, Len(bytes))
        BY <2>1, <2>3 DEF Fifo!Take
      <3>2. out \in Seq(Nat \cup {Uninit}) /\ bytes \in Seq(Nat \cup {Uninit})
        BY BytesFacts, Zenon DEF BytesAre, BufferInv, BufferType
      <3>3. bytes' = bytes
        BY <3>1, <3>2, SubSeqFull
      <3>4. SubSeq(bytes, 1, 0) = << >>
        BY SubSeqEmpty
      <3>5. out' = out
        BY <3>1, <3>2, <3>4
      <3> QED BY <3>1, <3>3, <3>5
    <2>4. CASE ReadLen(room) # 0
      <3>1. ReadLen(room) \in 1 .. Capacity
        BY <2>1, <2>2, <2>4
      <3> QED BY <2>1, <3>1, Zenon DEF Fifo!QNext
    <2> QED BY <2>3, <2>4
  <1>3. CASE UNCHANGED bufferVars
    BY <1>3 DEF bufferVars, bytes
  <1> QED BY <1>1, <1>2, <1>3 DEF BufferNext

\* The receive buffer implements the bounded first-in first-out queue: the
\* application sees ReadBuffer as nothing but a ByteQueue.
THEOREM BufferIsFifo == BufferSpec => FifoSpec
  <1>1. BufferInit => Fifo!QInit
    BY DEF BufferInit, Fifo!QInit, bytes
  <1> QED BY <1>1, StepIsQueueStep, BufferInductive, PTL
          DEF BufferSpec, FifoSpec, Fifo!QSpec
=============================================================================
