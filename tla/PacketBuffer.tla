---------------------------- MODULE PacketBuffer ----------------------------
(***************************************************************************)
(* The outgoing packet of one logical connection (src/packet_buffer.rs):   *)
(* an address, a two byte big-endian length and the payload, laid out so   *)
(* that the struct itself is the frame that goes on the wire.              *)
(*                                                                         *)
(* A payload is a sequence; the length field is never stored apart from it *)
(* because push and clear always change both.  The code's byte has 256     *)
(* values and its address 18 bytes; both are parameters here, so that the  *)
(* two digits of the length field meet their limits on small payloads.     *)
(***************************************************************************)
EXTENDS Naturals, Sequences

CONSTANTS Radix,     \* number of values of a byte (256 in the code)
          AddrSize   \* size_of::<SocketAddr>()    (18 in the code)

ASSUME RadixAssumption == Radix \in Nat /\ Radix >= 2
ASSUME AddrSizeAssumption == AddrSize \in Nat \ {0}

\* u16::MAX: the largest number two digits can hold.
PACKET_SIZE == Radix * Radix - 1

\* MUTANT: one byte late, when both digits are on the wire.
LEN_FIELD_CUTOFF_late == AddrSize + 2

\* The value of `written` at which the first length digit is on the wire
\* and the second is not.
LEN_FIELD_CUTOFF == AddrSize + 1

\* size_of::<MuxFrameHeader>().
HeaderSize == AddrSize + 2

(***************************************************************************)
(* NetworkOrderU16: the two digits of a length, most significant first.    *)
(***************************************************************************)
HighDigit(len) == len \div Radix
LowDigit(len) == len % Radix
FromDigits(high, low) == high * Radix + low

-----------------------------------------------------------------------------

is_full(data) == Len(data) = PACKET_SIZE

is_empty(data) == Len(data) = 0

\* Nothing can be added to a frame of which `written` bytes have gone out.
must_flush_for(data, written) ==
    \/ written < LEN_FIELD_CUTOFF /\ is_full(data)
    \/ written = LEN_FIELD_CUTOFF /\ LowDigit(Len(data)) = Radix - 1
    \/ written > LEN_FIELD_CUTOFF

\* MUTANT: the digit already sent is forgotten.
max_len_digit_ignored(data, written) ==
    IF written > LEN_FIELD_CUTOFF THEN 0 ELSE PACKET_SIZE - Len(data)

\* How much push may still take: all that is free while no length digit has
\* gone out, what fits in the low digit once the high one has, then nothing.
max_len(data, written) ==
    CASE written < LEN_FIELD_CUTOFF -> PACKET_SIZE - Len(data)
      [] written = LEN_FIELD_CUTOFF -> (Radix - 1) - LowDigit(Len(data))
      [] OTHER -> 0

\* MUTANT: the larger of the two lengths.
push_len_larger(data, written, n) ==
    IF n > max_len(data, written) THEN n ELSE max_len(data, written)

\* What push(buf, written) takes of a buf of n bytes.
push_len(data, written, n) ==
    IF n > max_len(data, written) THEN max_len(data, written) ELSE n

\* Length of PacketBuffer::bytes().
FrameSize(data) == HeaderSize + Len(data)

(***************************************************************************)
(* The i-th byte of PacketBuffer::bytes(), with what it stands for: a byte *)
(* of the address, a digit of the length, or a payload byte.               *)
(***************************************************************************)
ByteAt(addr, data, i) ==
    CASE i <= AddrSize     -> [t |-> "addr", c |-> addr, v |-> i]
      [] i = AddrSize + 1  -> [t |-> "high", c |-> addr, v |-> HighDigit(Len(data))]
      [] i = HeaderSize    -> [t |-> "low",  c |-> addr, v |-> LowDigit(Len(data))]
      [] OTHER             -> [t |-> "data", c |-> addr, v |-> data[i - HeaderSize]]
=============================================================================
