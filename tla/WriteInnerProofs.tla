-------------------------- MODULE WriteInnerProofs --------------------------
(***************************************************************************)
(* Proofs about WriteInner, for any number of connections, any radix, any  *)
(* address size and any bounds: the actions that change the packet or the  *)
(* wire, then the theorems.                                                *)
(***************************************************************************)
EXTENDS WriteInnerLemmas

(***************************************************************************)
(* Pushing into the packet, possibly while it is being sent.               *)
(***************************************************************************)

\* What push adds to the packet, wherever the frame has been sent to.
LEMMA PushFacts ==
    ASSUME IInv, NEW c \in Conn, NEW w \in Nat, Push(c, w)
    PROVE  /\ buffer' \in [Conn -> Seq(Nat)]
           /\ accepted' = accepted => HistType'
           /\ left' \in [Conn -> Nat] /\ wrote' \in [Conn -> Nat]
           /\ \A d \in Conn \ {c} : buffer'[d] = buffer[d]
           /\ \E k \in Nat :
                 /\ Len(buffer'[c]) = Len(buffer[c]) + k
                 /\ Len(buffer[c]) + k <= PACKET_SIZE
                 /\ w = AddrSize + 1 => HighDigit(Len(buffer[c]) + k) = HighDigit(Len(buffer[c]))
                 /\ w > AddrSize + 1 => k = 0
<1> DEFINE k    == push_len(buffer[c], w, left[c])
           from == accepted[c] + wrote[c]
           new  == [i \in 1 .. k |-> from + i]
<1>1. buffer[c] \in Seq(Nat) /\ left[c] \in Nat /\ wrote[c] \in Nat /\ accepted[c] \in Nat
  BY DEF IInv, TypeOK, ConnType, CallType, HistType
<1>2. /\ k \in 0 .. left[c]
      /\ Len(buffer[c]) + k <= PACKET_SIZE
      /\ w = AddrSize + 1 => HighDigit(Len(buffer[c]) + k) = HighDigit(Len(buffer[c]))
      /\ w > AddrSize + 1 => k = 0
  BY <1>1, FrameBounds, PushLen, Zenon
<1>3. /\ buffer' = [buffer EXCEPT ![c] = @ \o new]
      /\ pushed' = [pushed EXCEPT ![c] = @ \o new]
      /\ left' = [left EXCEPT ![c] = @ - k]
      /\ wrote' = [wrote EXCEPT ![c] = @ + k]
  BY Zenon DEF Push
<1> HIDE DEF k
<1>4. new \in Seq(Nat) /\ Len(new) = k
  BY <1>1, <1>2, SMTT(20)
<1> HIDE DEF new
<1>5. buffer[c] \o new \in Seq(Nat) /\ Len(buffer[c] \o new) = Len(buffer[c]) + k
  BY <1>1, <1>4, ConcatProperties, Zenon
<1>6. /\ buffer' \in [Conn -> Seq(Nat)] /\ buffer'[c] = buffer[c] \o new
      /\ \A d \in Conn \ {c} : buffer'[d] = buffer[d]
  BY <1>3, <1>5, Zenon DEF IInv, TypeOK, ConnType
<1>7. pushed' \in [Conn -> Seq(Nat)]
  <2>1. pushed \in [Conn -> Seq(Nat)]
    BY Zenon DEF IInv, TypeOK, HistType
  <2>2. pushed[c] \o new \in Seq(Nat)
    BY <1>4, <2>1, ConcatProperties
  <2> QED
    BY <1>3, <2>1, <2>2, Zenon
<1>8. left' \in [Conn -> Nat]
  <2>1. left[c] - k \in Nat
    BY <1>1, <1>2
  <2> QED
    BY <1>3, <2>1, Zenon DEF IInv, TypeOK, CallType
<1>9. wrote' \in [Conn -> Nat]
  <2>1. wrote[c] + k \in Nat
    BY <1>1, <1>2, SMTT(20)
  <2> QED
    BY <1>3, <2>1, Zenon DEF IInv, TypeOK, CallType
<1>10. accepted' = accepted => HistType'
  BY <1>7, Zenon DEF IInv, TypeOK, HistType
<1>11. k \in Nat /\ Len(buffer'[c]) = Len(buffer[c]) + k
  BY <1>1, <1>2, <1>5, <1>6
<1>12. \E j \in Nat :
         /\ Len(buffer'[c]) = Len(buffer[c]) + j
         /\ Len(buffer[c]) + j <= PACKET_SIZE
         /\ w = AddrSize + 1 => HighDigit(Len(buffer[c]) + j) = HighDigit(Len(buffer[c]))
         /\ w > AddrSize + 1 => j = 0
  BY <1>2, <1>11, Zenon
<1> QED
  BY <1>6, <1>8, <1>9, <1>10, <1>12, Zenon

\* poll_write pushes bytes into its packet, also while the packet is being sent.
LEMMA PushStep ==
    ASSUME IInv, NEW c \in Conn, WriteBuffering(c) \/ WriteFlushing(c)
    PROVE  IInv'
<1>1. /\ pc[c] = "write" /\ state[c] \in {"Buffering", "Flushing"}
      /\ UNCHANGED <<lockVars, rxVars, state, written, broken, accepted>>
      /\ pc' = pc \/ (pc' = [pc EXCEPT ![c] = "writeFlush"] /\ state[c] = "Flushing")
  BY Zenon DEF WriteBuffering, WriteFlushing
<1>2. Push(c, written[c]) \/ UNCHANGED <<buffer, pushed, left, wrote>>
  <2>1. state[c] = "Buffering" => written[c] = 0
    BY Zenon DEF IInv, CallInv, InPacket, GuardStates
  <2> QED
    BY <2>1, Zenon DEF WriteBuffering, WriteFlushing
<1>3. written[c] \in Nat /\ Len(buffer[c]) \in Nat
  BY FrameBounds, Zenon
<1>4. /\ buffer' \in [Conn -> Seq(Nat)] /\ HistType'
      /\ left' \in [Conn -> Nat] /\ wrote' \in [Conn -> Nat]
      /\ \A d \in Conn \ {c} : buffer'[d] = buffer[d]
  <2>1. CASE Push(c, written[c])
    BY <1>1, <1>3, <2>1, PushFacts, SMTT(20)
  <2>2. CASE UNCHANGED <<buffer, pushed, left, wrote>>
    BY <1>1, <2>2, Zenon DEF IInv, TypeOK, ConnType, CallType, HistType
  <2> QED
    BY <1>2, <2>1, <2>2, Zenon
<1>5. PICK k \in Nat :
        /\ Len(buffer'[c]) = Len(buffer[c]) + k
        /\ Len(buffer[c]) + k <= PACKET_SIZE
        /\ written[c] = AddrSize + 1 => HighDigit(Len(buffer[c]) + k) = HighDigit(Len(buffer[c]))
        /\ written[c] > AddrSize + 1 => k = 0
  <2>1. CASE Push(c, written[c])
    BY <1>3, <2>1, PushFacts, Zenon
  <2>2. CASE UNCHANGED <<buffer, pushed, left, wrote>>
    <3>1. Len(buffer[c]) + 0 = Len(buffer[c])
      BY <1>3
    <3> QED
      BY <1>3, <2>2, <3>1, FrameBounds, Zenon
  <2> QED
    BY <1>2, <2>1, <2>2, Zenon
<1>6. /\ pc' \in [Conn -> Calls] /\ \A d \in Conn \ {c} : pc'[d] = pc[d]
      /\ pc'[c] = "write" \/ (pc'[c] = "writeFlush" /\ state[c] = "Flushing")
  <2>1. pc \in [Conn -> Calls]
    BY Zenon DEF IInv, TypeOK, CallType
  <2>2. CASE pc' = pc
    BY <1>1, <2>1, <2>2, Zenon
  <2>3. CASE pc' = [pc EXCEPT ![c] = "writeFlush"] /\ state[c] = "Flushing"
    BY <2>1, <2>3 DEF Calls
  <2> QED
    BY <1>1, <2>2, <2>3, Zenon
<1>7. ConnType' /\ CallType' /\ Others(c)
  BY <1>1, <1>4, <1>6, Zenon DEF ConnType, CallType, Others, IInv, TypeOK
<1>8. InCall(c)'
  BY <1>1, <1>6, Zenon DEF InCall, WritingStates
<1>9. InPacket(c)'
  <2>1. Len(buffer'[c]) <= PACKET_SIZE /\ written'[c] <= FrameSize(buffer'[c])
    BY <1>1, <1>3, <1>5, FrameBounds, SMTT(20) DEF FrameSize
  <2>2. state[c] = "Flushing" => buffer'[c] # << >>
    <3>1. state[c] = "Flushing" => buffer[c] # << >>
      BY <1>1, FlushingHasData, Zenon
    <3>2. buffer[c] # << >> => Len(buffer[c]) > 0
      BY <1>3 DEF IInv, TypeOK, ConnType
    <3> QED
      BY <1>3, <1>5, <3>1, <3>2
  <2>3. state[c] \notin GuardStates => written[c] = 0
    BY Zenon DEF IInv, CallInv, InPacket
  <2> QED
    BY <1>1, <2>1, <2>2, <2>3, Zenon DEF InPacket, FrameSize
<1>10. RxAt(c) => RxAt(c)'
  <2>1. SUFFICES ASSUME RxAt(c) PROVE RxAt(c)'
    OBVIOUS
  <2>2. rx' = rx /\ written'[c] = written[c] /\ HeaderSize = AddrSize + 2 /\ AddrSize \in Nat
    BY <1>1, FrameBounds, Zenon DEF rxVars
  <2>3. written[c] >= HeaderSize => FrameSize(buffer'[c]) = FrameSize(buffer[c])
    <3>1. written[c] >= HeaderSize => k = 0
      BY <1>3, <1>5, <2>2
    <3>2. k = 0 => Len(buffer'[c]) = Len(buffer[c])
      BY <1>3, <1>5
    <3> QED
      BY <3>1, <3>2 DEF FrameSize
  <2> QED
    BY <1>3, <1>5, <2>1, <2>2, <2>3, Zenon DEF RxAt
<1>11. LockType' /\ owner' = owner
  BY <1>1, SameLockType, Zenon
<1>12. state'[c] = state[c] /\ UNCHANGED <<rxVars, broken>>
  BY <1>1, Zenon
<1> QED
  BY <1>4, <1>7, <1>8, <1>9, <1>10, <1>11, <1>12, KeepStep, Zenon

-----------------------------------------------------------------------------
(***************************************************************************)
(* The socket takes a byte, and the peer expects exactly that byte.        *)
(***************************************************************************)

\* Whoever sends holds the guard.
LEMMA SendingHoldsGuard ==
    ASSUME IInv, NEW c \in Conn, Sending(c)
    PROVE  /\ state[c] \in GuardStates
           /\ \A d \in Conn \ {c} : state[d] \notin GuardStates
           /\ ~broken => RxAt(c)
<1>1. state[c] \in GuardStates
  BY Zenon DEF Sending, GuardStates, IInv, CallInv, InCall
<1>2. \A d \in Conn \ {c} : state[d] \notin GuardStates
  BY <1>1, Zenon DEF IInv, LockInv
<1> QED
  BY <1>1, <1>2, Zenon DEF IInv, RxInv

\* The fields of the peer decoder's state have the types of its counters.
LEMMA RxFields ==
    ASSUME RxType
    PROVE  /\ rx.filled \in Nat /\ rx.left \in Nat /\ rx.high \in Nat
           /\ rx.addr \in Conn \cup {None}
BY AddrSizeAssumption DEF RxType, HeaderSize

\* A byte of the address leaves the peer in the address or after it.
LEMMA SendAddr ==
    ASSUME IInv, NEW c \in Conn, RxAt(c), written[c] < AddrSize,
           Receive(ByteAt(c, buffer[c], written[c] + 1))
    PROVE  /\ rx' = [rx EXCEPT !.filled = written[c] + 1, !.addr = c]
           /\ UNCHANGED <<delivered, ctrl>>
<1> DEFINE b == ByteAt(c, buffer[c], written[c] + 1)
<1>0. /\ AddrSize \in Nat /\ AddrSize > 0 /\ HeaderSize = AddrSize + 2
      /\ written[c] \in Nat /\ FrameSize(buffer[c]) \in Nat
  BY FrameNats, Zenon
<1>7. rx.intact
  BY Zenon DEF IInv, RxInv
<1>1. b = [t |-> "addr", c |-> c, v |-> written[c] + 1]
  BY <1>0, SMTT(20) DEF ByteAt
<1>2. rx.left = 0 /\ rx.filled = written[c] /\ (rx.filled > 0 => rx.addr = c) /\ rx.intact
  <2>1. ~(written[c] = AddrSize + 1) /\ ~(written[c] >= HeaderSize)
    BY <1>0
  <2>2. rx.left = 0 /\ rx.filled = written[c] /\ (written[c] > 0 => rx.addr = c)
    BY <2>1, Zenon DEF RxAt
  <2> QED
    BY <1>7, <2>2, Zenon
<1> HIDE DEF b
<1>3. b.t = "addr" /\ b.c = c /\ b.v = written[c] + 1
  BY <1>1, Zenon
<1>4. ~MangledByte(b)
  BY <1>2, <1>3 DEF MangledByte, Expected
<1>5. AddrByte(b)
  BY <1>3, <1>4, Zenon DEF Receive, PayloadByte, HighByte, LowByte, b
<1> QED
  BY <1>2, <1>3, <1>5 DEF AddrByte

\* The high digit of the length leaves the peer expecting the low one.
LEMMA SendHigh ==
    ASSUME IInv, NEW c \in Conn, RxAt(c), written[c] = AddrSize,
           Receive(ByteAt(c, buffer[c], written[c] + 1))
    PROVE  /\ rx' = [rx EXCEPT !.filled = written[c] + 1, !.high = HighDigit(Len(buffer[c]))]
           /\ UNCHANGED <<delivered, ctrl>>
           /\ rx.left = 0 /\ rx.addr = c
<1> DEFINE b == ByteAt(c, buffer[c], written[c] + 1)
<1>0. /\ AddrSize \in Nat /\ AddrSize > 0 /\ HeaderSize = AddrSize + 2
      /\ written[c] \in Nat /\ FrameSize(buffer[c]) \in Nat
  BY FrameNats, Zenon
<1>7. rx.intact
  BY Zenon DEF IInv, RxInv
<1>1. b = [t |-> "high", c |-> c, v |-> HighDigit(Len(buffer[c]))]
  BY <1>0 DEF ByteAt
<1>2. rx.left = 0 /\ rx.filled = written[c] /\ rx.addr = c /\ rx.intact
  <2>1. ~(written[c] = AddrSize + 1) /\ ~(written[c] >= HeaderSize) /\ written[c] > 0
    BY <1>0
  <2> QED
    BY <1>7, <2>1, Zenon DEF RxAt
<1> HIDE DEF b
<1>3. b.t = "high" /\ b.c = c /\ b.v = HighDigit(Len(buffer[c]))
  BY <1>1, Zenon
<1>4. ~MangledByte(b)
  BY <1>2, <1>3 DEF MangledByte, Expected
<1>5. HighByte(b)
  BY <1>3, <1>4, Zenon DEF Receive, PayloadByte, AddrByte, LowByte, b
<1> QED
  BY <1>2, <1>3, <1>5, Zenon DEF HighByte

\* The low digit tells the peer the length the packet really has.
LEMMA SendLow ==
    ASSUME IInv, NEW c \in Conn, RxAt(c), written[c] = AddrSize + 1,
           Receive(ByteAt(c, buffer[c], written[c] + 1))
    PROVE  /\ rx' = [rx EXCEPT !.filled = 0, !.left = Len(buffer[c])]
           /\ ctrl' = IF Len(buffer[c]) = 0 THEN [ctrl EXCEPT ![c] = @ + 1] ELSE ctrl
           /\ UNCHANGED delivered
           /\ rx.addr = c
<1> DEFINE b == ByteAt(c, buffer[c], written[c] + 1)
<1>0. /\ AddrSize \in Nat /\ AddrSize > 0 /\ HeaderSize = AddrSize + 2
      /\ written[c] \in Nat /\ FrameSize(buffer[c]) \in Nat
  BY FrameNats, Zenon
<1>7. rx.intact
  BY Zenon DEF IInv, RxInv
<1>1. b = [t |-> "low", c |-> c, v |-> LowDigit(Len(buffer[c]))]
  BY <1>0 DEF ByteAt
<1>2. /\ rx.left = 0 /\ rx.filled = written[c] /\ rx.addr = c /\ rx.intact
      /\ rx.high = HighDigit(Len(buffer[c]))
  <2>1. ~(written[c] <= AddrSize) /\ ~(written[c] >= HeaderSize)
    BY <1>0
  <2> QED
    BY <1>7, <2>1, Zenon DEF RxAt
<1> HIDE DEF b
<1>3. b.t = "low" /\ b.c = c /\ b.v = LowDigit(Len(buffer[c]))
  BY <1>1, Zenon
<1>4. FromDigits(rx.high, b.v) = Len(buffer[c])
  <2>1. Len(buffer[c]) \in Nat
    BY FrameBounds, Zenon
  <2>2. FromDigits(HighDigit(Len(buffer[c])), LowDigit(Len(buffer[c]))) = Len(buffer[c])
    BY <2>1, DigitsOfLength, Zenon
  <2> QED
    BY <1>2, <1>3, <2>2, Zenon
<1>5. ~MangledByte(b)
  BY <1>2, <1>3 DEF MangledByte, Expected
<1>6. LowByte(b)
  BY <1>3, <1>5, Zenon DEF Receive, PayloadByte, AddrByte, HighByte, b
<1> QED
  BY <1>2, <1>3, <1>4, <1>6, Zenon DEF LowByte

\* A payload byte, the last one included.
LEMMA SendPayload ==
    ASSUME IInv, NEW c \in Conn, RxAt(c), written[c] >= HeaderSize,
           written[c] < FrameSize(buffer[c]),
           Receive(ByteAt(c, buffer[c], written[c] + 1))
    PROVE  /\ rx' = [rx EXCEPT !.left = @ - 1]
           /\ delivered' = [delivered EXCEPT ![c] =
                               Append(@, buffer[c][written[c] + 1 - HeaderSize])]
           /\ UNCHANGED ctrl
           /\ rx.filled = 0 /\ rx.left = FrameSize(buffer[c]) - written[c] /\ rx.addr = c
<1> DEFINE b == ByteAt(c, buffer[c], written[c] + 1)
           x == buffer[c][written[c] + 1 - HeaderSize]
<1>0. /\ AddrSize \in Nat /\ AddrSize > 0 /\ HeaderSize = AddrSize + 2
      /\ written[c] \in Nat /\ FrameSize(buffer[c]) \in Nat
  BY FrameNats, Zenon
<1>7. rx.intact
  BY Zenon DEF IInv, RxInv
<1>1. b = [t |-> "data", c |-> c, v |-> x]
  BY <1>0, SMTT(20) DEF ByteAt
<1>2. /\ rx.filled = 0 /\ rx.left = FrameSize(buffer[c]) - written[c]
      /\ rx.left > 0 /\ rx.addr = c /\ rx.intact
  <2>1. ~(written[c] <= AddrSize) /\ ~(written[c] = AddrSize + 1)
    BY <1>0
  <2>2. /\ rx.filled = 0 /\ rx.left = FrameSize(buffer[c]) - written[c]
        /\ rx.left > 0 => rx.addr = c
    BY <2>1, Zenon DEF RxAt
  <2>3. FrameSize(buffer[c]) - written[c] > 0
    BY <1>0
  <2> QED
    BY <1>7, <2>2, <2>3, Zenon
<1> HIDE DEF b, x
<1>3. b.t = "data" /\ b.c = c /\ b.v = x
  BY <1>1, Zenon
<1>4. ~MangledByte(b)
  BY <1>2, <1>3 DEF MangledByte, Expected
<1>5. PayloadByte(b)
  BY <1>3, <1>4, Zenon DEF Receive, LowByte, AddrByte, HighByte, b
<1> QED
  BY <1>2, <1>3, <1>5, Zenon DEF PayloadByte, x

\* The socket takes one byte of the frame.
LEMMA SendByteStep ==
    ASSUME IInv, NEW c \in Conn, SendByte(c)
    PROVE  IInv'
<1> DEFINE w == written[c]
<1>0. /\ AddrSize \in Nat /\ AddrSize > 0 /\ HeaderSize = AddrSize + 2
      /\ w \in Nat /\ FrameSize(buffer[c]) \in Nat
  BY FrameNats, Zenon
<1>1. /\ ~broken /\ w < FrameSize(buffer[c])
      /\ UNCHANGED <<owner, queue, state, buffer, callVars, broken, histVars>>
      /\ Receive(ByteAt(c, buffer[c], w + 1))
  BY Zenon DEF SendByte, Sending
<1>2. /\ state[c] \in GuardStates /\ RxAt(c)
      /\ \A d \in Conn \ {c} : state[d] \notin GuardStates
  BY <1>1, SendingHoldsGuard, Zenon DEF SendByte
<1>3. /\ written' \in [Conn -> Nat] /\ written'[c] = w + 1
      /\ \A d \in Conn \ {c} : written'[d] = written[d]
  BY DEF SendByte, IInv, TypeOK, ConnType
<1>4. CallType' /\ \A d \in Conn : pc'[d] = pc[d]
  BY <1>1, SameCall, Zenon
<1>5. LockType' /\ owner' = owner /\ HistType'
  BY <1>1, SameLockType, SameHistType, Zenon DEF lockVars
<1>6. Others(c) /\ ConnType'
  BY <1>1, <1>3, <1>4, Zenon DEF Others, ConnType, IInv, TypeOK
<1>7. InCall(c)'
  BY <1>1, <1>4, Zenon DEF IInv, CallInv, InCall
<1>8. InPacket(c)'
  <2>1. /\ state[c] = "Flushing" => buffer[c] # << >>
        /\ state[c] = "ShutFlushing" => buffer[c] # << >>
    <3>1. is_empty(buffer[c]) <=> buffer[c] = << >>
      BY EmptyIsEmpty, Zenon DEF IInv, TypeOK
    <3> QED
      BY <3>1, FlushingHasData, Zenon DEF SendByte, Sending, IInv, CallInv, InCall
  <2>2. w + 1 <= FrameSize(buffer[c])
    <3>1. w < FrameSize(buffer[c])
      BY <1>1, Zenon
    <3> QED
      BY <1>0, <3>1
  <2> QED
    BY <1>1, <1>2, <1>3, <2>1, <2>2, Zenon DEF IInv, CallInv, InPacket, FrameSize
<1>9. LockInv'
  BY <1>1, <1>5, <1>6, LockKept, Zenon DEF IInv
<1>10. CallInv'
  BY <1>6, <1>7, <1>8, CallInvLocal DEF IInv
<1>11. rx \in [filled : 0 .. (HeaderSize - 1), addr : Conn \cup {None},
                high : Nat, left : Nat, intact : BOOLEAN]
       /\ delivered \in [Conn -> Seq(Nat)] /\ ctrl \in [Conn -> Nat] /\ rx.intact
  BY Zenon DEF IInv, TypeOK, RxType, RxInv
<1>12. RxType' /\ rx'.intact /\ RxAt(c)'
  <2>1. CASE w < AddrSize
    <3>1. /\ rx' = [rx EXCEPT !.filled = w + 1, !.addr = c]
          /\ UNCHANGED <<delivered, ctrl>>
      BY <1>1, <1>2, <2>1, SendAddr, Zenon
    <3>2. rx.left = 0
      <4>1. ~(w = AddrSize + 1) /\ ~(w >= HeaderSize)
        BY <1>0, <2>1
      <4> QED
        BY <1>2, <4>1, Zenon DEF RxAt
    <3>3. RxType'
      <4>1. w + 1 \in 0 .. (HeaderSize - 1)
        BY <2>1, <1>0
      <4>2. rx' \in [filled : 0 .. (HeaderSize - 1), addr : Conn \cup {None},
                     high : Nat, left : Nat, intact : BOOLEAN]
        BY <1>11, <3>1, <4>1, Zenon
      <4> QED
        BY <1>11, <3>1, <4>2, Zenon DEF RxType
    <3>4. rx'.filled = w + 1 /\ rx'.addr = c /\ rx'.left = 0 /\ rx'.intact
      BY <1>11, <3>1, <3>2
    <3> QED
      BY <1>3, <2>1, <3>3, <3>4, <1>0, SMTT(20) DEF RxAt
  <2>2. CASE w = AddrSize
    <3>1. /\ rx' = [rx EXCEPT !.filled = w + 1, !.high = HighDigit(Len(buffer[c]))]
          /\ UNCHANGED <<delivered, ctrl>>
          /\ rx.left = 0 /\ rx.addr = c
      BY <1>1, <1>2, <2>2, SendHigh, Zenon
    <3>2. HighDigit(Len(buffer[c])) \in Nat
      <4>1. Len(buffer[c]) \in Nat
        BY FrameBounds, Zenon
      <4> QED
        BY <4>1, DigitsOfLength, Zenon
    <3>3. RxType'
      <4>1. w + 1 \in 0 .. (HeaderSize - 1)
        BY <2>2, <1>0
      <4>2. rx' \in [filled : 0 .. (HeaderSize - 1), addr : Conn \cup {None},
                     high : Nat, left : Nat, intact : BOOLEAN]
        BY <1>11, <3>1, <3>2, <4>1, Zenon
      <4> QED
        BY <1>11, <3>1, <4>2, Zenon DEF RxType
    <3>4. /\ rx'.filled = w + 1 /\ rx'.addr = c /\ rx'.left = 0 /\ rx'.intact
          /\ rx'.high = HighDigit(Len(buffer[c]))
      BY <1>11, <3>1
    <3> QED
      BY <1>1, <1>3, <2>2, <3>3, <3>4, <1>0, Zenon DEF RxAt
  <2>3. CASE w = AddrSize + 1
    <3>1. /\ rx' = [rx EXCEPT !.filled = 0, !.left = Len(buffer[c])]
          /\ ctrl' = IF Len(buffer[c]) = 0 THEN [ctrl EXCEPT ![c] = @ + 1] ELSE ctrl
          /\ UNCHANGED delivered
          /\ rx.addr = c
      BY <1>1, <1>2, <2>3, SendLow, Zenon
    <3>2. ctrl' \in [Conn -> Nat]
      BY <1>11, <3>1
    <3>3. RxType'
      <4>1. 0 \in 0 .. (HeaderSize - 1) /\ Len(buffer[c]) \in Nat
        BY <1>0, FrameBounds
      <4>2. rx' \in [filled : 0 .. (HeaderSize - 1), addr : Conn \cup {None},
                     high : Nat, left : Nat, intact : BOOLEAN]
        BY <1>11, <3>1, <4>1, Zenon
      <4> QED
        BY <1>11, <3>1, <3>2, <4>2, Zenon DEF RxType
    <3>4. rx'.filled = 0 /\ rx'.addr = c /\ rx'.left = Len(buffer[c]) /\ rx'.intact
      BY <1>11, <3>1, Zenon
    <3>5. FrameSize(buffer'[c]) - written'[c] = Len(buffer[c]) /\ written'[c] >= HeaderSize
      <4>1. /\ Len(buffer[c]) \in Nat
            /\ FrameSize(buffer[c]) = AddrSize + 2 + Len(buffer[c])
        BY FrameBounds, Zenon
      <4>2. buffer' = buffer /\ written'[c] = AddrSize + 2
        BY <1>0, <1>1, <1>3, <2>3
      <4>3. (AddrSize + 2 + Len(buffer[c])) - (AddrSize + 2) = Len(buffer[c])
        BY <1>0, <4>1, FrameArith, Zenon
      <4>4. FrameSize(buffer'[c]) - written'[c] = Len(buffer[c])
        BY <4>1, <4>2, <4>3, Zenon
      <4>5. written'[c] >= HeaderSize
        BY <1>0, <4>2
      <4> QED
        BY <4>4, <4>5, Zenon
    <3> QED
      BY <3>3, <3>4, <3>5, Zenon DEF RxAt
  <2>4. CASE w >= HeaderSize
    <3> DEFINE x == buffer[c][w + 1 - HeaderSize]
    <3>1. /\ rx' = [rx EXCEPT !.left = @ - 1]
          /\ delivered' = [delivered EXCEPT ![c] = Append(@, x)]
          /\ UNCHANGED ctrl
          /\ rx.filled = 0 /\ rx.left = FrameSize(buffer[c]) - w /\ rx.addr = c
      BY <1>1, <1>2, <2>4, SendPayload, Zenon
    <3>2. x \in Nat
      <4>1. w + 1 - HeaderSize \in 1 .. Len(buffer[c])
        <5>1. /\ Len(buffer[c]) \in Nat
              /\ FrameSize(buffer[c]) = AddrSize + 2 + Len(buffer[c])
          BY FrameBounds
        <5>2. w < AddrSize + 2 + Len(buffer[c]) /\ w >= AddrSize + 2
          BY <1>0, <1>1, <2>4, <5>1, Zenon
        <5>3. w + 1 - (AddrSize + 2) \in 1 .. Len(buffer[c])
          BY <1>0, <5>1, <5>2, PayloadIndex, Zenon
        <5> QED
          BY <1>0, <5>3, Zenon
      <4> QED
        BY <4>1 DEF IInv, TypeOK, ConnType
    <3>3. delivered' \in [Conn -> Seq(Nat)]
      <4>1. Append(delivered[c], x) \in Seq(Nat)
        BY <1>11, <3>2, AppendProperties, Zenon
      <4> QED
        BY <1>11, <3>1, <4>1, Zenon
    <3> HIDE DEF x
    <3>4. rx.left - 1 \in Nat /\ rx.left - 1 = FrameSize(buffer'[c]) - written'[c]
      <4>1. FrameSize(buffer[c]) \in Nat /\ w \in Nat
        BY <1>0, Zenon
      <4>2. FrameSize(buffer[c]) - w - 1 = FrameSize(buffer[c]) - (w + 1)
        BY <4>1
      <4>3. FrameSize(buffer[c]) - w - 1 \in Nat
        <5>1. w < FrameSize(buffer[c])
          BY <1>1, Zenon
        <5> QED
          BY <4>1, <5>1
      <4> QED
        BY <1>1, <1>3, <3>1, <4>2, <4>3, Zenon
    <3>5. RxType'
      BY <1>11, <3>1, <3>3, <3>4, Zenon DEF RxType
    <3>6. rx'.filled = 0 /\ rx'.addr = c /\ rx'.left = rx.left - 1 /\ rx'.intact
      BY <1>11, <3>1, Zenon
    <3>7. written'[c] >= HeaderSize
      BY <1>3, <2>4, <1>0
    <3> QED
      BY <3>4, <3>5, <3>6, <3>7, Zenon DEF RxAt
  <2> QED
    <3>1. w < AddrSize \/ w = AddrSize \/ w = AddrSize + 1 \/ w >= AddrSize + 2
      BY <1>0, FramePlaces, Zenon
    <3> QED
      BY <1>0, <2>1, <2>2, <2>3, <2>4, <3>1, Zenon
<1>13. RxInv'
  BY <1>1, <1>2, <1>12, Zenon DEF RxInv
<1>14. TypeOK'
  BY <1>1, <1>4, <1>5, <1>6, <1>12, Zenon DEF IInv, TypeOK
<1> QED
  BY <1>9, <1>10, <1>13, <1>14, Zenon DEF IInv

-----------------------------------------------------------------------------

\* The socket fails.
LEMMA BreakStep ==
    ASSUME IInv, Break
    PROVE  IInv'
<1>1. UNCHANGED <<owner, queue, rx, delivered, ctrl, state, written, buffer,
                  pc, left, wrote, accepted, pushed>> /\ broken' = TRUE
  BY DEF Break, lockVars, rxVars, connVars, callVars, histVars
<1>2. LockType' /\ RxType' /\ HistType'
  BY <1>1, Zenon DEF IInv, TypeOK, LockType, RxType, HistType
<1>3. ConnType' /\ CallType'
  BY <1>1, Zenon DEF IInv, TypeOK, ConnType, CallType
<1>4. LockInv' /\ CallInv'
  BY <1>1, Zenon DEF IInv, LockInv, CallInv, InCall, InPacket, FrameSize
<1>5. RxInv'
  BY <1>1, Zenon DEF IInv, RxInv
<1> QED
  BY <1>1, <1>2, <1>3, <1>4, <1>5, Zenon DEF IInv, TypeOK

\* A step that changes nothing.
LEMMA StutterStep ==
    ASSUME IInv, UNCHANGED vars
    PROVE  IInv'
<1>1. UNCHANGED <<owner, queue, rx, delivered, ctrl, state, written, buffer,
                  pc, left, wrote, broken, accepted, pushed>>
  BY DEF vars
<1>2. LockType' /\ RxType' /\ HistType'
  BY <1>1, Zenon DEF IInv, TypeOK, LockType, RxType, HistType
<1>3. ConnType' /\ CallType'
  BY <1>1, Zenon DEF IInv, TypeOK, ConnType, CallType
<1>4. LockInv' /\ CallInv'
  BY <1>1, Zenon DEF IInv, LockInv, CallInv, InCall, InPacket, FrameSize
<1>5. RxInv'
  BY <1>1, Zenon DEF IInv, RxInv, RxAt, FrameSize, AtBoundary
<1> QED
  BY <1>1, <1>2, <1>3, <1>4, <1>5 DEF IInv, TypeOK

-----------------------------------------------------------------------------
(***************************************************************************)
(* The theorems.                                                           *)
(***************************************************************************)

\* The initial state satisfies the inductive invariant.
LEMMA InitIInv == Init => IInv
<1> SUFFICES ASSUME Init PROVE IInv
  OBVIOUS
<1>1. LockType
  BY DEF Init, LockInit, LockType
<1>2. RxType
  <2>1. 0 \in 0 .. (HeaderSize - 1)
    BY AddrSizeAssumption DEF HeaderSize
  <2> QED
    BY <2>1 DEF Init, RxInit, RxType
<1>3. ConnType
  BY DEF Init, ConnType, States
<1>4. CallType
  BY DEF Init, CallType, Calls
<1>5. HistType /\ broken \in BOOLEAN
  <2>1. accepted \in [Conn -> Nat]
    BY DEF Init
  <2>2. pushed \in [Conn -> Seq(Nat)]
    BY DEF Init
  <2> QED
    BY <2>1, <2>2, Zenon DEF Init, HistType
<1>6. LockInv
  BY DEF Init, LockInv, GuardStates
<1>7. CallInv
  <2> SUFFICES ASSUME NEW c \in Conn PROVE InCall(c) /\ InPacket(c)
    BY Zenon DEF CallInv
  <2>1. state[c] = "New" /\ pc[c] = "idle" /\ written[c] = 0 /\ buffer[c] = << >>
    BY DEF Init
  <2>2. PACKET_SIZE \in Nat /\ HeaderSize \in Nat
    BY RadixAssumption, AddrSizeAssumption, SMT DEF PACKET_SIZE, HeaderSize
  <2> QED
    BY <2>1, <2>2 DEF InCall, InPacket, FrameSize
<1>8. RxInv
  BY Zenon DEF Init, RxInit, RxInv, AtBoundary, GuardStates
<1> QED
  BY <1>1, <1>2, <1>3, <1>4, <1>5, <1>6, <1>7, <1>8 DEF IInv, TypeOK

\* Every action preserves the inductive invariant.
LEMMA NextIInv ==
    ASSUME IInv, [Next]_vars, ~DropDuringShutdown, ~CancelHandshake
    PROVE  IInv'
<1>1. ASSUME NEW c \in Conn, Application(c) PROVE IInv'
  BY <1>1, CreateStep, WriteCallStep, FlushCallStep, ShutdownCallStep,
     DropShutdownStep, DropWritingStep, Zenon DEF Application
<1>2. ASSUME NEW c \in Conn, Proceed(c) PROVE IInv'
  BY <1>2, SendErrorStep, PushStep, WriteLockStep, LockPendingStep, WriteFlushedStep,
     WriteReturnStep, FlushLockStep, FlushReturnStep, ShutdownLockStep, ShutdownFlushedStep,
     ShutdownReturnStep, TaskLockStep, HandshakeReturnStep, DropRestSentStep, DropEndStep
, Zenon DEF Proceed
<1>3. ASSUME NEW c \in Conn, SendByte(c) \/ SendPending(c) \/ HandshakeAbort(c) PROVE IInv'
  BY <1>3, SendByteStep, SendPendingStep, HandshakeAbortStep
<1> QED
  BY <1>1, <1>2, <1>3, BreakStep, StutterStep, Zenon DEF Next

\* IInv is an invariant, as long as no connection is dropped in the middle of
\* its shutdown and no add_connection future in the middle of its handshake.
THEOREM Inductive ==
    ASSUME ~DropDuringShutdown, ~CancelHandshake
    PROVE  Spec => []IInv
<1>1. Init => IInv
  BY InitIInv
<1>2. IInv /\ [Next]_vars => IInv'
  BY NextIInv
<1> QED
  BY <1>1, <1>2, PTL DEF Spec

\* Every variable keeps its type.
THEOREM TypeCorrect ==
    ASSUME ~DropDuringShutdown, ~CancelHandshake
    PROVE  Spec => []TypeOK
<1>1. IInv => TypeOK
  BY DEF IInv
<1> QED
  BY <1>1, Inductive, PTL

\* However many connections write, flush, shut down and are dropped, the bytes
\* they put on the shared socket (flush_buf, handshake, Drop) always form
\* well-formed frames.
THEOREM StreamStaysIntact ==
    ASSUME ~DropDuringShutdown, ~CancelHandshake
    PROVE  Spec => []FramesIntact
<1>1. IInv => FramesIntact
  BY DEF IInv, RxInv, FramesIntact
<1> QED
  BY <1>1, Inductive, PTL

\* No assertion and no slice bound of write.rs and packet_buffer.rs fails.
THEOREM NoPoison ==
    ASSUME ~DropDuringShutdown, ~CancelHandshake
    PROVE  Spec => []NeverPoisoned
<1>1. IInv => NeverPoisoned
  <2> SUFFICES ASSUME IInv, NEW c \in Conn
               PROVE  /\ written[c] <= FrameSize(buffer[c])
                      /\ Len(buffer[c]) <= PACKET_SIZE
                      /\ state[c] \in {"HandshakeLock", "HandshakeWrite", "ShutWriting"}
                            => is_empty(buffer[c])
    BY Zenon DEF NeverPoisoned
  <2> QED
    BY EmptyIsEmpty, Zenon DEF IInv, TypeOK, CallInv, InPacket
<1> QED
  BY <1>1, Inductive, PTL

-----------------------------------------------------------------------------
(***************************************************************************)
(* The mutex.  Nothing below depends on what is on the wire, so dropping a *)
(* connection during its shutdown or handshake is no exception.            *)
(***************************************************************************)

\* A connection that gets the guard does not wait for it.
LEMMA ReadyMutex ==
    ASSUME LockType, QueuedOnce, NEW c \in Conn, LockReady(c)
    PROVE  /\ LockType' /\ QueuedOnce' /\ owner \in {None, c} /\ owner' = c
           /\ \A d \in Conn \ {c} : UsesLock(d)' => UsesLock(d)
BY NoneAssumption, Zenon DEF LockType, QueuedOnce, LockReady, UsesLock, Queued

\* A connection joins the queue only if it is not in it.
LEMMA PendingMutex ==
    ASSUME LockType, QueuedOnce, NEW c \in Conn, LockPending(c)
    PROVE  /\ LockType' /\ QueuedOnce' /\ owner' = owner
           /\ \A d \in Conn \ {c} : UsesLock(d)' => UsesLock(d)
<1>1. CASE Queued(c)
  BY <1>1, Zenon DEF LockType, QueuedOnce, LockPending, UsesLock, Queued
<1>2. CASE ~Queued(c)
  <2>1. queue' = Append(queue, c) /\ owner' = owner /\ owner # c
    BY <1>2 DEF LockPending
  <2>2. queue \in Seq(Conn) /\ \A i \in 1 .. Len(queue) : queue[i] # c
    BY <1>2 DEF LockType, Queued
  <2>3. /\ queue' \in Seq(Conn) /\ Len(queue') = Len(queue) + 1 /\ queue'[Len(queue) + 1] = c
        /\ \A i \in 1 .. Len(queue) : queue'[i] = queue[i]
    BY <2>1, <2>2, AppendProperties
  <2>4. QueuedOnce'
    BY <2>1, <2>2, <2>3 DEF QueuedOnce
  <2> QED
    BY <2>1, <2>2, <2>3, <2>4 DEF LockType, UsesLock, Queued
<1> QED
  BY <1>1, <1>2

\* The guard goes to the first in the queue, and its old owner is left with nothing.
LEMMA UnlockMutex ==
    ASSUME LockType, QueuedOnce, NEW c \in Conn, owner = c, Unlock
    PROVE  /\ LockType' /\ QueuedOnce' /\ ~UsesLock(c)'
           /\ \A d \in Conn : UsesLock(d)' => UsesLock(d)
<1>1. CASE queue = << >> /\ owner' = None /\ queue' = queue
  BY <1>1, NoneAssumption DEF LockType, QueuedOnce, UsesLock, Queued
<1>2. CASE queue # << >> /\ owner' = Head(queue) /\ queue' = Tail(queue)
  <2>1. queue \in Seq(Conn) /\ Len(queue) > 0 /\ Len(queue) \in Nat
    BY <1>2 DEF LockType
  <2>2. /\ owner' = queue[1] /\ queue' \in Seq(Conn) /\ Len(queue') = Len(queue) - 1
        /\ \A i \in 1 .. Len(queue) - 1 : queue'[i] = queue[i + 1]
    BY <1>2, <2>1, HeadTailProperties
  <2>3. QueuedOnce'
    <3>1. DOMAIN queue = 1 .. Len(queue) /\ DOMAIN queue' = 1 .. Len(queue) - 1
      BY <2>1, <2>2
    <3>2. \A i, j \in 1 .. Len(queue) : queue[i] = queue[j] => i = j
      BY <3>1, Zenon DEF QueuedOnce
    <3>3. \A i \in 1 .. Len(queue) - 1 : i + 1 \in 1 .. Len(queue) /\ i + 1 # 1 /\ 1 \in 1 .. Len(queue)
      BY <2>1
    <3>4. \A i \in 1 .. Len(queue) - 1 : queue'[i] # owner'
      BY <2>2, <3>2, <3>3, Zenon
    <3>5. \A i, j \in 1 .. Len(queue) - 1 : queue'[i] = queue'[j] => i = j
      <4>1. \A i, j \in 1 .. Len(queue) - 1 : i + 1 = j + 1 => i = j
        OBVIOUS
      <4> QED
        BY <2>2, <3>2, <3>3, <4>1, Zenon
    <3> QED
      BY <3>1, <3>4, <3>5, Zenon DEF QueuedOnce
  <2>4. \A d \in Conn : UsesLock(d)' => \E i \in 1 .. Len(queue) : queue[i] = d
    BY <2>1, <2>2 DEF UsesLock, Queued
  <2>5. \A i \in 1 .. Len(queue) : queue[i] # c
    BY <2>1 DEF QueuedOnce
  <2>6. owner' \in Conn
    BY <2>1, <2>2
  <2> QED
    <3>1. LockType'
      BY <2>2, <2>6 DEF LockType
    <3>2. ~UsesLock(c)'
      BY <2>4, <2>5
    <3>3. \A d \in Conn : UsesLock(d)' => UsesLock(d)
      BY <2>1, <2>4 DEF UsesLock, Queued
    <3> QED
      BY <2>3, <3>1, <3>2, <3>3, Zenon
<1> QED
  BY <1>1, <1>2, Zenon DEF Unlock

\* Taking c out of the queue leaves the others in it.
LEMMA WithoutMutex ==
    ASSUME LockType, QueuedOnce, NEW c \in Conn, Queued(c)
    PROVE  LET q == QueueWithout(c)
           IN  /\ q \in Seq(Conn)
               /\ \A i \in DOMAIN q : q[i] # c /\ \E j \in DOMAIN queue : queue[j] = q[i]
               /\ \A i, j \in DOMAIN q : q[i] = q[j] => i = j
<1> DEFINE k == CHOOSE j \in DOMAIN queue : queue[j] = c
           n == Len(queue)
           f == SubSeq(queue, 1, k - 1)
           g == SubSeq(queue, k + 1, n)
<1>1. k \in 1 .. n /\ queue[k] = c /\ n \in Nat /\ queue \in Seq(Conn)
  BY DEF Queued, LockType
<1> HIDE DEF k
<1>2. \A j \in 1 .. n : queue[j] \in Conn
  BY <1>1
<1>3. f \in Seq(Conn) /\ Len(f) = k - 1 /\ \A j \in 1 .. k - 1 : f[j] = queue[j]
  <2>1. \A j \in 1 .. k - 1 : queue[j] \in Conn
    BY <1>1, <1>2
  <2>2. /\ f \in Seq(Conn) /\ Len(f) = IF 1 <= k - 1 THEN (k - 1) - 1 + 1 ELSE 0
        /\ \A j \in 1 .. (k - 1) - 1 + 1 : f[j] = queue[1 + j - 1]
    BY <1>1, <2>1, SubSeqProperties
  <2> QED
    BY <1>1, <2>2
<1>4. g \in Seq(Conn) /\ Len(g) = n - k /\ \A j \in 1 .. n - k : g[j] = queue[k + j]
  <2>1. \A j \in k + 1 .. n : queue[j] \in Conn
    BY <1>1, <1>2
  <2>2. /\ g \in Seq(Conn) /\ Len(g) = IF k + 1 <= n THEN n - (k + 1) + 1 ELSE 0
        /\ \A j \in 1 .. n - (k + 1) + 1 : g[j] = queue[(k + 1) + j - 1]
    BY <1>1, <2>1, SubSeqProperties
  <2> QED
    BY <1>1, <2>2
<1>5. QueueWithout(c) = f \o g
  BY DEF QueueWithout, k
<1> HIDE DEF f, g, n
<1>6. /\ f \o g \in Seq(Conn) /\ Len(f \o g) = n - 1
      /\ \A i \in 1 .. n - 1 : (f \o g)[i] = IF i <= k - 1 THEN queue[i] ELSE queue[i + 1]
  <2>1. /\ f \o g \in Seq(Conn) /\ Len(f \o g) = Len(f) + Len(g)
        /\ \A i \in 1 .. Len(f) + Len(g) : (f \o g)[i] = IF i <= Len(f) THEN f[i] ELSE g[i - Len(f)]
    BY <1>3, <1>4, ConcatProperties, Zenon
  <2>2. Len(f) + Len(g) = n - 1
    BY <1>1, <1>3, <1>4
  <2>3. ASSUME NEW i \in 1 .. n - 1
        PROVE  (f \o g)[i] = IF i <= k - 1 THEN queue[i] ELSE queue[i + 1]
    <3>1. CASE i <= k - 1
      BY <1>1, <1>3, <2>1, <2>2, <3>1
    <3>2. CASE i > k - 1
      <4>1. i - (k - 1) \in 1 .. n - k /\ k + (i - (k - 1)) = i + 1
        BY <1>1, <3>2
      <4>2. (f \o g)[i] = g[i - (k - 1)]
        BY <1>1, <1>3, <2>1, <2>2, <3>2
      <4> QED
        BY <1>1, <1>4, <3>2, <4>1, <4>2
    <3>3. i <= k - 1 \/ i > k - 1
      BY <1>1
    <3> QED
      BY <3>1, <3>2, <3>3, Zenon
  <2> QED
    BY <2>1, <2>2, <2>3, Zenon
<1>7. \A i, j \in 1 .. n : queue[i] = queue[j] => i = j
  BY <1>1 DEF QueuedOnce, n
<1>8. DOMAIN (f \o g) = 1 .. n - 1 /\ DOMAIN queue = 1 .. n
  BY <1>1, <1>6 DEF n
<1> DEFINE At(i) == IF i <= k - 1 THEN i ELSE i + 1
<1>9. ASSUME NEW i \in 1 .. n - 1 PROVE (f \o g)[i] = queue[At(i)] /\ At(i) \in 1 .. n /\ At(i) # k
  <2>1. (f \o g)[i] = IF i <= k - 1 THEN queue[i] ELSE queue[i + 1]
    BY <1>6, Zenon
  <2>2. At(i) \in 1 .. n /\ At(i) # k
    BY <1>1
  <2> QED
    BY <2>1, <2>2, Zenon
<1>10. \A i, j \in 1 .. n - 1 : At(i) = At(j) => i = j
  BY <1>1
<1> HIDE DEF At
<1>11. \A i \in 1 .. n - 1 : (f \o g)[i] # c /\ \E j \in 1 .. n : queue[j] = (f \o g)[i]
  BY <1>1, <1>7, <1>9, Zenon
<1>12. \A i, j \in 1 .. n - 1 : (f \o g)[i] = (f \o g)[j] => i = j
  BY <1>7, <1>9, <1>10, Zenon
<1> QED
  BY <1>5, <1>6, <1>8, <1>11, <1>12, Zenon

\* Whatever c has of the mutex is gone, and the others keep what they have.
LEMMA DropMutex ==
    ASSUME LockType, QueuedOnce, NEW c \in Conn, LockDrop(c)
    PROVE  /\ LockType' /\ QueuedOnce' /\ ~UsesLock(c)' /\ (owner' = owner \/ owner = c)
           /\ \A d \in Conn : UsesLock(d)' => UsesLock(d)
<1>1. CASE owner = c /\ Unlock
  BY <1>1, UnlockMutex, Zenon
<1>2. CASE owner # c /\ owner' = owner /\ ~Queued(c) /\ queue' = queue
  BY <1>2, Zenon DEF LockType, QueuedOnce, UsesLock, Queued
<1>3. CASE owner # c /\ owner' = owner /\ Queued(c) /\ queue' = QueueWithout(c)
  <2>1. /\ queue' \in Seq(Conn)
        /\ \A i \in DOMAIN queue' : queue'[i] # c /\ \E j \in DOMAIN queue : queue[j] = queue'[i]
        /\ \A i, j \in DOMAIN queue' : queue'[i] = queue'[j] => i = j
    BY <1>3, WithoutMutex, Zenon
  <2> QED
    BY <1>3, <2>1 DEF LockType, QueuedOnce, UsesLock, Queued
<1> QED
  BY <1>1, <1>2, <1>3, Zenon DEF LockDrop

\* A step of c that moves it to state s and call p, where s has the guard only if c
\* owns the mutex, and is an end only if c has nothing of it.
LEMMA MutexLocal ==
    ASSUME MutexInv, NEW c \in Conn, NEW s \in States, NEW p \in Calls,
           state' = [state EXCEPT ![c] = s], pc' = [pc EXCEPT ![c] = p],
           p = "writeFlush" => s = "Flushing",
           p \in {"write", "flush"} => s \in WritingStates,
           p = "shutdown" => s \in {"WaitingLock", "ShutFlushing", "ShutWriting"},
           LockType', QueuedOnce', owner' = owner \/ owner \in {None, c},
           s \in GuardStates => owner' = c,
           s \in {"Done", "Error", "Dropped"} => ~UsesLock(c)',
           \A d \in Conn \ {c} : UsesLock(d)' => UsesLock(d)
    PROVE  MutexInv'
<1>1. /\ state' \in [Conn -> States] /\ state'[c] = s
      /\ \A d \in Conn \ {c} : state'[d] = state[d]
  BY Zenon DEF MutexInv
<1>2. /\ pc' \in [Conn -> Calls] /\ pc'[c] = p
      /\ \A d \in Conn \ {c} : pc'[d] = pc[d]
  BY Zenon DEF MutexInv
<1>3. \A d \in Conn : InCall(d)'
  BY <1>1, <1>2 DEF MutexInv, InCall
<1>4. LockInv'
  BY <1>1, NoneAssumption DEF MutexInv, LockInv
<1>5. \A d \in Conn : UsesLock(d)' => state'[d] \notin {"Done", "Error", "Dropped"}
  BY <1>1, Zenon DEF MutexInv
<1> QED
  BY <1>1, <1>2, <1>3, <1>4, <1>5, Zenon DEF MutexInv

\* What such a step may use.
LEMMA MutexFacts ==
    ASSUME MutexInv, NEW c \in Conn
    PROVE  /\ LockType /\ QueuedOnce
           /\ state[c] \in States /\ pc[c] \in Calls
           /\ state = [state EXCEPT ![c] = state[c]] /\ pc = [pc EXCEPT ![c] = pc[c]]
           /\ state[c] \in GuardStates => owner = c
           /\ state[c] \in {"Done", "Error", "Dropped"} => ~UsesLock(c)
           /\ pc[c] = "writeFlush" => state[c] = "Flushing"
           /\ pc[c] \in {"write", "flush"} => state[c] \in WritingStates
           /\ pc[c] = "shutdown" => state[c] \in {"WaitingLock", "ShutFlushing", "ShutWriting"}
BY Zenon DEF MutexInv, LockInv, InCall

\* A step that leaves the mutex alone.
LEMMA MutexUntouched ==
    ASSUME MutexInv, UNCHANGED lockVars
    PROVE  /\ LockType' /\ QueuedOnce' /\ owner' = owner
           /\ \A d \in Conn : UsesLock(d)' <=> UsesLock(d)
BY Zenon DEF MutexInv, LockType, QueuedOnce, UsesLock, Queued, lockVars

\* Calls begin and return, bytes are pushed and sent: c stays in its state.
LEMMA MutexCallStep ==
    ASSUME MutexInv, NEW c \in Conn, UNCHANGED <<lockVars, state>>,
           NEW p \in Calls, pc' = [pc EXCEPT ![c] = p],
           p = "writeFlush" => state[c] = "Flushing",
           p \in {"write", "flush"} => state[c] \in WritingStates,
           p = "shutdown" => state[c] \in {"WaitingLock", "ShutFlushing", "ShutWriting"}
    PROVE  MutexInv'
BY MutexFacts, MutexUntouched, MutexLocal, Zenon

\* poll_write and poll_flush up to the mutex, and the bytes they send.
LEMMA MutexQuietStep ==
    ASSUME MutexInv, NEW c \in Conn,
           (\E n \in 1 .. MaxChunk : WriteCall(c, n)) \/ FlushCall(c)
             \/ WriteBuffering(c) \/ WriteFlushing(c) \/ WriteReturn(c)
             \/ SendByte(c) \/ SendPending(c)
    PROVE  MutexInv'
<1>1. CASE (\E n \in 1 .. MaxChunk : WriteCall(c, n)) \/ FlushCall(c)
  <2>1. /\ UNCHANGED <<lockVars, state>> /\ state[c] \in WritingStates
        /\ pc' = [pc EXCEPT ![c] = "write"] \/ pc' = [pc EXCEPT ![c] = "flush"]
    BY <1>1, Zenon DEF WriteCall, FlushCall, Goto, connVars
  <2>2. "write" \in Calls /\ "flush" \in Calls
    BY Zenon DEF Calls
  <2> QED
    BY <2>1, <2>2, MutexCallStep, Zenon
<1>2. CASE WriteFlushing(c)
  <2>1. /\ UNCHANGED <<lockVars, state>> /\ state[c] = "Flushing"
        /\ pc' = [pc EXCEPT ![c] = "writeFlush"]
    BY <1>2, Zenon DEF WriteFlushing
  <2>2. "writeFlush" \in Calls
    BY Zenon DEF Calls
  <2> QED
    BY <2>1, <2>2, MutexCallStep, Zenon
<1>3. CASE WriteReturn(c) \/ SendPending(c)
  <2>1. UNCHANGED <<lockVars, state>> /\ pc' = [pc EXCEPT ![c] = "idle"]
    BY <1>3, Zenon DEF WriteReturn, SendPending, Return, connVars
  <2>2. "idle" \in Calls
    BY Zenon DEF Calls
  <2> QED
    BY <2>1, <2>2, MutexCallStep, Zenon
<1>4. CASE WriteBuffering(c) \/ SendByte(c)
  <2>1. UNCHANGED <<lockVars, state>> /\ pc' = pc
    BY <1>4, Zenon DEF WriteBuffering, SendByte, lockVars, callVars
  <2> QED
    BY <2>1, MutexFacts, MutexCallStep, Zenon
<1> QED
  BY <1>1, <1>2, <1>3, <1>4, Zenon

\* c changes its state and keeps what it has of the mutex.
LEMMA MutexMoveStep ==
    ASSUME MutexInv, NEW c \in Conn, UNCHANGED lockVars,
           NEW s \in States, state' = [state EXCEPT ![c] = s],
           NEW p \in Calls, pc' = [pc EXCEPT ![c] = p], p \in {"idle", "shutdown"},
           p = "shutdown" => s \in {"WaitingLock", "ShutFlushing", "ShutWriting"},
           s \in GuardStates => state[c] \in GuardStates,
           s \notin {"Done", "Error", "Dropped"}
    PROVE  MutexInv'
BY MutexFacts, MutexUntouched, MutexLocal, Zenon

\* Connections are made, shut down and dropped.
LEMMA MutexKeepStep ==
    ASSUME MutexInv, NEW c \in Conn,
           AddConnection(c) \/ Accept(c) \/ ShutdownCall(c) \/ ShutdownFlushed(c)
             \/ DropWriting(c) \/ DropRestSent(c)
    PROVE  MutexInv'
<1>1. CASE AddConnection(c) \/ Accept(c) \/ DropRestSent(c)
  <2>1. pc[c] = "idle" /\ pc' = [pc EXCEPT ![c] = "idle"] /\ "idle" \in Calls
    BY <1>1, MutexFacts, Zenon DEF AddConnection, Accept, DropRestSent, callVars, WritingStates, Calls
  <2>2. PICK s \in {"HandshakeLock", "Buffering", "DropEof"} :
          /\ state' = [state EXCEPT ![c] = s] /\ UNCHANGED lockVars
          /\ s = "DropEof" => state[c] = "DropRest"
    BY <1>1, Zenon DEF AddConnection, Accept, DropRestSent, Become
  <2>3. s \in States
    BY Zenon DEF States, WritingStates, TaskStates
  <2> QED
    BY <2>1, <2>2, <2>3, MutexMoveStep, Zenon DEF GuardStates
<1>2. CASE DropWriting(c)
  <2>1. pc[c] = "idle" /\ pc' = [pc EXCEPT ![c] = "idle"] /\ "idle" \in Calls
    BY <1>2, MutexFacts, Zenon DEF DropWriting, callVars, Calls
  <2>2. PICK s \in {"DropRest", "DropEof", "DropLock"} :
          /\ state' = [state EXCEPT ![c] = s] /\ UNCHANGED lockVars
          /\ s # "DropLock" => state[c] = "Flushing"
    BY <1>2, Zenon DEF DropWriting, Become
  <2>3. s \in States
    BY Zenon DEF States, TaskStates
  <2> QED
    BY <2>1, <2>2, <2>3, MutexMoveStep, Zenon DEF GuardStates
<1>3. CASE ShutdownFlushed(c)
  <2>1. /\ pc[c] = "shutdown" /\ pc' = [pc EXCEPT ![c] = "shutdown"] /\ "shutdown" \in Calls
        /\ state' = [state EXCEPT ![c] = "ShutWriting"] /\ UNCHANGED lockVars
        /\ state[c] = "ShutFlushing"
    BY <1>3, MutexFacts, Zenon DEF ShutdownFlushed, callVars, Calls, Become
  <2>2. "ShutWriting" \in States
    BY Zenon DEF States, ShutdownStates
  <2> QED
    BY <2>1, <2>2, MutexMoveStep, Zenon DEF GuardStates
<1>4. CASE ShutdownCall(c)
  <2> DEFINE s == CASE state[c] = "Buffering" -> "WaitingLock"
                    [] state[c] = "Flushing"  -> "ShutFlushing"
                    [] OTHER           -> state[c]
  <2>1. /\ pc' = [pc EXCEPT ![c] = "shutdown"] /\ "shutdown" \in Calls
        /\ state' = [state EXCEPT ![c] = s] /\ UNCHANGED lockVars
        /\ state[c] \in WritingStates \cup {"WaitingLock", "ShutFlushing", "ShutWriting"}
    BY <1>4, Zenon DEF ShutdownCall, Goto, Calls
  <2>2. /\ s \in {"WaitingLock", "ShutFlushing", "ShutWriting"}
        /\ s \in GuardStates => state[c] \in GuardStates
    BY <2>1, Zenon DEF WritingStates, GuardStates
  <2>3. s \in States
    BY <2>2, Zenon DEF States, ShutdownStates
  <2> HIDE DEF s
  <2> QED
    BY <2>1, <2>2, <2>3, MutexMoveStep, Zenon
<1> QED
  BY <1>1, <1>2, <1>3, <1>4, Zenon

\* poll_lock is ready: c gets the guard and uses it.
LEMMA MutexLockStep ==
    ASSUME MutexInv, NEW c \in Conn, LockReady(c),
           NEW s \in GuardStates, state' = [state EXCEPT ![c] = s],
           NEW p \in Calls, pc' = [pc EXCEPT ![c] = p],
           p = "writeFlush" => s = "Flushing",
           p \in {"write", "flush"} => s \in WritingStates,
           p = "shutdown" => s \in {"WaitingLock", "ShutFlushing", "ShutWriting"}
    PROVE  MutexInv'
<1>1. /\ LockType' /\ QueuedOnce' /\ owner \in {None, c} /\ owner' = c
      /\ \A d \in Conn \ {c} : UsesLock(d)' => UsesLock(d)
  BY MutexFacts, ReadyMutex, Zenon
<1>2. s \in States /\ s \notin {"Done", "Error", "Dropped"}
  BY Zenon DEF States, GuardStates, WritingStates, ShutdownStates, TaskStates
<1> QED
  BY <1>1, <1>2, MutexLocal, Zenon

\* poll_lock is pending, and the call returns if there is one.
LEMMA MutexWaitStep ==
    ASSUME MutexInv, NEW c \in Conn, LockPending(c), UNCHANGED state,
           pc' = pc \/ pc' = [pc EXCEPT ![c] = "idle"],
           state[c] \notin {"Done", "Error", "Dropped"}
    PROVE  MutexInv'
<1>1. /\ LockType' /\ QueuedOnce' /\ owner' = owner
      /\ \A d \in Conn \ {c} : UsesLock(d)' => UsesLock(d)
  BY MutexFacts, PendingMutex, Zenon
<1>2. "idle" \in Calls
  BY Zenon DEF Calls
<1>3. CASE pc' = pc
  BY <1>1, <1>3, MutexFacts, MutexLocal
<1>4. CASE pc' = [pc EXCEPT ![c] = "idle"]
  BY <1>1, <1>2, <1>4, MutexFacts, MutexLocal, Zenon
<1> QED
  BY <1>3, <1>4, Zenon

\* The owner drops its guard and goes on without.
LEMMA MutexUnlockStep ==
    ASSUME MutexInv, NEW c \in Conn, Unlock, state[c] \in GuardStates,
           NEW s \in States, s \notin GuardStates, state' = [state EXCEPT ![c] = s],
           NEW p \in {"idle", "write"}, pc' = [pc EXCEPT ![c] = p],
           p = "write" => s \in WritingStates
    PROVE  MutexInv'
<1>1. owner = c
  BY MutexFacts, Zenon
<1>2. /\ LockType' /\ QueuedOnce' /\ ~UsesLock(c)'
      /\ \A d \in Conn : UsesLock(d)' => UsesLock(d)
  BY <1>1, MutexFacts, UnlockMutex, Zenon
<1>3. p \in Calls
  BY Zenon DEF Calls
<1> QED
  BY <1>1, <1>2, <1>3, MutexLocal, Zenon

\* Whoever drops what it has of the mutex goes on without.
LEMMA MutexDropStep ==
    ASSUME MutexInv, NEW c \in Conn, LockDrop(c),
           NEW s \in States, s \notin GuardStates, state' = [state EXCEPT ![c] = s],
           UNCHANGED pc, pc[c] = "idle"
    PROVE  MutexInv'
<1>1. /\ LockType' /\ QueuedOnce' /\ ~UsesLock(c)' /\ (owner' = owner \/ owner = c)
      /\ \A d \in Conn : UsesLock(d)' => UsesLock(d)
  BY MutexFacts, DropMutex, Zenon
<1>2. "idle" \in Calls /\ pc' = [pc EXCEPT ![c] = "idle"]
  BY MutexFacts, Zenon DEF Calls
<1> QED
  BY <1>1, <1>2, MutexLocal, Zenon

\* The calls and tasks that ask for the mutex.
LEMMA MutexAskStep ==
    ASSUME MutexInv, NEW c \in Conn,
           WriteLock(c) \/ FlushLock(c) \/ ShutdownLock(c) \/ HandshakeLock(c) \/ DropLock(c)
             \/ WriteLockPending(c) \/ FlushLockPending(c) \/ ShutdownLockPending(c)
    PROVE  MutexInv'
<1>1. CASE WriteLock(c)
  <2>1. /\ LockReady(c) /\ state' = [state EXCEPT ![c] = "Flushing"]
        /\ pc' = [pc EXCEPT ![c] = "writeFlush"] /\ "writeFlush" \in Calls
    BY <1>1, Zenon DEF WriteLock, Become, Goto, Calls
  <2> QED
    BY <2>1, MutexLockStep, Zenon DEF GuardStates, WritingStates
<1>2. CASE FlushLock(c) \/ ShutdownLock(c)
  <2>1. PICK s \in {"Flushing", "ShutFlushing"} :
          /\ LockReady(c) /\ state' = [state EXCEPT ![c] = s]
          /\ \/ s = "Flushing" /\ pc[c] = "flush"
             \/ s = "ShutFlushing" /\ pc[c] = "shutdown"
    BY <1>2, Zenon DEF FlushLock, ShutdownLock, Become
  <2>2. pc' = [pc EXCEPT ![c] = pc[c]] /\ pc[c] \in Calls
    BY <1>2, MutexFacts, Zenon DEF FlushLock, ShutdownLock, callVars
  <2> QED
    BY <2>1, <2>2, MutexLockStep, Zenon DEF GuardStates, WritingStates
<1>3. ASSUME HandshakeLock(c) \/ DropLock(c), NEW s \in GuardStates,
             LockReady(c), state' = [state EXCEPT ![c] = s]
      PROVE  MutexInv'
  <2>1. pc[c] = "idle" /\ pc' = [pc EXCEPT ![c] = "idle"] /\ "idle" \in Calls
    BY <1>3, MutexFacts, Zenon DEF HandshakeLock, DropLock, callVars, Calls, WritingStates
  <2> QED
    BY <1>3, <2>1, MutexLockStep, Zenon
<1>4. CASE /\ HandshakeLock(c) \/ DropLock(c)
           /\ LockPending(c) /\ UNCHANGED state
  <2>1. UNCHANGED pc /\ state[c] \notin {"Done", "Error", "Dropped"}
    BY <1>4, Zenon DEF HandshakeLock, DropLock, callVars
  <2> QED
    BY <1>4, <2>1, MutexWaitStep, Zenon
<1>5. CASE HandshakeLock(c) \/ DropLock(c)
  <2>1. \/ LockReady(c) /\ state' = [state EXCEPT ![c] = "HandshakeWrite"]
        \/ LockReady(c) /\ state' = [state EXCEPT ![c] = "DropEof"]
        \/ LockPending(c) /\ UNCHANGED state
    BY <1>5, Zenon DEF HandshakeLock, DropLock, Become
  <2> QED
    BY <1>3, <1>4, <1>5, <2>1, Zenon DEF GuardStates
<1>6. CASE WriteLockPending(c) \/ FlushLockPending(c) \/ ShutdownLockPending(c)
  <2>1. /\ LockPending(c) /\ UNCHANGED state /\ pc' = [pc EXCEPT ![c] = "idle"]
        /\ state[c] \in {"Buffering", "WaitingLock"}
    BY <1>6, Zenon DEF WriteLockPending, FlushLockPending, ShutdownLockPending, Return, connVars
  <2> QED
    BY <2>1, MutexWaitStep, Zenon
<1> QED
  BY <1>1, <1>2, <1>5, <1>6, Zenon

\* The calls and tasks that give the mutex back.
LEMMA MutexGiveStep ==
    ASSUME MutexInv, NEW c \in Conn,
           SendError(c) \/ WriteFlushed(c) \/ FlushReturn(c) \/ ShutdownReturn(c)
             \/ HandshakeReturn(c) \/ DropEnd(c) \/ HandshakeAbort(c) \/ DropShutdown(c)
    PROVE  MutexInv'
<1>0. {"Buffering", "Error", "Done", "Dropped", "DropLock"} \subseteq States \ GuardStates
  BY Zenon DEF States, GuardStates, WritingStates, ShutdownStates, TaskStates
<1>1. CASE SendError(c)
  <2>1. PICK s \in {"Error", "Buffering"} :
          /\ Unlock /\ state' = [state EXCEPT ![c] = s] /\ pc' = [pc EXCEPT ![c] = "idle"]
    BY <1>1, Zenon DEF SendError, Become, Return
  <2>2. state[c] \in GuardStates
    BY <1>1, MutexFacts, Zenon DEF SendError, Sending, GuardStates
  <2> QED
    BY <1>0, <2>1, <2>2, MutexUnlockStep, Zenon
<1>2. CASE WriteFlushed(c)
  <2>1. /\ Unlock /\ state' = [state EXCEPT ![c] = "Buffering"]
        /\ pc' = [pc EXCEPT ![c] = "write"] /\ state[c] = "Flushing"
    BY <1>2, MutexFacts, Zenon DEF WriteFlushed, Become, Goto
  <2> QED
    BY <1>0, <2>1, MutexUnlockStep, Zenon DEF GuardStates, WritingStates
<1>3. CASE FlushReturn(c) \/ ShutdownReturn(c)
  <2>1. PICK s \in {"Buffering", "Done"} :
          /\ Unlock /\ state' = [state EXCEPT ![c] = s] /\ pc' = [pc EXCEPT ![c] = "idle"]
          /\ state[c] \in {"Flushing", "ShutWriting"}
    BY <1>3, Zenon DEF FlushReturn, ShutdownReturn, Become, Return
  <2> QED
    BY <1>0, <2>1, MutexUnlockStep, Zenon DEF GuardStates
<1>4. CASE HandshakeReturn(c) \/ DropEnd(c)
  <2>1. PICK s \in {"Buffering", "Dropped"} :
          /\ Unlock /\ state' = [state EXCEPT ![c] = s]
          /\ state[c] \in {"HandshakeWrite", "DropRest", "DropEof"}
    BY <1>4, Zenon DEF HandshakeReturn, DropEnd, Become
  <2>2. pc' = [pc EXCEPT ![c] = "idle"]
    BY <1>4, <2>1, MutexFacts, Zenon DEF HandshakeReturn, DropEnd, callVars, WritingStates, Calls
  <2> QED
    BY <1>0, <2>1, <2>2, MutexUnlockStep, Zenon DEF GuardStates
<1>5. CASE HandshakeAbort(c) \/ DropShutdown(c)
  <2>1. PICK s \in {"DropLock", "Dropped"} :
          LockDrop(c) /\ state' = [state EXCEPT ![c] = s] /\ UNCHANGED pc
    BY <1>5, Zenon DEF HandshakeAbort, DropShutdown, Become, callVars
  <2>2. pc[c] = "idle"
    BY <1>5, MutexFacts, Zenon DEF HandshakeAbort, DropShutdown, WritingStates, Calls
  <2> QED
    BY <1>0, <2>1, <2>2, MutexDropStep, Zenon
<1> QED
  BY <1>1, <1>2, <1>3, <1>4, <1>5, Zenon

\* Every step keeps the mutex in order.
LEMMA NextMutexInv == MutexInv /\ [Next]_vars => MutexInv'
<1> SUFFICES ASSUME MutexInv, [Next]_vars PROVE MutexInv'
  OBVIOUS
<1>1. ASSUME NEW c \in Conn, Application(c) PROVE MutexInv'
  BY <1>1, MutexQuietStep, MutexKeepStep, MutexGiveStep, Zenon DEF Application
<1>2. ASSUME NEW c \in Conn, Proceed(c) PROVE MutexInv'
  BY <1>2, MutexQuietStep, MutexKeepStep, MutexGiveStep, MutexAskStep, Zenon DEF Proceed
<1>3. ASSUME NEW c \in Conn, SendByte(c) \/ SendPending(c) \/ HandshakeAbort(c) PROVE MutexInv'
  BY <1>3, MutexQuietStep, MutexGiveStep, Zenon
<1>4. CASE Break \/ UNCHANGED vars
  <2>1. UNCHANGED <<owner, queue, state, pc>>
    BY <1>4, Zenon DEF Break, vars, lockVars, connVars, callVars
  <2> QED
    <3>1. LockType' /\ state' \in [Conn -> States] /\ pc' \in [Conn -> Calls]
      BY <2>1, Zenon DEF MutexInv, LockType
    <3>2. QueuedOnce'
      BY <2>1, Zenon DEF MutexInv, QueuedOnce
    <3>3. LockInv'
      BY <2>1, Zenon DEF MutexInv, LockInv
    <3>4. \A c \in Conn : InCall(c)'
      BY <2>1, Zenon DEF MutexInv, InCall
    <3>5. \A c \in Conn : UsesLock(c)' => state'[c] \notin {"Done", "Error", "Dropped"}
      BY <2>1, Zenon DEF MutexInv, UsesLock, Queued
    <3> QED
      BY <3>1, <3>2, <3>3, <3>4, <3>5, Zenon DEF MutexInv
<1> QED
  BY <1>1, <1>2, <1>3, <1>4, Zenon DEF Next

\* Nobody has the mutex in the beginning.
LEMMA InitMutexInv == Init => MutexInv
BY NoneAssumption DEF Init, LockInit, MutexInv, LockType, QueuedOnce, LockInv, InCall, UsesLock,
   Queued, States, Calls, GuardStates

\* In every interleaving of poll_lock, take_token and the drops of guards and futures,
\* the guard and the places in the queue belong to connections whose state says so.
THEOREM MutexInductive == Spec => []MutexInv
BY InitMutexInv, NextMutexInv, PTL DEF Spec

\* A connection that is over, however it came to its end (shutdown, a failed stream,
\* Drop in any state, a cancelled handshake), holds and waits for nothing of the mutex.
THEOREM NothingHeldAfterTheEnd == Spec => []LocksReleased
<1>1. MutexInv => LocksReleased
  BY Zenon DEF MutexInv, UsesLock, LocksReleased
<1> QED
  BY <1>1, MutexInductive, PTL

=============================================================================
