-------------------------- MODULE WriteInnerLemmas --------------------------
(***************************************************************************)
(* What the steps of WriteInner have in common: the arithmetic of the      *)
(* length field, the helpers its actions are made of, and which part of    *)
(* the inductive invariant a step of one connection can disturb.  Then the *)
(* actions that move the guard, or a connection through its life.          *)
(***************************************************************************)
EXTENDS WriteInner, Integers, SequenceTheorems, TLAPS

(***************************************************************************)
(* The length field.                                                       *)
(***************************************************************************)

\* What is read back from the two digits of a length (MuxFrameHeader::len) is
\* the length.
LEMMA DigitsOfLength ==
    ASSUME NEW n \in Nat
    PROVE  /\ HighDigit(n) \in Nat
           /\ LowDigit(n) \in Nat
           /\ LowDigit(n) < Radix
           /\ FromDigits(HighDigit(n), LowDigit(n)) = n
BY RadixAssumption, SMT DEF HighDigit, LowDigit, FromDigits

\* A length that grows within its low digit keeps its high digit.
LEMMA HighDigitStable ==
    ASSUME NEW n \in Nat, NEW k \in Nat, LowDigit(n) + k < Radix
    PROVE  HighDigit(n + k) = HighDigit(n)
<1> DEFINE q == HighDigit(n)
           r == LowDigit(n)
<1>1. q \in Nat /\ r \in Nat /\ n = q * Radix + r
  BY DigitsOfLength DEF FromDigits
<1>2. n + k = q * Radix + (r + k)
  BY <1>1, RadixAssumption
<1>3. \A p \in Nat : \A m \in Nat : m < Radix => (p * Radix + m) \div Radix = p
  BY RadixAssumption, SMT
<1>4. (n + k) \div Radix = q
  BY <1>1, <1>2, <1>3
<1> QED
  BY <1>4 DEF HighDigit

\* Filling the low digit never takes the length past PACKET_SIZE.
LEMMA PacketFits ==
    ASSUME NEW n \in Nat, n <= PACKET_SIZE
    PROVE  n + ((Radix - 1) - LowDigit(n)) <= PACKET_SIZE
<1> DEFINE q == HighDigit(n)
           r == LowDigit(n)
<1>1. q \in Nat /\ r \in Nat /\ r < Radix /\ n = q * Radix + r
  BY DigitsOfLength DEF FromDigits
<1>2. q < Radix
  <2>1. SUFFICES ASSUME q >= Radix PROVE FALSE
    BY <1>1, RadixAssumption
  <2>2. q * Radix >= Radix * Radix
    BY <1>1, <2>1, RadixAssumption, SMT
  <2> QED
    BY <1>1, <2>2, RadixAssumption DEF PACKET_SIZE
<1>3. q * Radix + Radix <= Radix * Radix
  BY <1>1, <1>2, RadixAssumption, SMT
<1> QED
  BY <1>1, <1>3, RadixAssumption DEF PACKET_SIZE

\* push takes no more than it is offered and than the packet has room for;
\* once the first length digit is out it does not change it, and once both
\* are out it takes nothing.
LEMMA PushLen ==
    ASSUME NEW data \in Seq(Nat), NEW w \in Nat, NEW n \in Nat,
           Len(data) <= PACKET_SIZE
    PROVE  LET k == push_len(data, w, n)
           IN  /\ k \in 0 .. n
               /\ Len(data) + k <= PACKET_SIZE
               /\ w = AddrSize + 1 => HighDigit(Len(data) + k) = HighDigit(Len(data))
               /\ w > AddrSize + 1 => k = 0
<1> DEFINE k == push_len(data, w, n)
           len == Len(data)
           m == max_len(data, w)
<1>0. len \in Nat /\ PACKET_SIZE \in Int /\ AddrSize \in Nat /\ Radix \in Nat
  BY RadixAssumption, AddrSizeAssumption DEF PACKET_SIZE
<1>1. LowDigit(len) \in Nat /\ LowDigit(len) < Radix
  BY <1>0, DigitsOfLength
<1>2. CASE w < AddrSize + 1
  <2>1. m = PACKET_SIZE - len
    BY <1>2 DEF max_len, LEN_FIELD_CUTOFF
  <2> QED
    BY <1>0, <1>2, <2>1 DEF push_len
<1>3. CASE w = AddrSize + 1
  <2>1. m = (Radix - 1) - LowDigit(len)
    BY <1>0, <1>3 DEF max_len, LEN_FIELD_CUTOFF
  <2>2. k \in 0 .. n /\ k <= m
    BY <1>0, <1>1, <2>1 DEF push_len
  <2>3. len + m <= PACKET_SIZE
    BY <1>0, <2>1, PacketFits
  <2>4. HighDigit(len + k) = HighDigit(len)
    BY <1>0, <1>1, <2>1, <2>2, HighDigitStable
  <2> HIDE DEF k, m
  <2> QED
    BY <1>0, <1>1, <1>3, <2>1, <2>2, <2>3, <2>4, SMTT(20) DEF k
<1>4. CASE w > AddrSize + 1
  <2>1. m = 0
    BY <1>0, <1>4 DEF max_len, LEN_FIELD_CUTOFF
  <2> QED
    BY <1>0, <1>4, <2>1 DEF push_len
<1> QED
  BY <1>0, <1>2, <1>3, <1>4

-----------------------------------------------------------------------------
(***************************************************************************)
(* IInv is inductive.  The lemmas below take the actions one by one.       *)
(***************************************************************************)

\* The step leaves every connection but c alone.
Others(c) ==
    \A d \in Conn \ {c} : /\ state'[d] = state[d]
                          /\ written'[d] = written[d]
                          /\ buffer'[d] = buffer[d]
                          /\ pc'[d] = pc[d]

\* A step of c disturbs the call invariant of c only.
LEMMA CallInvLocal ==
    ASSUME CallInv, NEW c \in Conn, Others(c), InCall(c)', InPacket(c)'
    PROVE  CallInv'
<1> SUFFICES ASSUME NEW d \in Conn PROVE InCall(d)' /\ InPacket(d)'
  BY DEF CallInv
<1>1. CASE d = c
  BY <1>1
<1>2. CASE d # c
  BY <1>2 DEF CallInv, Others, InCall, InPacket, FrameSize
<1> QED
  BY <1>1, <1>2

(***************************************************************************)
(* The mutex: a step keeps it, takes it or gives it away.                  *)
(***************************************************************************)

\* The mutex stays with its owner and nobody new uses the guard.
LEMMA LockKept ==
    ASSUME LockInv, NEW c \in Conn, Others(c), owner' = owner,
           state'[c] \in GuardStates => state[c] \in GuardStates
    PROVE  LockInv'
BY DEF LockInv, Others, GuardStates

\* poll_lock gave c the guard: nobody else was using it.
LEMMA LockTaken ==
    ASSUME LockInv, NEW c \in Conn, Others(c), owner \in {None, c}, owner' = c
    PROVE  LockInv' /\ \A d \in Conn \ {c} : state[d] \notin GuardStates
BY NoneAssumption DEF LockInv, Others, GuardStates

\* The owner drops its guard, whoever gets the mutex next.
LEMMA LockGiven ==
    ASSUME LockInv, NEW c \in Conn, Others(c), owner = c, state'[c] \notin GuardStates
    PROVE  LockInv'
BY DEF LockInv, Others, GuardStates

(***************************************************************************)
(* The wire, seen by a step that sends nothing: c keeps its place in its   *)
(* frame, starts one, or has ended one.                                    *)
(***************************************************************************)

\* c stays where it was in its frame, so the peer is still where c says.
LEMMA RxKept ==
    ASSUME RxInv, NEW c \in Conn, Others(c), UNCHANGED <<rx, broken>>,
           state[c] \in GuardStates <=> state'[c] \in GuardStates,
           ~broken /\ state[c] \in GuardStates /\ RxAt(c) => RxAt(c)'
    PROVE  RxInv'
<1>1. \A d \in Conn \ {c} : RxAt(d) => RxAt(d)'
  BY Zenon DEF Others, RxAt, FrameSize
<1>2. \A d \in Conn : state'[d] \in GuardStates <=> state[d] \in GuardStates
  BY Zenon DEF Others
<1> QED
  BY <1>1, <1>2, Zenon DEF RxInv, AtBoundary

\* c takes the guard with nothing written: the peer is between two frames.
LEMMA RxTaken ==
    ASSUME RxInv, NEW c \in Conn, Others(c), UNCHANGED <<rx, broken>>,
           \A d \in Conn : state[d] \notin GuardStates,
           state'[c] \in GuardStates, written'[c] = 0
    PROVE  RxInv'
BY AddrSizeAssumption DEF RxInv, AtBoundary, RxAt

\* c drops the guard at a frame boundary and leaves the peer at one.
LEMMA RxGiven ==
    ASSUME RxInv, LockInv, NEW c \in Conn, Others(c), UNCHANGED <<rx, broken>>,
           state[c] \in GuardStates, state'[c] \notin GuardStates,
           ~broken /\ RxAt(c) => AtBoundary
    PROVE  RxInv'
<1>1. \A d \in Conn \ {c} : state[d] \notin GuardStates
  BY Zenon DEF LockInv
<1> QED
  BY <1>1, Zenon DEF RxInv, AtBoundary, Others

-----------------------------------------------------------------------------
(***************************************************************************)
(* The helpers the actions are made of.                                    *)
(***************************************************************************)

\* Become sets the state and the bytes written of c alone.
LEMMA BecomeFacts ==
    ASSUME ConnType, NEW c \in Conn, NEW s \in States, NEW w \in Nat, Become(c, s, w)
    PROVE  /\ state' \in [Conn -> States] /\ written' \in [Conn -> Nat]
           /\ state'[c] = s /\ written'[c] = w
           /\ \A d \in Conn \ {c} : state'[d] = state[d] /\ written'[d] = written[d]
<1>1. state' \in [Conn -> States] /\ state'[c] = s
      /\ \A d \in Conn \ {c} : state'[d] = state[d]
  BY DEF ConnType, Become
<1>2. written' \in [Conn -> Nat] /\ written'[c] = w
      /\ \A d \in Conn \ {c} : written'[d] = written[d]
  BY Zenon DEF ConnType, Become
<1> QED
  BY <1>1, <1>2, Zenon

\* clear empties the packet of c alone.
LEMMA ClearFacts ==
    ASSUME ConnType, NEW c \in Conn, Clear(c)
    PROVE  /\ buffer' \in [Conn -> Seq(Nat)]
           /\ buffer'[c] = << >>
           /\ \A d \in Conn \ {c} : buffer'[d] = buffer[d]
BY DEF ConnType, Clear

\* Returning from a poll leaves c idle.
LEMMA ReturnFacts ==
    ASSUME CallType, NEW c \in Conn, Return(c)
    PROVE  /\ CallType'
           /\ pc'[c] = "idle"
           /\ \A d \in Conn \ {c} : pc'[d] = pc[d]
<1>1. pc' \in [Conn -> Calls] /\ pc'[c] = "idle" /\ \A d \in Conn \ {c} : pc'[d] = pc[d]
  BY DEF CallType, Return, Calls
<1>2. left' \in [Conn -> Nat]
  BY DEF CallType, Return
<1>3. wrote' \in [Conn -> Nat]
  BY DEF CallType, Return
<1> QED
  BY <1>1, <1>2, <1>3 DEF CallType

\* A poll of c moves on to p; the other calls stay where they are.
LEMMA GotoFacts ==
    ASSUME CallType, NEW c \in Conn, NEW p \in Calls, Goto(c, p)
    PROVE  /\ CallType'
           /\ pc'[c] = p
           /\ \A d \in Conn \ {c} : pc'[d] = pc[d]
<1>1. pc' \in [Conn -> Calls] /\ pc'[c] = p /\ \A d \in Conn \ {c} : pc'[d] = pc[d]
  BY Zenon DEF CallType, Goto
<1>2. left' \in [Conn -> Nat] /\ wrote' \in [Conn -> Nat]
  BY Zenon DEF CallType, Goto
<1> QED
  BY <1>1, <1>2 DEF CallType

\* Dropping the guard hands it to a waiter or to nobody.
LEMMA UnlockType ==
    ASSUME LockType, Unlock
    PROVE  LockType'
BY DEF LockType, Unlock

\* A ready poll_lock makes c the owner and leaves the queue alone.
LEMMA LockReadyType ==
    ASSUME LockType, NEW c \in Conn, LockReady(c)
    PROVE  LockType'
BY Zenon DEF LockType, LockReady

\* A pending poll_lock queues c at most.
LEMMA LockPendingType ==
    ASSUME LockType, NEW c \in Conn, LockPending(c)
    PROVE  LockType'
BY DEF LockType, LockPending

\* Dropping a lock future takes c out of the queue, or passes its grant on.
LEMMA LockDropType ==
    ASSUME LockType, NEW c \in Conn, LockDrop(c)
    PROVE  LockType'
<1>1. CASE owner = c /\ Unlock
  BY <1>1, UnlockType
<1>2. CASE /\ owner # c
           /\ queue' = IF Queued(c) THEN QueueWithout(c) ELSE queue
           /\ UNCHANGED owner
  <2>1. ASSUME Queued(c) PROVE QueueWithout(c) \in Seq(Conn)
    <3> DEFINE i == CHOOSE j \in DOMAIN queue : queue[j] = c
    <3>1. i \in 1 .. Len(queue)
      BY <2>1 DEF Queued, LockType
    <3> HIDE DEF i
    <3>2. \A j \in 1 .. Len(queue) : queue[j] \in Conn
      BY DEF LockType
    <3>3. Len(queue) \in Nat
      BY DEF LockType
    <3>4. SubSeq(queue, 1, i - 1) \in Seq(Conn)
      <4>1. \A j \in 1 .. (i - 1) : queue[j] \in Conn
        BY <3>1, <3>2, <3>3
      <4> QED
        BY <3>1, <4>1, SubSeqProperties
    <3>5. SubSeq(queue, i + 1, Len(queue)) \in Seq(Conn)
      <4>1. \A j \in (i + 1) .. Len(queue) : queue[j] \in Conn
        BY <3>1, <3>2, <3>3
      <4> QED
        BY <3>1, <3>3, <4>1, SubSeqProperties
    <3> QED
      BY <3>4, <3>5 DEF QueueWithout, i
  <2> QED
    BY <1>2, <2>1 DEF LockType
<1> QED
  BY <1>1, <1>2 DEF LockDrop

\* A step that changes nothing but the call in progress on c, and queues it
\* for the mutex at most.
LEMMA CallOnly ==
    ASSUME IInv, NEW c \in Conn,
           UNCHANGED <<rxVars, connVars, broken>>, owner' = owner,
           LockType', CallType', HistType',
           \A d \in Conn \ {c} : pc'[d] = pc[d], InCall(c)',
           state[c] = "Flushing" /\ buffer[c] = << >> => pc'[c] = "flush"
    PROVE  IInv'
<1>1. UNCHANGED <<rx, delivered, ctrl, state, written, buffer, broken>>
  BY Zenon DEF rxVars, connVars
<1>2. TypeOK'
  <2>1. RxType'
    BY <1>1, Zenon DEF IInv, TypeOK, RxType
  <2>2. ConnType'
    BY <1>1, Zenon DEF IInv, TypeOK, ConnType
  <2> QED
    BY <1>1, <2>1, <2>2, Zenon DEF IInv, TypeOK
<1>3. Others(c)
  BY <1>1, Zenon DEF Others
<1>4. LockInv'
  BY <1>1, <1>3, LockKept, Zenon DEF IInv
<1>5. InPacket(c)'
  BY <1>1, Zenon DEF IInv, CallInv, InPacket, FrameSize
<1>6. CallInv'
  BY <1>3, <1>5, CallInvLocal, Zenon DEF IInv
<1>7. RxAt(c) => RxAt(c)'
  BY <1>1, Zenon DEF RxAt, FrameSize
<1>8. RxInv'
  BY <1>1, <1>3, <1>7, RxKept, Zenon DEF IInv
<1> QED
  BY <1>2, <1>4, <1>6, <1>8, Zenon DEF IInv

\* A poll call that returns without touching packet, socket or guard.
LEMMA ReturnOnly ==
    ASSUME IInv, NEW c \in Conn,
           UNCHANGED <<rxVars, connVars, broken>>, owner' = owner,
           LockType', HistType', Return(c),
           ~(state[c] = "Flushing" /\ buffer[c] = << >>)
    PROVE  IInv'
<1>1. CallType' /\ pc'[c] = "idle" /\ \A d \in Conn \ {c} : pc'[d] = pc[d]
  BY ReturnFacts, Zenon DEF IInv, TypeOK
<1>2. InCall(c)'
  BY <1>1, Zenon DEF InCall
<1> QED
  BY <1>1, <1>2, CallOnly, Zenon

\* An empty packet is being flushed by poll_flush only.
LEMMA FlushingHasData ==
    ASSUME IInv, NEW c \in Conn, pc[c] # "flush"
    PROVE  ~(state[c] = "Flushing" /\ buffer[c] = << >>)
BY Zenon DEF IInv, CallInv, InPacket

\* is_empty compares the length with zero, which only the empty packet has.
LEMMA EmptyIsEmpty ==
    ASSUME ConnType, NEW c \in Conn
    PROVE  is_empty(buffer[c]) <=> buffer[c] = << >>
BY DEF ConnType, is_empty

\* The count of bytes accepted by poll_write stays a count.
LEMMA AcceptedType ==
    ASSUME IInv, NEW c \in Conn, accepted' = [accepted EXCEPT ![c] = @ + wrote[c]],
           UNCHANGED pushed
    PROVE  HistType'
<1>1. wrote[c] \in Nat
  BY DEF IInv, TypeOK, CallType
<1>2. accepted \in [Conn -> Nat] /\ pushed \in [Conn -> Seq(Nat)]
  BY Zenon DEF IInv, TypeOK, HistType
<1>3. accepted' \in [Conn -> Nat]
  BY <1>1, <1>2
<1> QED
  BY <1>2, <1>3, Zenon DEF HistType

\* A step that leaves the mutex alone keeps its type and owner.
LEMMA SameLockType ==
    ASSUME IInv, UNCHANGED lockVars
    PROVE  LockType' /\ owner' = owner
BY Zenon DEF IInv, TypeOK, LockType, lockVars

\* A step that leaves the histories alone keeps their type.
LEMMA SameHistType ==
    ASSUME IInv, UNCHANGED histVars
    PROVE  HistType'
BY Zenon DEF IInv, TypeOK, HistType, histVars

\* Waiting for the mutex leaves its owner alone.
LEMMA PendingLock ==
    ASSUME IInv, NEW c \in Conn, LockPending(c)
    PROVE  LockType' /\ owner' = owner
<1>1. LockType'
  BY LockPendingType DEF IInv, TypeOK
<1> QED
  BY <1>1 DEF LockPending

\* The caller starts poll_write.
LEMMA WriteCallStep ==
    ASSUME IInv, NEW c \in Conn, NEW n \in 1 .. MaxChunk, WriteCall(c, n)
    PROVE  IInv'
<1>1. UNCHANGED <<rxVars, connVars, broken>> /\ LockType' /\ owner' = owner /\ HistType'
  BY SameLockType, SameHistType, Zenon DEF WriteCall
<1>2. pc' \in [Conn -> Calls] /\ pc'[c] = "write" /\ \A d \in Conn \ {c} : pc'[d] = pc[d]
  BY Zenon DEF WriteCall, IInv, TypeOK, CallType, Calls
<1>3. left' \in [Conn -> Nat] /\ wrote' \in [Conn -> Nat]
  BY BoundsAssumption DEF WriteCall, IInv, TypeOK, CallType
<1>4. CallType'
  BY <1>2, <1>3, Zenon DEF CallType
<1>5. InCall(c)'
  BY <1>2, Zenon DEF InCall, WriteCall, connVars
<1>6. ~(state[c] = "Flushing" /\ buffer[c] = << >>)
  BY FlushingHasData, Zenon DEF WriteCall
<1> QED
  BY <1>1, <1>2, <1>4, <1>5, <1>6, CallOnly, Zenon

\* The caller starts poll_flush.
LEMMA FlushCallStep ==
    ASSUME IInv, NEW c \in Conn, FlushCall(c)
    PROVE  IInv'
<1>1. UNCHANGED <<rxVars, connVars, broken>> /\ LockType' /\ owner' = owner /\ HistType'
  BY SameLockType, SameHistType, Zenon DEF FlushCall
<1>2. CallType' /\ pc'[c] = "flush" /\ \A d \in Conn \ {c} : pc'[d] = pc[d]
  BY GotoFacts, Zenon DEF FlushCall, IInv, TypeOK, Calls
<1>3. InCall(c)'
  BY <1>2, Zenon DEF InCall, FlushCall, connVars
<1> QED
  BY <1>1, <1>2, <1>3, CallOnly, Zenon

\* poll_write returns once it has taken what it can.
LEMMA WriteReturnStep ==
    ASSUME IInv, NEW c \in Conn, WriteReturn(c)
    PROVE  IInv'
<1>1. LockType' /\ owner' = owner /\ HistType'
  BY SameLockType, AcceptedType, Zenon DEF WriteReturn
<1>2. ~(state[c] = "Flushing" /\ buffer[c] = << >>)
  BY FlushingHasData, Zenon DEF WriteReturn
<1> QED
  BY <1>1, <1>2, ReturnOnly, Zenon DEF WriteReturn

\* The socket is not ready and the poll returns, keeping the guard.
LEMMA SendPendingStep ==
    ASSUME IInv, NEW c \in Conn, SendPending(c)
    PROVE  IInv'
<1>1. LockType' /\ owner' = owner /\ HistType'
  BY SameLockType, AcceptedType, Zenon DEF SendPending
<1>2. ~(state[c] = "Flushing" /\ buffer[c] = << >>)
  BY FlushingHasData, EmptyIsEmpty, Zenon DEF SendPending, Sending, IInv, TypeOK
<1> QED
  BY <1>1, <1>2, ReturnOnly, Zenon DEF SendPending

\* Pending on the mutex: poll_write, poll_flush and poll_shutdown alike.
LEMMA LockPendingStep ==
    ASSUME IInv, NEW c \in Conn,
           WriteLockPending(c) \/ FlushLockPending(c) \/ ShutdownLockPending(c)
    PROVE  IInv'
<1>1. /\ LockPending(c) /\ Return(c) /\ UNCHANGED <<rxVars, connVars, broken, histVars>>
      /\ state[c] # "Flushing"
  BY Zenon DEF WriteLockPending, FlushLockPending, ShutdownLockPending
<1>2. LockType' /\ owner' = owner /\ HistType'
  BY <1>1, PendingLock, SameHistType, Zenon
<1> QED
  BY <1>1, <1>2, ReturnOnly, Zenon

-----------------------------------------------------------------------------
(***************************************************************************)
(* Frames: their sizes, and where the peer is between two of them.         *)
(***************************************************************************)

\* The sizes the inductive invariant gives the frame of c.
LEMMA FrameBounds ==
    ASSUME IInv, NEW c \in Conn
    PROVE  /\ AddrSize \in Nat /\ AddrSize > 0
           /\ Len(buffer[c]) \in Nat /\ written[c] \in Nat
           /\ HeaderSize = AddrSize + 2
           /\ FrameSize(buffer[c]) = AddrSize + 2 + Len(buffer[c])
           /\ Len(buffer[c]) <= PACKET_SIZE
           /\ written[c] <= FrameSize(buffer[c])
BY AddrSizeAssumption DEF IInv, TypeOK, ConnType, CallInv, InPacket, FrameSize, HeaderSize

\* Lengths and offsets within a frame with an address of a bytes and a payload
\* of n, as facts about numbers.
LEMMA FrameArith ==
    ASSUME NEW a \in Nat, NEW n \in Nat
    PROVE  a + 2 + n \in Nat /\ (a + 2 + n) - (a + 2) = n
OBVIOUS

\* The payload byte at offset k of such a frame is one of the n.
LEMMA PayloadIndex ==
    ASSUME NEW a \in Nat, NEW n \in Nat, NEW k \in Nat, k >= a + 2, k < a + 2 + n
    PROVE  k + 1 - (a + 2) \in 1 .. n
OBVIOUS

\* The next byte is one of the address, a digit of the length, or payload.
LEMMA FramePlaces ==
    ASSUME NEW a \in Nat, NEW k \in Nat
    PROVE  k < a \/ k = a \/ k = a + 1 \/ k >= a + 2
OBVIOUS

\* The same without the payload: all that most leaves need.
LEMMA FrameNats ==
    ASSUME IInv, NEW c \in Conn
    PROVE  /\ AddrSize \in Nat /\ AddrSize > 0 /\ HeaderSize = AddrSize + 2
           /\ written[c] \in Nat /\ FrameSize(buffer[c]) \in Nat
<1>1. /\ AddrSize \in Nat /\ AddrSize > 0 /\ HeaderSize = AddrSize + 2
      /\ Len(buffer[c]) \in Nat /\ written[c] \in Nat
      /\ FrameSize(buffer[c]) = AddrSize + 2 + Len(buffer[c])
  BY FrameBounds, Zenon
<1>2. AddrSize + 2 + Len(buffer[c]) \in Nat
  BY <1>1, FrameArith, Zenon
<1> QED
  BY <1>1, <1>2, Zenon

\* A frame that is complete, or has not begun, leaves the peer between frames.
LEMMA BetweenFrames ==
    ASSUME IInv, NEW c \in Conn, RxAt(c), Sent(c) \/ written[c] = 0
    PROVE  AtBoundary
BY FrameBounds DEF RxAt, Sent, AtBoundary

-----------------------------------------------------------------------------
(***************************************************************************)
(* Steps that touch little, and steps after which c has the guard iff it   *)
(* had it before.                                                          *)
(***************************************************************************)

\* A step that touches neither wire nor histories keeps their types.
LEMMA Untouched ==
    ASSUME IInv, UNCHANGED <<rxVars, broken, histVars>>
    PROVE  RxType' /\ broken' \in BOOLEAN /\ HistType' /\ UNCHANGED <<rx, broken>>
<1>1. UNCHANGED <<rx, delivered, ctrl, broken>>
  BY DEF rxVars
<1>2. RxType'
  BY <1>1, Zenon DEF IInv, TypeOK, RxType
<1> QED
  BY <1>1, <1>2, SameHistType, Zenon DEF IInv, TypeOK

\* In the handshake and in the drop task no poll call is in progress.
LEMMA TaskIsIdle ==
    ASSUME IInv, NEW c \in Conn, state[c] \in TaskStates \cup {"New"}
    PROVE  pc[c] = "idle"
BY Zenon DEF IInv, TypeOK, CallType, Calls, CallInv, InCall, TaskStates, WritingStates

\* A step of a task leaves every call where it is.
LEMMA SameCall ==
    ASSUME IInv, NEW c \in Conn, UNCHANGED callVars
    PROVE  /\ CallType' /\ \A d \in Conn : pc'[d] = pc[d]
           /\ pc[c] = "idle" => InCall(c)'
BY Zenon DEF IInv, TypeOK, CallType, callVars, InCall

\* Any step after which c has the guard exactly if it had it before.
LEMMA KeepStep ==
    ASSUME IInv, NEW c \in Conn, LockType', owner' = owner,
           ConnType', CallType', HistType', UNCHANGED <<rxVars, broken>>, Others(c),
           state[c] \in GuardStates <=> state'[c] \in GuardStates,
           InCall(c)', InPacket(c)',
           state[c] \in GuardStates /\ RxAt(c) => RxAt(c)'
    PROVE  IInv'
<1>1. UNCHANGED <<rx, delivered, ctrl, broken>>
  BY Zenon DEF rxVars
<1>2. RxType'
  BY <1>1, Zenon DEF IInv, TypeOK, RxType
<1>3. TypeOK'
  BY <1>1, <1>2, Zenon DEF IInv, TypeOK
<1>4. LockInv'
  BY LockKept, Zenon DEF IInv
<1>5. CallInv'
  BY CallInvLocal, Zenon DEF IInv
<1>6. RxInv'
  BY <1>1, RxKept, Zenon DEF IInv
<1> QED
  BY <1>3, <1>4, <1>5, <1>6, Zenon DEF IInv

-----------------------------------------------------------------------------
(***************************************************************************)
(* Steps that take the guard.                                              *)
(***************************************************************************)

\* Any step that takes the guard to send the packet of c from its first byte.
LEMMA TakeStep ==
    ASSUME IInv, NEW c \in Conn, NEW s \in GuardStates \ {"ShutWriting", "DropRest"},
           state[c] \notin GuardStates, LockReady(c), Become(c, s, 0),
           UNCHANGED <<rxVars, buffer, broken, histVars>>,
           CallType', \A d \in Conn \ {c} : pc'[d] = pc[d], InCall(c)',
           s \in {"HandshakeWrite", "DropEof"} => buffer[c] = << >>,
           s = "Flushing" /\ buffer[c] = << >> => pc'[c] = "flush"
    PROVE  IInv'
<1>0. s \in States
  BY DEF States, GuardStates, WritingStates, ShutdownStates, TaskStates
<1>1. /\ state' \in [Conn -> States] /\ written' \in [Conn -> Nat]
      /\ state'[c] = s /\ written'[c] = 0
      /\ \A d \in Conn \ {c} : state'[d] = state[d] /\ written'[d] = written[d]
  BY <1>0, BecomeFacts, Zenon DEF IInv, TypeOK
<1>2. Others(c)
  BY <1>1, Zenon DEF Others
<1>3. RxType' /\ broken' \in BOOLEAN /\ HistType' /\ UNCHANGED <<rx, broken>>
  BY Untouched
<1>4. LockType'
  BY LockReadyType, Zenon DEF IInv, TypeOK
<1>5. ConnType'
  BY <1>1, Zenon DEF ConnType, IInv, TypeOK
<1>6. TypeOK'
  BY <1>3, <1>4, <1>5, Zenon DEF TypeOK
<1>7. LockInv' /\ \A d \in Conn \ {c} : state[d] \notin GuardStates
  BY <1>2, LockTaken, Zenon DEF IInv, LockReady
<1>8. RxInv'
  BY <1>1, <1>2, <1>3, <1>7, RxTaken, Zenon DEF IInv
<1>9. InPacket(c)'
  <2>1. Len(buffer[c]) <= PACKET_SIZE /\ 0 <= FrameSize(buffer[c])
    BY AddrSizeAssumption, Zenon DEF IInv, TypeOK, ConnType, CallInv, InPacket, FrameSize, HeaderSize
  <2> QED
    BY <1>1, <2>1, Zenon DEF InPacket, GuardStates, FrameSize
<1> QED
  BY <1>2, <1>6, <1>7, <1>8, <1>9, CallInvLocal, Zenon DEF IInv

\* poll_write gets the mutex for a packet that is full.
LEMMA WriteLockStep ==
    ASSUME IInv, NEW c \in Conn, WriteLock(c)
    PROVE  IInv'
<1>1. CallType' /\ pc'[c] = "writeFlush" /\ \A d \in Conn \ {c} : pc'[d] = pc[d]
  BY GotoFacts, Zenon DEF WriteLock, IInv, TypeOK, Calls
<1>2. state'[c] = "Flushing"
  BY Zenon DEF WriteLock, Become, IInv, TypeOK, ConnType
<1>3. InCall(c)'
  BY <1>1, <1>2 DEF InCall
<1>4. buffer[c] # << >>
  BY RadixAssumption DEF WriteLock, is_full, PACKET_SIZE
<1> QED
  BY <1>1, <1>3, <1>4, TakeStep, Zenon DEF WriteLock, GuardStates

\* poll_flush gets the mutex.
LEMMA FlushLockStep ==
    ASSUME IInv, NEW c \in Conn, FlushLock(c)
    PROVE  IInv'
<1>1. CallType' /\ UNCHANGED pc
  BY Zenon DEF FlushLock, IInv, TypeOK, CallType, callVars
<1>2. state'[c] = "Flushing"
  BY Zenon DEF FlushLock, Become, IInv, TypeOK, ConnType
<1>3. InCall(c)'
  BY <1>1, <1>2, Zenon DEF InCall, FlushLock, WritingStates
<1> QED
  BY <1>1, <1>3, TakeStep, Zenon DEF FlushLock, GuardStates

\* poll_shutdown gets the mutex and flushes what is buffered.
LEMMA ShutdownLockStep ==
    ASSUME IInv, NEW c \in Conn, ShutdownLock(c)
    PROVE  IInv'
<1>1. CallType' /\ UNCHANGED pc
  BY Zenon DEF ShutdownLock, IInv, TypeOK, CallType, callVars
<1>2. state'[c] = "ShutFlushing"
  BY Zenon DEF ShutdownLock, Become, IInv, TypeOK, ConnType
<1>3. InCall(c)'
  BY <1>1, <1>2, Zenon DEF InCall, ShutdownLock
<1> QED
  BY <1>1, <1>3, TakeStep, Zenon DEF ShutdownLock, GuardStates

-----------------------------------------------------------------------------
(***************************************************************************)
(* Steps that drop the guard: the frame is complete, or has not begun, or  *)
(* the stream has failed.                                                  *)
(***************************************************************************)

\* Any step that drops the guard of c after its frame, or after a failure.
LEMMA GiveStep ==
    ASSUME IInv, NEW c \in Conn, NEW s \in States \ GuardStates,
           state[c] \in GuardStates, Unlock, Become(c, s, 0),
           Clear(c) \/ (UNCHANGED buffer /\ (s \notin {"Buffering", "Error"} => buffer[c] = << >>)),
           UNCHANGED <<rxVars, broken, histVars>>,
           CallType', \A d \in Conn \ {c} : pc'[d] = pc[d], InCall(c)',
           broken \/ Sent(c) \/ written[c] = 0
    PROVE  IInv'
<1>1. /\ state' \in [Conn -> States] /\ written' \in [Conn -> Nat]
      /\ state'[c] = s /\ written'[c] = 0
      /\ \A d \in Conn \ {c} : state'[d] = state[d] /\ written'[d] = written[d]
  BY BecomeFacts, Zenon DEF IInv, TypeOK
<1>2. /\ buffer' \in [Conn -> Seq(Nat)]
      /\ \A d \in Conn \ {c} : buffer'[d] = buffer[d]
      /\ buffer'[c] = << >> \/ (buffer'[c] = buffer[c] /\ s \in {"Buffering", "Error"})
  BY ClearFacts, Zenon DEF IInv, TypeOK, ConnType
<1>3. Others(c)
  BY <1>1, <1>2, Zenon DEF Others
<1>4. RxType' /\ broken' \in BOOLEAN /\ HistType' /\ UNCHANGED <<rx, broken>>
  BY Untouched, Zenon
<1>5. TypeOK'
  BY <1>1, <1>2, <1>4, UnlockType, Zenon DEF IInv, TypeOK, ConnType
<1>6. LockInv'
  BY <1>1, <1>3, LockGiven, Zenon DEF IInv, LockInv
<1>7. RxInv'
  BY <1>1, <1>3, <1>4, BetweenFrames, RxGiven, Zenon DEF IInv
<1>8. InPacket(c)'
  <2>1. Len(buffer'[c]) <= PACKET_SIZE /\ 0 <= FrameSize(buffer'[c])
    <3>1. PACKET_SIZE \in Nat
      BY RadixAssumption, SMT DEF PACKET_SIZE
    <3> QED
      BY <1>2, <3>1, FrameBounds, SMTT(20) DEF FrameSize
  <2> QED
    BY <1>1, <1>2, <2>1, Zenon DEF InPacket, GuardStates
<1> QED
  BY <1>3, <1>5, <1>6, <1>7, <1>8, CallInvLocal, Zenon DEF IInv

\* poll_write clears the packet it has sent and drops the guard.
LEMMA WriteFlushedStep ==
    ASSUME IInv, NEW c \in Conn, WriteFlushed(c)
    PROVE  IInv'
<1>1. CallType' /\ pc'[c] = "write" /\ \A d \in Conn \ {c} : pc'[d] = pc[d]
  BY GotoFacts, Zenon DEF WriteFlushed, IInv, TypeOK, Calls
<1>2. state[c] = "Flushing" /\ state'[c] = "Buffering"
  BY Zenon DEF WriteFlushed, Become, IInv, TypeOK, ConnType, CallInv, InCall
<1>3. InCall(c)'
  BY <1>1, <1>2, Zenon DEF InCall, WritingStates
<1>4. "Buffering" \in States \ GuardStates /\ state[c] \in GuardStates
  BY <1>2, Zenon DEF States, WritingStates, GuardStates
<1> QED
  BY <1>1, <1>3, <1>4, GiveStep, Zenon DEF WriteFlushed

\* poll_flush clears the packet it has sent and drops the guard.
LEMMA FlushReturnStep ==
    ASSUME IInv, NEW c \in Conn, FlushReturn(c)
    PROVE  IInv'
<1>1. CallType' /\ pc'[c] = "idle" /\ \A d \in Conn \ {c} : pc'[d] = pc[d]
  BY ReturnFacts, Zenon DEF FlushReturn, IInv, TypeOK
<1>2. InCall(c)'
  BY <1>1, Zenon DEF InCall
<1>3. "Buffering" \in States \ GuardStates /\ state[c] \in GuardStates
  BY Zenon DEF FlushReturn, States, WritingStates, GuardStates
<1>4. Sent(c) \/ written[c] = 0
  BY EmptyIsEmpty, Zenon DEF FlushReturn, IInv, TypeOK, CallInv, InPacket
<1> QED
  BY <1>1, <1>2, <1>3, <1>4, GiveStep, Zenon DEF FlushReturn

\* poll_shutdown ends after the empty packet.
LEMMA ShutdownReturnStep ==
    ASSUME IInv, NEW c \in Conn, ShutdownReturn(c)
    PROVE  IInv'
<1>1. CallType' /\ pc'[c] = "idle" /\ \A d \in Conn \ {c} : pc'[d] = pc[d]
  BY ReturnFacts, Zenon DEF ShutdownReturn, IInv, TypeOK
<1>2. InCall(c)'
  BY <1>1 DEF InCall
<1>3. "Done" \in States \ GuardStates /\ state[c] \in GuardStates
  BY Zenon DEF ShutdownReturn, States, ShutdownStates, GuardStates
<1>4. buffer[c] = << >>
  BY Zenon DEF ShutdownReturn, IInv, CallInv, InPacket
<1> QED
  BY <1>1, <1>2, <1>3, <1>4, GiveStep, Zenon DEF ShutdownReturn

\* The handshake of add_connection is on the wire.
LEMMA HandshakeReturnStep ==
    ASSUME IInv, NEW c \in Conn, HandshakeReturn(c)
    PROVE  IInv'
<1>1. CallType' /\ \A d \in Conn : pc'[d] = pc[d] /\ InCall(c)'
  BY TaskIsIdle, SameCall, Zenon DEF HandshakeReturn, TaskStates
<1>2. "Buffering" \in States \ GuardStates /\ state[c] \in GuardStates
  BY Zenon DEF HandshakeReturn, States, WritingStates, GuardStates
<1> QED
  BY <1>1, <1>2, GiveStep, Zenon DEF HandshakeReturn

\* The task spawned by drop ends and drops its guard.
LEMMA DropEndStep ==
    ASSUME IInv, NEW c \in Conn, DropEnd(c)
    PROVE  IInv'
<1>1. state[c] \in {"DropRest", "DropEof"} /\ (Sent(c) \/ broken)
  BY Zenon DEF DropEnd
<1>2. CallType' /\ \A d \in Conn : pc'[d] = pc[d] /\ InCall(c)'
  BY <1>1, TaskIsIdle, SameCall, Zenon DEF DropEnd, TaskStates
<1>3. "Dropped" \in States \ GuardStates /\ state[c] \in GuardStates
  BY <1>1, Zenon DEF States, GuardStates
<1> QED
  BY <1>1, <1>2, <1>3, GiveStep, Zenon DEF DropEnd

\* The socket fails while c sends: the guard is dropped.
LEMMA SendErrorStep ==
    ASSUME IInv, NEW c \in Conn, SendError(c)
    PROVE  IInv'
<1>1. CallType' /\ pc'[c] = "idle" /\ \A d \in Conn \ {c} : pc'[d] = pc[d]
  BY ReturnFacts, Zenon DEF SendError, IInv, TypeOK
<1>2. InCall(c)'
  BY <1>1 DEF InCall
<1>3. state[c] \in GuardStates
  BY Zenon DEF SendError, Sending, GuardStates, IInv, CallInv, InCall
<1>4. PICK s \in {"Error", "Buffering"} : Become(c, s, 0)
  BY Zenon DEF SendError
<1>5. s \in States \ GuardStates
  BY Zenon DEF States, WritingStates, ShutdownStates, GuardStates
<1> QED
  BY <1>1, <1>2, <1>3, <1>4, <1>5, GiveStep, Zenon DEF SendError

-----------------------------------------------------------------------------
(***************************************************************************)
(* Creation, shutdown and drop: the guard stays where it is, or its holder *)
(* goes on to its next frame.                                              *)
(***************************************************************************)

\* The same for the steps of a connection without the guard that change its
\* state only, with the packet kept or cleared.
LEMMA IdleStep ==
    ASSUME IInv, NEW c \in Conn, NEW s \in States \ GuardStates,
           state[c] \notin GuardStates, Become(c, s, 0),
           \/ Clear(c)
           \/ /\ UNCHANGED buffer
              /\ s \in {"Buffering", "WaitingLock", "Error"} \/ buffer[c] = << >>,
           LockType', owner' = owner, UNCHANGED <<rxVars, broken, histVars>>,
           CallType', \A d \in Conn \ {c} : pc'[d] = pc[d], InCall(c)'
    PROVE  IInv'
<1>1. /\ state' \in [Conn -> States] /\ written' \in [Conn -> Nat]
      /\ state'[c] = s /\ written'[c] = 0
      /\ \A d \in Conn \ {c} : state'[d] = state[d] /\ written'[d] = written[d]
  BY BecomeFacts, Zenon DEF IInv, TypeOK
<1>2. /\ buffer' \in [Conn -> Seq(Nat)]
      /\ \A d \in Conn \ {c} : buffer'[d] = buffer[d]
      /\ \/ buffer'[c] = << >>
         \/ buffer'[c] = buffer[c] /\ s \in {"Buffering", "WaitingLock", "Error"}
  BY ClearFacts, Zenon DEF IInv, TypeOK, ConnType
<1>3. Others(c) /\ ConnType' /\ HistType'
  BY <1>1, <1>2, SameHistType, Zenon DEF Others, ConnType
<1>4. InPacket(c)'
  <2>1. Len(buffer'[c]) <= PACKET_SIZE /\ 0 <= FrameSize(buffer'[c])
    <3>1. PACKET_SIZE \in Nat
      BY RadixAssumption, SMT DEF PACKET_SIZE
    <3> QED
      BY <1>2, <3>1, FrameBounds, SMTT(20) DEF FrameSize
  <2> QED
    BY <1>1, <1>2, <2>1, Zenon DEF InPacket, GuardStates, FrameSize
<1> QED
  BY <1>1, <1>3, <1>4, KeepStep, Zenon

\* A connection is created, by add_connection or by accept.
LEMMA CreateStep ==
    ASSUME IInv, NEW c \in Conn, AddConnection(c) \/ Accept(c)
    PROVE  IInv'
<1>1. CallType' /\ \A d \in Conn : pc'[d] = pc[d] /\ InCall(c)'
  BY TaskIsIdle, SameCall, Zenon DEF AddConnection, Accept
<1>2. LockType' /\ owner' = owner
  BY SameLockType, Zenon DEF AddConnection, Accept
<1>3. state[c] = "New" /\ buffer[c] = << >>
  BY Zenon DEF AddConnection, Accept, IInv, CallInv, InPacket
<1>4. PICK s \in {"HandshakeLock", "Buffering"} : Become(c, s, 0)
  BY Zenon DEF AddConnection, Accept
<1>5. s \in States \ GuardStates /\ state[c] \notin GuardStates
  BY <1>3, Zenon DEF States, WritingStates, TaskStates, GuardStates
<1>6. UNCHANGED <<rxVars, buffer, broken, histVars>>
  BY Zenon DEF AddConnection, Accept
<1> QED
  BY <1>1, <1>2, <1>3, <1>4, <1>5, <1>6, IdleStep, Zenon

\* Waiting for the lock: the handshake and the drop task.
LEMMA TaskLockStep ==
    ASSUME IInv, NEW c \in Conn, HandshakeLock(c) \/ DropLock(c)
    PROVE  IInv'
<1>1. state[c] \in {"HandshakeLock", "DropLock"} /\ UNCHANGED <<rxVars, buffer, broken, histVars>>
  BY Zenon DEF HandshakeLock, DropLock
<1>2. CallType' /\ \A d \in Conn : pc'[d] = pc[d] /\ InCall(c)'
  BY <1>1, TaskIsIdle, SameCall, Zenon DEF HandshakeLock, DropLock, TaskStates
<1>3. state[c] \notin GuardStates /\ buffer[c] = << >>
  BY <1>1, Zenon DEF GuardStates, IInv, CallInv, InPacket
<1>4. CASE LockReady(c) /\ (Become(c, "HandshakeWrite", 0) \/ Become(c, "DropEof", 0))
  BY <1>1, <1>2, <1>3, <1>4, TakeStep, Zenon DEF GuardStates
<1>5. CASE LockPending(c) /\ UNCHANGED <<state, written>>
  <2>1. LockType' /\ owner' = owner
    BY <1>5, PendingLock, Zenon
  <2>2. HistType' /\ ConnType'
    BY <1>1, <1>5, SameHistType, Zenon DEF IInv, TypeOK, ConnType
  <2>3. Others(c) /\ InPacket(c)'
    BY <1>1, <1>2, <1>5, Zenon DEF Others, IInv, CallInv, InPacket, FrameSize
  <2> QED
    BY <1>1, <1>2, <1>3, <1>5, <2>1, <2>2, <2>3, KeepStep, Zenon
<1> QED
  BY <1>4, <1>5, Zenon DEF HandshakeLock, DropLock

\* The caller starts poll_shutdown.
LEMMA ShutdownCallStep ==
    ASSUME IInv, NEW c \in Conn, ShutdownCall(c)
    PROVE  IInv'
<1>1. /\ UNCHANGED <<rxVars, written, buffer, broken>>
      /\ LockType' /\ owner' = owner /\ HistType'
  BY SameLockType, SameHistType, Zenon DEF ShutdownCall
<1>2. CallType' /\ pc'[c] = "shutdown" /\ \A d \in Conn \ {c} : pc'[d] = pc[d]
  BY GotoFacts, Zenon DEF ShutdownCall, IInv, TypeOK, Calls
<1>3. /\ state' \in [Conn -> States]
      /\ \A d \in Conn \ {c} : state'[d] = state[d]
      /\ \/ state[c] = "Buffering" /\ state'[c] = "WaitingLock"
         \/ state[c] = "Flushing" /\ state'[c] = "ShutFlushing"
         \/ /\ state[c] \in {"WaitingLock", "ShutFlushing", "ShutWriting"}
            /\ state'[c] = state[c]
  BY Zenon DEF ShutdownCall, IInv, TypeOK, ConnType, States, WritingStates, ShutdownStates
<1>4. ConnType' /\ Others(c)
  BY <1>1, <1>2, <1>3, Zenon DEF IInv, TypeOK, ConnType, Others
<1>5. state[c] \in GuardStates <=> state'[c] \in GuardStates
  BY <1>3, Zenon DEF GuardStates
<1>6. InCall(c)'
  BY <1>2, <1>3, Zenon DEF InCall
<1>7. InPacket(c)'
  BY <1>1, <1>3, Zenon DEF IInv, CallInv, InPacket, FrameSize, GuardStates
<1>8. RxAt(c) => RxAt(c)'
  BY <1>1, Zenon DEF RxAt, FrameSize, rxVars
<1> QED
  BY <1>1, <1>2, <1>4, <1>5, <1>6, <1>7, <1>8, KeepStep, Zenon

\* From the end of one frame to the start of the next, under the same guard.
LEMMA NextFrameStep ==
    ASSUME IInv, NEW c \in Conn, NEW s \in {"ShutWriting", "DropEof"},
           state[c] \in GuardStates, Become(c, s, 0), Clear(c),
           UNCHANGED <<lockVars, rxVars, callVars, broken, histVars>>, InCall(c)',
           Sent(c) \/ written[c] = 0
    PROVE  IInv'
<1>0. s \in States /\ s \in GuardStates
  BY Zenon DEF States, ShutdownStates, TaskStates, GuardStates
<1>1. /\ state' \in [Conn -> States] /\ written' \in [Conn -> Nat]
      /\ state'[c] = s /\ written'[c] = 0
      /\ \A d \in Conn \ {c} : state'[d] = state[d] /\ written'[d] = written[d]
  BY <1>0, BecomeFacts, Zenon DEF IInv, TypeOK
<1>2. /\ buffer' \in [Conn -> Seq(Nat)] /\ buffer'[c] = << >>
      /\ \A d \in Conn \ {c} : buffer'[d] = buffer[d]
  BY ClearFacts, Zenon DEF IInv, TypeOK
<1>3. CallType' /\ \A d \in Conn : pc'[d] = pc[d]
  BY SameCall, Zenon
<1>4. LockType' /\ owner' = owner /\ HistType'
  BY SameLockType, SameHistType, Zenon
<1>5. Others(c) /\ ConnType'
  BY <1>1, <1>2, <1>3, Zenon DEF Others, ConnType
<1>6. InPacket(c)'
  <2>1. PACKET_SIZE \in Nat
    BY RadixAssumption, SMT DEF PACKET_SIZE
  <2> QED
    <3>1. HeaderSize \in Nat
      BY AddrSizeAssumption DEF HeaderSize
    <3>2. Len(buffer'[c]) = 0 /\ FrameSize(buffer'[c]) = HeaderSize
      <4>1. Len(buffer'[c]) = 0
        BY <1>2
      <4>2. FrameSize(buffer'[c]) = HeaderSize + 0
        BY <4>1, Zenon DEF FrameSize
      <4>3. HeaderSize + 0 = HeaderSize
        BY <3>1
      <4> QED
        BY <4>1, <4>2, <4>3, Zenon
    <3>3. Len(buffer'[c]) <= PACKET_SIZE /\ written'[c] <= FrameSize(buffer'[c])
      BY <1>1, <2>1, <3>1, <3>2
    <3> QED
      BY <1>0, <1>1, <1>2, <3>3, Zenon DEF InPacket
<1>7. RxAt(c) => RxAt(c)'
  <2>1. SUFFICES ASSUME RxAt(c) PROVE RxAt(c)'
    BY Zenon
  <2>2. rx.filled = 0 /\ rx.left = 0
    BY <2>1, BetweenFrames, Zenon DEF AtBoundary
  <2> QED
    <3>1. written'[c] <= AddrSize /\ ~(written'[c] > 0)
      BY <1>1, AddrSizeAssumption
    <3>2. rx'.left = 0 /\ rx'.filled = written'[c]
      BY <1>1, <2>2, Zenon DEF rxVars
    <3> QED
      BY <3>1, <3>2, Zenon DEF RxAt
<1> QED
  BY <1>0, <1>1, <1>3, <1>4, <1>5, <1>6, <1>7, KeepStep, Zenon

\* poll_shutdown has flushed and begins the empty packet.
LEMMA ShutdownFlushedStep ==
    ASSUME IInv, NEW c \in Conn, ShutdownFlushed(c)
    PROVE  IInv'
<1>1. state[c] \in GuardStates
  BY SMTT(20) DEF ShutdownFlushed, GuardStates
<1>2. InCall(c)'
  BY Zenon DEF ShutdownFlushed, Become, IInv, TypeOK, ConnType, InCall, callVars
<1>3. Sent(c) \/ written[c] = 0
  BY EmptyIsEmpty, Zenon DEF ShutdownFlushed, IInv, TypeOK, CallInv, InPacket
<1> QED
  BY <1>1, <1>2, <1>3, NextFrameStep, SMTT(20) DEF ShutdownFlushed

\* The task spawned by drop has sent the rest and begins the empty packet.
LEMMA DropRestSentStep ==
    ASSUME IInv, NEW c \in Conn, DropRestSent(c)
    PROVE  IInv'
<1>1. state[c] \in GuardStates
  BY Zenon DEF DropRestSent, GuardStates
<1>2. InCall(c)'
  BY TaskIsIdle, SameCall, Zenon DEF DropRestSent, TaskStates
<1> QED
  BY <1>1, <1>2, NextFrameStep, Zenon DEF DropRestSent

\* A writing connection is dropped, whatever it was doing.
LEMMA DropWritingStep ==
    ASSUME IInv, NEW c \in Conn, DropWriting(c)
    PROVE  IInv'
<1>0. /\ pc[c] = "idle"
      /\ UNCHANGED <<lockVars, rxVars, callVars, broken, histVars>>
  BY Zenon DEF DropWriting
<1>1. CallType' /\ \A d \in Conn : pc'[d] = pc[d] /\ InCall(c)'
  BY <1>0, SameCall, Zenon
<1>2. LockType' /\ owner' = owner /\ HistType'
  BY <1>0, SameLockType, SameHistType, Zenon
<1>3. CASE /\ state[c] = "Flushing" /\ written[c] >= 1
           /\ Become(c, "DropRest", written[c]) /\ UNCHANGED buffer
  <2>1. "DropRest" \in States /\ written[c] \in Nat
    BY FrameBounds, Zenon DEF States, TaskStates
  <2>2. /\ state' \in [Conn -> States] /\ written' \in [Conn -> Nat]
        /\ state'[c] = "DropRest" /\ written'[c] = written[c]
        /\ \A d \in Conn \ {c} : state'[d] = state[d] /\ written'[d] = written[d]
    BY <1>3, <2>1, BecomeFacts, Zenon DEF IInv, TypeOK
  <2>3. Others(c) /\ ConnType'
    BY <1>1, <1>3, <2>2, Zenon DEF Others, ConnType, IInv, TypeOK
  <2>4. InPacket(c)'
    <3>1. buffer[c] # << >>
      BY <1>0, <1>3, FlushingHasData, Zenon
    <3> QED
      BY <1>1, <1>3, <2>2, <3>1, FrameBounds, Zenon DEF InPacket, GuardStates, FrameSize
  <2>5. RxAt(c) => RxAt(c)'
    BY <1>0, <1>3, <2>2, Zenon DEF RxAt, FrameSize, rxVars
  <2>6. state[c] \in GuardStates /\ state'[c] \in GuardStates
    BY <1>3, <2>2, Zenon DEF GuardStates
  <2> QED
    BY <1>0, <1>1, <1>2, <2>3, <2>4, <2>5, <2>6, KeepStep, Zenon
<1>4. CASE state[c] = "Flushing" /\ written[c] = 0 /\ Become(c, "DropEof", 0) /\ Clear(c)
  BY <1>0, <1>1, <1>4, NextFrameStep, Zenon DEF GuardStates
<1>5. CASE state[c] = "Buffering" /\ Become(c, "DropLock", 0) /\ Clear(c)
  <2>1. "DropLock" \in States \ GuardStates /\ state[c] \notin GuardStates
    BY <1>5, Zenon DEF States, TaskStates, GuardStates
  <2> QED
    BY <1>0, <1>1, <1>2, <1>5, <2>1, IdleStep, Zenon
<1> QED
  BY <1>3, <1>4, <1>5, Zenon DEF DropWriting

\* Without DropDuringShutdown a shutdown is over when its writer is dropped.
LEMMA DropShutdownStep ==
    ASSUME IInv, NEW c \in Conn, DropShutdown(c), ~DropDuringShutdown
    PROVE  IInv'
<1>0. /\ pc[c] = "idle" /\ state[c] \in {"Done", "Error"} /\ LockDrop(c)
      /\ Become(c, "Dropped", 0) /\ Clear(c)
      /\ UNCHANGED <<rxVars, callVars, broken, histVars>>
  BY Zenon DEF DropShutdown
<1>1. CallType' /\ \A d \in Conn : pc'[d] = pc[d] /\ InCall(c)'
  BY <1>0, SameCall, Zenon
<1>2. "Dropped" \in States \ GuardStates /\ state[c] \notin GuardStates
  BY <1>0, Zenon DEF States, GuardStates
<1>3. CASE owner' = owner
  <2>1. LockType'
    BY <1>0, LockDropType, Zenon DEF IInv, TypeOK
  <2> QED
    BY <1>0, <1>1, <1>2, <1>3, <2>1, IdleStep, Zenon
<1>4. CASE owner' # owner
  <2>1. owner = c /\ Unlock
    BY <1>0, <1>4, Zenon DEF LockDrop
  <2>2. /\ state' \in [Conn -> States] /\ written' \in [Conn -> Nat]
        /\ state'[c] = "Dropped" /\ written'[c] = 0
        /\ \A d \in Conn \ {c} : state'[d] = state[d] /\ written'[d] = written[d]
    BY <1>0, <1>2, BecomeFacts, Zenon DEF IInv, TypeOK
  <2>3. /\ buffer' \in [Conn -> Seq(Nat)] /\ buffer'[c] = << >>
        /\ \A d \in Conn \ {c} : buffer'[d] = buffer[d]
    BY <1>0, ClearFacts, Zenon DEF IInv, TypeOK
  <2>4. Others(c) /\ ConnType'
    BY <1>1, <2>2, <2>3, Zenon DEF Others, ConnType
  <2>5. RxType' /\ broken' \in BOOLEAN /\ HistType' /\ UNCHANGED <<rx, broken>>
    BY <1>0, Untouched, Zenon
  <2>6. TypeOK'
    BY <1>1, <2>1, <2>4, <2>5, UnlockType, Zenon DEF IInv, TypeOK
  <2>7. LockInv'
    BY <1>2, <2>1, <2>2, <2>4, LockGiven, Zenon DEF IInv
  <2>8. InPacket(c)'
    <3>1. PACKET_SIZE \in Nat
      BY RadixAssumption, SMT DEF PACKET_SIZE
    <3> QED
      BY <2>2, <2>3, <3>1, FrameBounds DEF InPacket, GuardStates, FrameSize
  <2>9. RxInv'
    BY <1>2, <2>2, <2>4, <2>5, RxKept, Zenon DEF IInv
  <2> QED
    BY <1>1, <2>4, <2>6, <2>7, <2>8, <2>9, CallInvLocal, Zenon DEF IInv
<1> QED
  BY <1>3, <1>4

\* Without CancelHandshake add_connection gives up only when a write fails.
LEMMA HandshakeAbortStep ==
    ASSUME IInv, NEW c \in Conn, HandshakeAbort(c), ~CancelHandshake
    PROVE  IInv'
<1>1. /\ state[c] \in {"HandshakeLock", "HandshakeWrite"} /\ broken /\ Sending(c)
      /\ LockDrop(c) /\ Become(c, "DropLock", 0)
      /\ UNCHANGED <<rxVars, buffer, callVars, broken, histVars>>
  BY Zenon DEF HandshakeAbort
<1>2. pc[c] = "idle"
  BY <1>1, TaskIsIdle, Zenon DEF TaskStates
<1>3. state[c] = "HandshakeWrite" /\ buffer[c] = << >>
  BY <1>1, <1>2, Zenon DEF Sending, IInv, CallInv, InPacket
<1>4. owner = c /\ Unlock
  BY <1>1, <1>3, Zenon DEF LockDrop, IInv, LockInv, GuardStates
<1>5. CallType' /\ \A d \in Conn : pc'[d] = pc[d] /\ InCall(c)'
  BY <1>1, <1>2, SameCall, Zenon
<1>6. "DropLock" \in States \ GuardStates /\ state[c] \in GuardStates
  BY <1>3, Zenon DEF States, TaskStates, GuardStates
<1> QED
  BY <1>1, <1>3, <1>4, <1>5, <1>6, GiveStep, Zenon

=============================================================================
