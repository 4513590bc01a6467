-------------------------- MODULE WriteInnerStream --------------------------
(***************************************************************************)
(* What arrives at the peer, connection by connection: proofs about the    *)
(* streams of WriteInner, on top of its inductive invariant.               *)
(***************************************************************************)
EXTENDS WriteInnerProofs

\* The states whose packet is on its way, and those before there is one.
FrameStates == {"Flushing", "ShutFlushing", "DropRest"}
EarlyStates == {"New", "HandshakeLock", "HandshakeWrite"}

\* The types of what the stream of c is about.
LEMMA StreamTypes ==
    ASSUME IInv, NEW c \in Conn
    PROVE  /\ buffer[c] \in Seq(Nat) /\ pushed[c] \in Seq(Nat) /\ delivered[c] \in Seq(Nat)
           /\ Len(buffer[c]) \in Nat /\ written[c] \in Nat
           /\ HeaderSize \in Nat /\ HeaderSize > 0
           /\ FrameSize(buffer[c]) = HeaderSize + Len(buffer[c])
<1>1. /\ buffer[c] \in Seq(Nat) /\ pushed[c] \in Seq(Nat) /\ delivered[c] \in Seq(Nat)
      /\ written[c] \in Nat
  BY Zenon DEF IInv, TypeOK, ConnType, HistType, RxType
<1>2. Len(buffer[c]) \in Nat
  BY <1>1
<1>3. HeaderSize \in Nat /\ HeaderSize > 0
  BY AddrSizeAssumption DEF HeaderSize
<1> QED
  BY <1>1, <1>2, <1>3, Zenon DEF FrameSize

\* Streams are put together from left to right or from right to left.
LEMMA ConcatAssoc ==
    ASSUME NEW s \in Seq(Nat), NEW t \in Seq(Nat), NEW u \in Seq(Nat)
    PROVE  (s \o t) \o u = s \o (t \o u)
  BY SMTT(30)

\* A byte moves from the unsent part of a packet to the end of what was delivered.
LEMMA ByteMoves ==
    ASSUME NEW d \in Seq(Nat), NEW b \in Seq(Nat), NEW n \in Nat, n < Len(b)
    PROVE  Append(d, b[n + 1]) \o SubSeq(b, n + 2, Len(b)) = d \o SubSeq(b, n + 1, Len(b))
<1> DEFINE rest == SubSeq(b, n + 2, Len(b))
<1>1. n + 1 \in 1 .. Len(b) /\ Len(b) \in (n + 1) .. Len(b) /\ (n + 1) + 1 = n + 2
  BY LenProperties
<1>2. SubSeq(b, n + 1, Len(b)) = <<b[n + 1]>> \o SubSeq(b, (n + 1) + 1, Len(b))
  BY <1>1, SubSeqRecursiveFirst, Zenon
<1>3. b[n + 1] \in Nat /\ <<b[n + 1]>> \in Seq(Nat)
  BY <1>1
<1>4. \A i \in (n + 2) .. Len(b) : b[i] \in Nat
  OBVIOUS
<1>5. rest \in Seq(Nat)
  BY <1>1, <1>4, SubSeqProperties
<1>6. Append(d, b[n + 1]) = d \o <<b[n + 1]>>
  BY <1>3, AppendIsConcat, Zenon
<1> HIDE DEF rest
<1>7. (d \o <<b[n + 1]>>) \o rest = d \o (<<b[n + 1]>> \o rest)
  BY <1>3, <1>5, ConcatAssoc, Zenon
<1> QED
  BY <1>1, <1>2, <1>6, <1>7, Zenon DEF rest

\* A frame of which no payload has gone out.
LEMMA UnsentAll ==
    ASSUME NEW c, SentPayload(c) = 0, buffer[c] \in Seq(Nat)
    PROVE  Unsent(c) = buffer[c]
<1>1. Unsent(c) = SubSeq(buffer[c], 1, Len(buffer[c]))
  BY DEF Unsent
<1> QED
  BY <1>1, SubSeqFull, Zenon

\* A frame that is complete, or empty.
LEMMA UnsentNone ==
    ASSUME IInv, NEW c \in Conn, state[c] \in FrameStates, is_empty(buffer[c]) \/ Sent(c)
    PROVE  Unsent(c) = << >>
<1>0. /\ buffer[c] \in Seq(Nat) /\ Len(buffer[c]) \in Nat /\ written[c] \in Nat
      /\ HeaderSize \in Nat /\ FrameSize(buffer[c]) = HeaderSize + Len(buffer[c])
  BY StreamTypes, Zenon
<1>1. CASE Len(buffer[c]) = 0
  <2>1. SentPayload(c) + 1 \in Int /\ SentPayload(c) + 1 > 0
    BY <1>0 DEF SentPayload
  <2> QED
    BY <1>0, <1>1, <2>1, SubSeqEmpty DEF Unsent
<1>2. CASE Len(buffer[c]) > 0
  <2>1. written[c] = HeaderSize + Len(buffer[c])
    BY <1>0, <1>2 DEF Sent, is_empty
  <2>2. SentPayload(c) = Len(buffer[c])
    BY <1>0, <1>2, <2>1 DEF SentPayload, FrameStates
  <2>3. Len(buffer[c]) + 1 \in Int /\ Len(buffer[c]) < Len(buffer[c]) + 1
    BY <1>0
  <2> QED
    BY <1>0, <2>2, <2>3, SubSeqEmpty DEF Unsent
<1> QED
  BY <1>0, <1>1, <1>2

\* With the frame everything is delivered.
LEMMA AllDelivered ==
    ASSUME IInv, StreamInv, NEW c \in Conn, ~broken,
           state[c] \in {"Flushing", "ShutFlushing"}, is_empty(buffer[c]) \/ Sent(c)
    PROVE  pushed[c] = delivered[c]
<1>1. pushed[c] = delivered[c] \o Unsent(c)
  BY Zenon DEF StreamInv, InStream, HoldsPacket, WritingStates, ShutdownStates
<1>2. Unsent(c) = << >>
  BY UnsentNone, Zenon DEF FrameStates
<1>3. delivered[c] \o << >> = delivered[c]
  BY StreamTypes, ConcatEmptySeq, Zenon
<1> QED
  BY <1>1, <1>2, <1>3, Zenon

\* A packet that has not begun to go out, whatever state holds it.
LEMMA BufferedStream ==
    ASSUME IInv, StreamInv, NEW c \in Conn, ~broken, written[c] = 0, HoldsPacket(c)
    PROVE  pushed[c] = delivered[c] \o buffer[c]
<1>1. SentPayload(c) = 0
  BY StreamTypes DEF SentPayload
<1>2. Unsent(c) = buffer[c]
  BY <1>1, StreamTypes, UnsentAll, Zenon
<1> QED
  BY <1>2, Zenon DEF StreamInv, InStream

\* A step of c disturbs the stream of c only.
LEMMA StreamLocal ==
    ASSUME StreamInv, NEW c \in Conn, UNCHANGED broken,
           \A d \in Conn \ {c} : /\ state'[d] = state[d] /\ written'[d] = written[d]
                                 /\ buffer'[d] = buffer[d] /\ pushed'[d] = pushed[d]
                                 /\ delivered'[d] = delivered[d] /\ ctrl'[d] = ctrl[d],
           InStream(c)', InToggle(c)'
    PROVE  StreamInv'
<1> SUFFICES ASSUME NEW d \in Conn PROVE InStream(d)' /\ InToggle(d)'
  BY Zenon DEF StreamInv
<1>1. CASE d = c
  BY <1>1, Zenon
<1>2. CASE d # c
  <2>1. /\ state'[d] = state[d] /\ written'[d] = written[d] /\ buffer'[d] = buffer[d]
        /\ pushed'[d] = pushed[d] /\ delivered'[d] = delivered[d] /\ ctrl'[d] = ctrl[d]
    BY <1>2, Zenon
  <2>2. Unsent(d)' = Unsent(d) /\ (HoldsPacket(d)' <=> HoldsPacket(d))
    BY <2>1, Zenon DEF Unsent, SentPayload, HoldsPacket
  <2>3. InStream(d)'
    BY <2>1, <2>2, Zenon DEF StreamInv, InStream
  <2>4. InToggle(d)'
    BY <2>1 DEF StreamInv, InToggle, Opening, Toggled
  <2> QED
    BY <2>3, <2>4, Zenon
<1> QED
  BY <1>1, <1>2, Zenon

\* A step that the streams do not see.
LEMMA StreamUnseen ==
    ASSUME StreamInv, UNCHANGED <<state, written, buffer, pushed, delivered, ctrl>>,
           broken' = broken \/ broken' = TRUE
    PROVE  StreamInv'
<1> SUFFICES ASSUME NEW d \in Conn PROVE InStream(d)' /\ InToggle(d)'
  BY Zenon DEF StreamInv
<1>1. Unsent(d)' = Unsent(d) /\ (HoldsPacket(d)' <=> HoldsPacket(d))
  BY Zenon DEF Unsent, SentPayload, HoldsPacket
<1>2. InStream(d) /\ InToggle(d)
  BY Zenon DEF StreamInv
<1>3. InStream(d)'
  BY <1>1, <1>2, Zenon DEF InStream
<1>4. InToggle(d)'
  BY <1>2, Zenon DEF InToggle, Opening, Toggled
<1> QED
  BY <1>3, <1>4, Zenon

\* c is at the beginning of a frame, or without one, in its new state s.
LEMMA StreamMove ==
    ASSUME IInv, StreamInv, NEW c \in Conn, NEW s \in States, Become(c, s, 0),
           Clear(c) \/ UNCHANGED buffer,
           UNCHANGED <<rxVars, broken, histVars>>,
           ~broken /\ s \in WritingStates \cup ShutdownStates \cup {"DropRest"} =>
               pushed[c] = delivered[c] \o buffer'[c],
           s \in EarlyStates => pushed[c] = << >> /\ delivered[c] = << >>,
           s = "Done" => delivered[c] = pushed[c],
           ~broken =>
               /\ s # "Error"
               /\ s \in {"HandshakeLock", "HandshakeWrite"} => c \in Openers
               /\ s \in EarlyStates => ctrl[c] = 0
               /\ s \in {"Done", "Dropped"} => ctrl[c] = Opening(c) + 1
               /\ s \notin EarlyStates \cup {"Done", "Dropped", "Error"} => ctrl[c] = Opening(c)
    PROVE  StreamInv'
<1>0. ConnType /\ HeaderSize \in Nat /\ HeaderSize > 0
  BY StreamTypes, Zenon DEF IInv, TypeOK
<1>1. /\ state'[c] = s /\ written'[c] = 0
      /\ \A d \in Conn \ {c} : state'[d] = state[d] /\ written'[d] = written[d]
  BY <1>0, BecomeFacts
<1>2. buffer'[c] \in Seq(Nat) /\ \A d \in Conn \ {c} : buffer'[d] = buffer[d]
  BY <1>0, ClearFacts, Zenon DEF ConnType
<1>3. UNCHANGED <<pushed, delivered, ctrl, broken>>
  BY Zenon DEF rxVars, histVars
<1>4. Unsent(c)' = buffer'[c]
  <2>1. SentPayload(c)' = 0
    BY <1>0, <1>1 DEF SentPayload
  <2>2. Unsent(c)' = SubSeq(buffer'[c], 1, Len(buffer'[c]))
    BY <2>1 DEF Unsent
  <2> QED
    BY <1>2, <2>2, SubSeqFull, Zenon
<1>5. InStream(c)'
  <2>1. ~broken' /\ HoldsPacket(c)' => pushed'[c] = delivered'[c] \o Unsent(c)'
    <3> SUFFICES ASSUME ~broken', HoldsPacket(c)' PROVE pushed'[c] = delivered'[c] \o Unsent(c)'
      OBVIOUS
    <3>1. ~broken /\ s \in WritingStates \cup ShutdownStates \cup {"DropRest"}
      BY <1>1, <1>3 DEF HoldsPacket
    <3>2. pushed[c] = delivered[c] \o buffer'[c]
      BY <3>1, Zenon
    <3> QED
      BY <1>3, <1>4, <3>2, Zenon
  <2>2. state'[c] \in EarlyStates => pushed'[c] = << >> /\ delivered'[c] = << >>
    BY <1>1, <1>3, Zenon
  <2>3. ~(written'[c] > 0)
    BY <1>1
  <2>4. state'[c] = "Done" => delivered'[c] = pushed'[c]
    BY <1>1, <1>3, Zenon
  <2> QED
    BY <2>1, <2>2, <2>3, <2>4, Zenon DEF InStream, EarlyStates
<1>6. InToggle(c)'
  <2>1. Toggled(c)' = 0 /\ Opening(c)' = Opening(c) /\ Opening(c) \in {0, 1}
    BY <1>0, <1>1 DEF Toggled, Opening
  <2> QED
    BY <1>1, <1>3, <2>1 DEF InToggle, EarlyStates
<1> QED
  BY <1>1, <1>2, <1>3, <1>5, <1>6, StreamLocal, Zenon

-----------------------------------------------------------------------------
(***************************************************************************)
(* The steps that send and push nothing.                                   *)
(***************************************************************************)

\* Calls that begin, return or wait, and the failure of the socket.
LEMMA StreamQuietStep ==
    ASSUME StreamInv,
           \/ Break \/ UNCHANGED vars
           \/ \E c \in Conn :
                \/ \E n \in 1 .. MaxChunk : WriteCall(c, n)
                \/ FlushCall(c) \/ SendPending(c) \/ WriteReturn(c)
                \/ WriteLockPending(c) \/ FlushLockPending(c) \/ ShutdownLockPending(c)
                \/ (HandshakeLock(c) \/ DropLock(c)) /\ UNCHANGED <<state, written>>
    PROVE  StreamInv'
<1>1. /\ UNCHANGED <<state, written, buffer, pushed, delivered, ctrl>>
      /\ broken' = broken \/ broken' = TRUE
  BY Zenon DEF Break, vars, WriteCall, FlushCall, SendPending, WriteReturn, WriteLockPending,
     FlushLockPending, ShutdownLockPending, HandshakeLock, DropLock, connVars, rxVars, histVars
<1> QED
  BY <1>1, StreamUnseen, Zenon

\* What InStream and InToggle say of c.
LEMMA StreamOf ==
    ASSUME StreamInv, NEW c \in Conn
    PROVE  InStream(c) /\ InToggle(c)
BY DEF StreamInv

\* A connection is made.
LEMMA StreamCreateStep ==
    ASSUME IInv, StreamInv, NEW c \in Conn, AddConnection(c) \/ Accept(c)
    PROVE  StreamInv'
<1>1. /\ state[c] = "New" /\ UNCHANGED <<rxVars, buffer, broken, histVars>>
      /\ \/ c \in Openers /\ Become(c, "HandshakeLock", 0)
         \/ c \notin Openers /\ Become(c, "Buffering", 0)
  BY Zenon DEF AddConnection, Accept
<1>2. /\ pushed[c] = << >> /\ delivered[c] = << >> /\ buffer'[c] = << >>
      /\ ~broken => ctrl[c] = 0
  BY <1>1, StreamOf, Zenon DEF InStream, InToggle, IInv, CallInv, InPacket
<1>3. pushed[c] = delivered[c] \o buffer'[c]
  BY <1>2
<1>4. "HandshakeLock" \in States /\ "Buffering" \in States
  BY DEF States, WritingStates, TaskStates
<1>5. c \notin Openers => Opening(c) = 0
  BY DEF Opening
<1> QED
  BY <1>1, <1>2, <1>3, <1>4, <1>5, StreamMove, Zenon DEF EarlyStates

\* The mutex is taken to send a frame.
LEMMA StreamLockStep ==
    ASSUME IInv, StreamInv, NEW c \in Conn,
           \/ WriteLock(c) \/ FlushLock(c) \/ ShutdownLock(c)
           \/ (HandshakeLock(c) \/ DropLock(c)) /\ ~UNCHANGED <<state, written>>
    PROVE  StreamInv'
<1>1. /\ UNCHANGED <<rxVars, buffer, broken, histVars>>
      /\ \/ state[c] = "Buffering" /\ Become(c, "Flushing", 0)
         \/ state[c] = "WaitingLock" /\ Become(c, "ShutFlushing", 0)
         \/ state[c] = "HandshakeLock" /\ Become(c, "HandshakeWrite", 0)
         \/ state[c] = "DropLock" /\ Become(c, "DropEof", 0)
  BY Zenon DEF WriteLock, FlushLock, ShutdownLock, HandshakeLock, DropLock
<1>2. ~broken /\ HoldsPacket(c) => pushed[c] = delivered[c] \o buffer'[c]
  <2>1. written[c] = 0
    BY <1>1, Zenon DEF IInv, CallInv, InPacket, GuardStates
  <2> QED
    BY <1>1, <2>1, BufferedStream, Zenon
<1>3. {"Flushing", "ShutFlushing", "HandshakeWrite", "DropEof"} \subseteq States
  BY DEF States, WritingStates, ShutdownStates, TaskStates
<1>4. InStream(c) /\ InToggle(c)
  BY StreamOf, Zenon
<1>5. CASE state[c] = "Buffering" /\ Become(c, "Flushing", 0)
  <2>1. HoldsPacket(c) /\ (~broken => ctrl[c] = Opening(c))
    BY <1>4, <1>5, Zenon DEF HoldsPacket, WritingStates, InToggle
  <2> QED
    BY <1>1, <1>2, <1>3, <1>5, <2>1, StreamMove, Zenon DEF EarlyStates
<1>6. CASE state[c] = "WaitingLock" /\ Become(c, "ShutFlushing", 0)
  <2>1. HoldsPacket(c) /\ (~broken => ctrl[c] = Opening(c))
    BY <1>4, <1>6, Zenon DEF HoldsPacket, ShutdownStates, InToggle
  <2> QED
    BY <1>1, <1>2, <1>3, <1>6, <2>1, StreamMove, Zenon DEF EarlyStates
<1>7. CASE state[c] = "HandshakeLock" /\ Become(c, "HandshakeWrite", 0)
  <2>1. /\ pushed[c] = << >> /\ delivered[c] = << >>
        /\ ~broken => c \in Openers /\ ctrl[c] = 0
    BY <1>4, <1>7, Zenon DEF InStream, InToggle
  <2> QED
    BY <1>1, <1>3, <1>7, <2>1, StreamMove, Zenon DEF EarlyStates, WritingStates, ShutdownStates
<1>8. CASE state[c] = "DropLock" /\ Become(c, "DropEof", 0)
  <2>1. ~broken => ctrl[c] = Opening(c)
    BY <1>4, <1>8, Zenon DEF InToggle
  <2> QED
    BY <1>1, <1>3, <1>8, <2>1, StreamMove, Zenon DEF EarlyStates, WritingStates, ShutdownStates
<1> QED
  BY <1>1, <1>5, <1>6, <1>7, <1>8, Zenon

\* A frame is complete, or there was nothing to send.
LEMMA StreamFlushedStep ==
    ASSUME IInv, StreamInv, NEW c \in Conn,
           WriteFlushed(c) \/ FlushReturn(c) \/ ShutdownFlushed(c)
    PROVE  StreamInv'
<1>1. /\ UNCHANGED <<rxVars, broken, histVars>> /\ Clear(c)
      /\ is_empty(buffer[c]) \/ Sent(c)
      /\ \/ state[c] = "Flushing" /\ Become(c, "Buffering", 0)
         \/ state[c] = "ShutFlushing" /\ Become(c, "ShutWriting", 0)
  BY Zenon DEF WriteFlushed, FlushReturn, ShutdownFlushed, IInv, CallInv, InCall
<1>2. ~broken => pushed[c] = delivered[c]
  BY <1>1, AllDelivered, Zenon
<1>3. buffer'[c] = << >>
  BY <1>1, ClearFacts, Zenon DEF IInv, TypeOK
<1>4. ~broken => pushed[c] = delivered[c] \o buffer'[c]
  <2>1. delivered[c] \o << >> = delivered[c]
    BY StreamTypes, ConcatEmptySeq, Zenon
  <2> QED
    BY <1>2, <1>3, <2>1, Zenon
<1>5. ~broken => ctrl[c] = Opening(c)
  BY <1>1, StreamOf, Zenon DEF InToggle
<1>6. {"Buffering", "ShutWriting"} \subseteq States
  BY Zenon DEF States, WritingStates, ShutdownStates
<1> QED
  BY <1>1, <1>4, <1>5, <1>6, StreamMove, Zenon DEF EarlyStates

\* The empty frame of shutdown is out.
LEMMA StreamDoneStep ==
    ASSUME IInv, StreamInv, NEW c \in Conn, ShutdownReturn(c)
    PROVE  StreamInv'
<1>1. /\ UNCHANGED <<rxVars, buffer, broken, histVars>> /\ Become(c, "Done", 0)
      /\ state[c] = "ShutWriting" /\ Sent(c)
  BY Zenon DEF ShutdownReturn
<1>2. buffer[c] = << >> /\ buffer'[c] = << >>
  BY <1>1, Zenon DEF IInv, CallInv, InPacket
<1>3. written[c] = HeaderSize /\ written[c] > 0
  BY <1>1, <1>2, StreamTypes DEF Sent
<1>4. delivered[c] = pushed[c]
  BY <1>1, <1>3, StreamOf, Zenon DEF InStream
<1>5. pushed[c] = delivered[c] \o buffer'[c]
  <2>1. delivered[c] \o << >> = delivered[c]
    BY StreamTypes, ConcatEmptySeq, Zenon
  <2> QED
    BY <1>2, <1>4, <2>1, Zenon
<1>6. ~broken => ctrl[c] = Opening(c) + 1
  BY <1>1, <1>3, StreamOf, Zenon DEF InToggle, Toggled
<1>7. "Done" \in States
  BY Zenon DEF States, ShutdownStates
<1> QED
  BY <1>1, <1>4, <1>5, <1>6, <1>7, StreamMove, Zenon DEF EarlyStates

\* The handshake is over, or has failed with the socket.
LEMMA StreamHandshakeStep ==
    ASSUME IInv, StreamInv, ~CancelHandshake, NEW c \in Conn,
           HandshakeReturn(c) \/ HandshakeAbort(c)
    PROVE  StreamInv'
<1>1. /\ UNCHANGED <<rxVars, buffer, broken, histVars>>
      /\ state[c] \in {"HandshakeLock", "HandshakeWrite"}
      /\ \/ Become(c, "Buffering", 0) /\ Sent(c) /\ state[c] = "HandshakeWrite"
         \/ Become(c, "DropLock", 0) /\ broken
  BY Zenon DEF HandshakeReturn, HandshakeAbort
<1>2. pushed[c] = << >> /\ delivered[c] = << >> /\ buffer'[c] = << >> /\ buffer[c] = << >>
  BY <1>1, StreamOf, Zenon DEF InStream, IInv, CallInv, InPacket
<1>3. pushed[c] = delivered[c] \o buffer'[c]
  BY <1>2
<1>4. Sent(c) /\ state[c] = "HandshakeWrite" /\ ~broken => ctrl[c] = Opening(c)
  <2>1. Sent(c) => written[c] = HeaderSize
    BY <1>2, StreamTypes DEF Sent
  <2> QED
    BY <2>1, StreamOf, Zenon DEF InToggle, Toggled, Opening
<1>5. {"Buffering", "DropLock"} \subseteq States
  BY Zenon DEF States, WritingStates, TaskStates
<1> QED
  BY <1>1, <1>3, <1>4, <1>5, StreamMove, Zenon DEF EarlyStates

\* The socket fails a poll call.
LEMMA StreamErrorStep ==
    ASSUME IInv, StreamInv, NEW c \in Conn, SendError(c)
    PROVE  StreamInv'
<1>1. /\ UNCHANGED <<rxVars, buffer, broken, histVars>> /\ broken
      /\ Become(c, "Error", 0) \/ Become(c, "Buffering", 0)
  BY DEF SendError
<1>2. {"Buffering", "Error"} \subseteq States
  BY DEF States, WritingStates, ShutdownStates
<1> QED
  BY <1>1, <1>2, StreamMove, Zenon DEF EarlyStates

\* A connection is dropped after its shutdown, or its task has come to the end.
LEMMA StreamOverStep ==
    ASSUME IInv, StreamInv, ~DropDuringShutdown, NEW c \in Conn, DropShutdown(c) \/ DropEnd(c)
    PROVE  StreamInv'
<1>1. /\ UNCHANGED <<rxVars, broken, histVars>> /\ Clear(c) /\ Become(c, "Dropped", 0)
      /\ \/ state[c] \in {"Done", "Error"}
         \/ state[c] = "DropEof" /\ Sent(c)
         \/ broken
  BY Zenon DEF DropShutdown, DropEnd
<1>2. ~broken => ctrl[c] = Opening(c) + 1
  <2>1. CASE state[c] \in {"Done", "Error"}
    BY <2>1, StreamOf, Zenon DEF InToggle
  <2>2. CASE state[c] = "DropEof" /\ Sent(c)
    <3>1. buffer[c] = << >>
      BY <2>2, Zenon DEF IInv, CallInv, InPacket
    <3>2. written[c] = HeaderSize
      BY <2>2, <3>1, StreamTypes DEF Sent
    <3> QED
      BY <2>2, <3>2, StreamOf, Zenon DEF InToggle, Toggled
  <2> QED
    BY <1>1, <2>1, <2>2, Zenon
<1>3. "Dropped" \in States
  BY DEF States
<1> QED
  BY <1>1, <1>2, <1>3, StreamMove, Zenon DEF EarlyStates, WritingStates, ShutdownStates

\* What has not begun to go out is dropped, or the rest of a frame is out: the empty
\* frame comes next.
LEMMA StreamToEofStep ==
    ASSUME IInv, StreamInv, NEW c \in Conn, UNCHANGED <<rxVars, broken, histVars>>, Clear(c),
           state[c] \in {"Buffering", "Flushing", "DropRest"},
           Become(c, "DropEof", 0) \/ Become(c, "DropLock", 0)
    PROVE  StreamInv'
<1>1. ~broken => ctrl[c] = Opening(c)
  BY StreamOf, Zenon DEF InToggle
<1>2. {"DropEof", "DropLock"} \subseteq States
  BY Zenon DEF States, TaskStates
<1> QED
  BY <1>1, <1>2, StreamMove, Zenon DEF EarlyStates, WritingStates, ShutdownStates

\* c goes on with the same packet in another state: shutdown is called, or Drop
\* hands a frame that has begun to its task.
LEMMA StreamGoesOn ==
    ASSUME IInv, StreamInv, NEW c \in Conn, NEW s \in States,
           state' = [state EXCEPT ![c] = s],
           UNCHANGED <<written, buffer, pushed, delivered, ctrl, broken>>,
           \/ state[c] = "Buffering" /\ s = "WaitingLock"
           \/ state[c] = "Flushing" /\ s \in {"ShutFlushing", "DropRest"}
           \/ state[c] = s
    PROVE  StreamInv'
<1>1. state'[c] = s /\ \A d \in Conn \ {c} : state'[d] = state[d]
  BY Zenon DEF IInv, TypeOK, ConnType
<1>2. Unsent(c)' = Unsent(c)
  <2>1. SentPayload(c)' = SentPayload(c)
    BY <1>1, Zenon DEF SentPayload
  <2> QED
    BY <2>1, Zenon DEF Unsent
<1>3. InStream(c) /\ InToggle(c)
  BY StreamOf, Zenon
<1>4. InStream(c)'
  <2>1. HoldsPacket(c)' => HoldsPacket(c)
    BY <1>1, Zenon DEF HoldsPacket, WritingStates, ShutdownStates
  <2> QED
    BY <1>1, <1>2, <1>3, <2>1, Zenon DEF InStream
<1>5. InToggle(c)'
  BY <1>1, <1>3, Zenon DEF InToggle, Opening, Toggled
<1> QED
  BY <1>1, <1>4, <1>5, StreamLocal, Zenon

\* shutdown is called.
LEMMA StreamShutdownStep ==
    ASSUME IInv, StreamInv, NEW c \in Conn, ShutdownCall(c)
    PROVE  StreamInv'
<1> DEFINE s == CASE state[c] = "Buffering" -> "WaitingLock"
                  [] state[c] = "Flushing"  -> "ShutFlushing"
                  [] OTHER                  -> state[c]
<1>1. /\ state' = [state EXCEPT ![c] = s]
      /\ UNCHANGED <<written, buffer, pushed, delivered, ctrl, broken>>
  BY Zenon DEF ShutdownCall, rxVars, histVars
<1>2. s \in States
  BY Zenon DEF IInv, TypeOK, ConnType, States, ShutdownStates
<1>3. \/ state[c] = "Buffering" /\ s = "WaitingLock"
      \/ state[c] = "Flushing" /\ s = "ShutFlushing"
      \/ state[c] = s
  OBVIOUS
<1> HIDE DEF s
<1> QED
  BY <1>1, <1>2, <1>3, StreamGoesOn, Zenon

\* Drop of a connection that is still writing, and its task.
LEMMA StreamDropStep ==
    ASSUME IInv, StreamInv, NEW c \in Conn, DropWriting(c) \/ DropRestSent(c)
    PROVE  StreamInv'
<1>1. CASE state[c] = "Flushing" /\ Become(c, "DropRest", written[c]) /\ UNCHANGED buffer
  <2>1. state' = [state EXCEPT ![c] = "DropRest"] /\ "DropRest" \in States
    BY <1>1, Zenon DEF Become, States, TaskStates
  <2>2. written' = written
    BY <1>1, Zenon DEF Become, IInv, TypeOK, ConnType
  <2>3. UNCHANGED <<pushed, delivered, ctrl, broken>>
    BY <1>1, Zenon DEF DropWriting, DropRestSent, rxVars, histVars
  <2> QED
    BY <1>1, <2>1, <2>2, <2>3, StreamGoesOn, Zenon
<1>2. CASE ~(state[c] = "Flushing" /\ Become(c, "DropRest", written[c]) /\ UNCHANGED buffer)
  <2>1. /\ UNCHANGED <<rxVars, broken, histVars>> /\ Clear(c)
        /\ state[c] \in {"Buffering", "Flushing", "DropRest"}
        /\ Become(c, "DropEof", 0) \/ Become(c, "DropLock", 0)
    BY <1>2, Zenon DEF DropWriting, DropRestSent
  <2> QED
    BY <2>1, StreamToEofStep, Zenon
<1> QED
  BY <1>1, <1>2, Zenon

-----------------------------------------------------------------------------
(***************************************************************************)
(* Bytes are pushed into the packet.                                       *)
(***************************************************************************)

\* What push puts into the packet it also puts behind what was pushed.
LEMMA PushBoth ==
    ASSUME IInv, NEW c \in Conn, NEW w \in Nat, Push(c, w)
    PROVE  \E new \in Seq(Nat) :
              /\ buffer'[c] = buffer[c] \o new /\ pushed'[c] = pushed[c] \o new
              /\ w > AddrSize + 1 => new = << >>
              /\ \A d \in Conn \ {c} : buffer'[d] = buffer[d] /\ pushed'[d] = pushed[d]
<1> DEFINE k    == push_len(buffer[c], w, left[c])
           from == accepted[c] + wrote[c]
           new  == [i \in 1 .. k |-> from + i]
<1>0. buffer \in [Conn -> Seq(Nat)] /\ pushed \in [Conn -> Seq(Nat)]
  BY Zenon DEF IInv, TypeOK, ConnType, HistType
<1>1. buffer[c] \in Seq(Nat) /\ left[c] \in Nat /\ wrote[c] \in Nat /\ accepted[c] \in Nat
  BY Zenon DEF IInv, TypeOK, ConnType, CallType, HistType
<1>2. k \in 0 .. left[c] /\ (w > AddrSize + 1 => k = 0)
  BY <1>1, FrameBounds, PushLen, Zenon
<1>3. /\ buffer' = [buffer EXCEPT ![c] = @ \o new]
      /\ pushed' = [pushed EXCEPT ![c] = @ \o new]
  BY Zenon DEF Push
<1> HIDE DEF k
<1>4. new \in Seq(Nat) /\ Len(new) = k
  BY <1>1, <1>2, SMTT(20)
<1>5. w > AddrSize + 1 => new = << >>
  BY <1>2, <1>4
<1> HIDE DEF new
<1>6. /\ buffer'[c] = buffer[c] \o new /\ pushed'[c] = pushed[c] \o new
      /\ \A d \in Conn \ {c} : buffer'[d] = buffer[d] /\ pushed'[d] = pushed[d]
  BY <1>0, <1>3, Zenon
<1> QED
  BY <1>4, <1>5, <1>6, Zenon

\* poll_write pushes bytes into its packet, also while the packet is being sent.
LEMMA StreamPushStep ==
    ASSUME IInv, StreamInv, NEW c \in Conn, WriteBuffering(c) \/ WriteFlushing(c)
    PROVE  StreamInv'
<1>0. /\ buffer[c] \in Seq(Nat) /\ pushed[c] \in Seq(Nat) /\ delivered[c] \in Seq(Nat)
      /\ Len(buffer[c]) \in Nat /\ written[c] \in Nat
      /\ HeaderSize \in Nat /\ HeaderSize = AddrSize + 2 /\ AddrSize \in Nat
  BY StreamTypes, AddrSizeAssumption, Zenon DEF HeaderSize
<1>1. /\ state[c] \in {"Buffering", "Flushing"}
      /\ UNCHANGED <<state, written, delivered, ctrl, broken>>
      /\ Push(c, written[c]) \/ UNCHANGED <<buffer, pushed>>
  <2>1. state[c] = "Buffering" => written[c] = 0
    BY Zenon DEF IInv, CallInv, InPacket, GuardStates
  <2> QED
    BY <2>1, Zenon DEF WriteBuffering, WriteFlushing, rxVars
<1>2. CASE UNCHANGED <<buffer, pushed>>
  BY <1>1, <1>2, StreamUnseen, Zenon
<1>3. CASE Push(c, written[c])
  <2>1. PICK new \in Seq(Nat) :
              /\ buffer'[c] = buffer[c] \o new /\ pushed'[c] = pushed[c] \o new
              /\ written[c] > AddrSize + 1 => new = << >>
              /\ \A d \in Conn \ {c} : buffer'[d] = buffer[d] /\ pushed'[d] = pushed[d]
    BY <1>0, <1>3, PushBoth, Zenon
  <2>2. InStream(c) /\ InToggle(c)
    BY StreamOf, Zenon
  <2>3. ~broken => pushed[c] = delivered[c] \o Unsent(c)
    BY <1>1, <2>2, Zenon DEF InStream, HoldsPacket, WritingStates
  <2>4. Unsent(c)' = Unsent(c) \o new /\ Unsent(c) \in Seq(Nat)
    <3>1. SentPayload(c)' = SentPayload(c)
      BY <1>1 DEF SentPayload
    <3>2. CASE written[c] > AddrSize + 1
      <4>1. new = << >> /\ buffer[c] \o << >> = buffer[c]
        BY <1>0, <2>1, <3>2, ConcatEmptySeq, Zenon
      <4>2. Unsent(c)' = Unsent(c)
        BY <2>1, <3>1, <4>1, Zenon DEF Unsent
      <4>3. Unsent(c) \in Seq(Nat)
        <5>1. SentPayload(c) \in Nat
          BY <1>0 DEF SentPayload
        <5>2. \A i \in (SentPayload(c) + 1) .. Len(buffer[c]) : buffer[c][i] \in Nat
          <6>1. buffer[c] \in Seq(Nat)
            BY <1>0, Zenon
          <6> QED
            BY <5>1, <6>1
        <5> QED
          BY <1>0, <5>1, <5>2, SubSeqProperties DEF Unsent
      <4> QED
        BY <4>1, <4>2, <4>3, ConcatEmptySeq, Zenon
    <3>3. CASE ~(written[c] > AddrSize + 1)
      <4>1. SentPayload(c) = 0
        BY <1>0, <3>3 DEF SentPayload
      <4>2. Unsent(c) = buffer[c]
        BY <1>0, <4>1, UnsentAll, Zenon
      <4>3. buffer[c] \o new \in Seq(Nat)
        BY <1>0, ConcatProperties, Zenon
      <4>4. Unsent(c)' = SubSeq(buffer'[c], 1, Len(buffer'[c]))
        BY <3>1, <4>1 DEF Unsent
      <4>5. Unsent(c)' = buffer'[c]
        BY <2>1, <4>3, <4>4, SubSeqFull, Zenon
      <4> QED
        BY <1>0, <2>1, <4>2, <4>5, Zenon
    <3> QED
      BY <3>2, <3>3, Zenon
  <2>5. ~broken => pushed'[c] = delivered[c] \o Unsent(c)'
    <3>1. (delivered[c] \o Unsent(c)) \o new = delivered[c] \o (Unsent(c) \o new)
      <4>1. delivered[c] \in Seq(Nat) /\ Unsent(c) \in Seq(Nat) /\ new \in Seq(Nat)
        BY <1>0, <2>1, <2>4, Zenon
      <4> QED
        BY <4>1, ConcatAssoc, Zenon
    <3> QED
      BY <2>1, <2>3, <2>4, <3>1, Zenon
  <2>6. InStream(c)'
    BY <1>1, <2>5, Zenon DEF InStream
  <2>7. InToggle(c)'
    BY <1>1, <2>2, Zenon DEF InToggle, Opening, Toggled
  <2> QED
    BY <1>1, <2>1, <2>6, <2>7, StreamLocal, Zenon
<1> QED
  BY <1>1, <1>2, <1>3, Zenon

-----------------------------------------------------------------------------
(***************************************************************************)
(* The socket takes a byte.                                                *)
(***************************************************************************)

\* What is being sent is empty in the states that send an empty frame, and only there.
LEMMA SendingFrame ==
    ASSUME IInv, NEW c \in Conn, Sending(c)
    PROVE  \/ buffer[c] = << >> /\ state[c] \in {"HandshakeWrite", "ShutWriting", "DropEof"}
           \/ Len(buffer[c]) > 0 /\ state[c] \in FrameStates
<1>1. buffer[c] \in Seq(Nat) /\ Len(buffer[c]) \in Nat
  BY StreamTypes, Zenon
<1>2. Len(buffer[c]) = 0 <=> buffer[c] = << >>
  BY <1>1
<1>3. InCall(c) /\ InPacket(c)
  BY Zenon DEF IInv, CallInv
<1>4. CASE state[c] \in {"HandshakeWrite", "ShutWriting", "DropEof"}
  BY <1>3, <1>4, Zenon DEF InPacket
<1>5. CASE state[c] \notin {"HandshakeWrite", "ShutWriting", "DropEof"}
  <2>1. \/ pc[c] = "writeFlush" /\ state[c] = "Flushing"
        \/ state[c] \in {"Flushing", "ShutFlushing"} /\ ~is_empty(buffer[c])
        \/ state[c] = "DropRest"
    BY <1>3, <1>5, Zenon DEF Sending, InCall
  <2>2. state[c] \in FrameStates
    BY <2>1, Zenon DEF FrameStates
  <2>3. buffer[c] # << >>
    BY <1>2, <1>3, <2>1, Zenon DEF InPacket, is_empty
  <2> QED
    BY <1>1, <1>2, <2>2, <2>3
<1> QED
  BY <1>4, <1>5, Zenon

\* A byte of the header.  With the last one of an empty frame the peer toggles.
LEMMA StreamHeaderStep ==
    ASSUME IInv, StreamInv, NEW c \in Conn, SendByte(c), written[c] < HeaderSize
    PROVE  StreamInv'
<1>0. /\ buffer[c] \in Seq(Nat) /\ pushed[c] \in Seq(Nat) /\ delivered[c] \in Seq(Nat)
      /\ written[c] \in Nat /\ AddrSize \in Nat /\ HeaderSize = AddrSize + 2
      /\ ctrl \in [Conn -> Nat] /\ Len(buffer[c]) \in Nat
  BY StreamTypes, AddrSizeAssumption, Zenon DEF HeaderSize, IInv, TypeOK, RxType
<1>1. /\ ~broken /\ Sending(c) /\ UNCHANGED <<state, buffer, broken, pushed>>
      /\ Receive(ByteAt(c, buffer[c], written[c] + 1))
  BY Zenon DEF SendByte, histVars
<1>2. /\ written'[c] = written[c] + 1
      /\ \A d \in Conn \ {c} : written'[d] = written[d]
  BY Zenon DEF SendByte, IInv, TypeOK, ConnType
<1>3. RxAt(c)
  BY <1>1, SendingHoldsGuard, Zenon
<1>4. /\ delivered' = delivered
      /\ ctrl' = IF written[c] + 1 = HeaderSize /\ Len(buffer[c]) = 0
                 THEN [ctrl EXCEPT ![c] = @ + 1] ELSE ctrl
  <2>1. CASE written[c] < AddrSize \/ written[c] = AddrSize
    <3>1. UNCHANGED <<delivered, ctrl>>
      BY <1>1, <1>3, <2>1, SendAddr, SendHigh, Zenon
    <3>2. written[c] + 1 # HeaderSize
      BY <1>0, <2>1
    <3> QED
      BY <3>1, <3>2, Zenon
  <2>2. CASE written[c] = AddrSize + 1
    <3>1. /\ ctrl' = IF Len(buffer[c]) = 0 THEN [ctrl EXCEPT ![c] = @ + 1] ELSE ctrl
          /\ UNCHANGED delivered
      BY <1>1, <1>3, <2>2, SendLow, Zenon
    <3>2. written[c] + 1 = HeaderSize
      BY <1>0, <2>2
    <3> QED
      BY <3>1, <3>2, Zenon
  <2>3. written[c] < AddrSize \/ written[c] = AddrSize \/ written[c] = AddrSize + 1
    BY <1>0
  <2> QED
    BY <2>1, <2>2, <2>3, Zenon
<1>5. /\ ctrl'[c] = IF written[c] + 1 = HeaderSize /\ Len(buffer[c]) = 0
                    THEN ctrl[c] + 1 ELSE ctrl[c]
      /\ \A d \in Conn \ {c} : ctrl'[d] = ctrl[d]
  BY <1>0, <1>4, Zenon
<1>6. Unsent(c)' = Unsent(c)
  <2>1. SentPayload(c)' = 0 /\ SentPayload(c) = 0
    BY <1>0, <1>2 DEF SentPayload
  <2> QED
    BY <1>1, <2>1, Zenon DEF Unsent
<1>7. \/ buffer[c] = << >> /\ state[c] \in {"HandshakeWrite", "ShutWriting", "DropEof"}
      \/ Len(buffer[c]) > 0 /\ state[c] \in FrameStates
  BY <1>1, SendingFrame, Zenon
<1>8. InStream(c) /\ InToggle(c)
  BY StreamOf, Zenon
<1>9. InStream(c)'
  <2>1. HoldsPacket(c)' <=> HoldsPacket(c)
    BY <1>1, Zenon DEF HoldsPacket
  <2>2. ASSUME state[c] = "ShutWriting" PROVE delivered[c] = pushed[c]
    <3>1. HoldsPacket(c) /\ buffer[c] = << >>
      BY <1>7, <2>2, Zenon DEF HoldsPacket, ShutdownStates, FrameStates
    <3>2. SentPayload(c) = 0
      BY <2>2, Zenon DEF SentPayload
    <3>3. Unsent(c) = << >>
      BY <1>0, <3>1, <3>2, UnsentAll, Zenon
    <3>4. delivered[c] \o << >> = delivered[c]
      BY <1>0, ConcatEmptySeq, Zenon
    <3>5. pushed[c] = delivered[c] \o Unsent(c)
      BY <1>1, <1>8, <3>1, Zenon DEF InStream
    <3> QED
      BY <3>3, <3>4, <3>5, Zenon
  <2>3. state[c] # "Done"
    BY <1>7, Zenon DEF FrameStates
  <2>4. ~broken /\ HoldsPacket(c) => pushed[c] = delivered[c] \o Unsent(c)
    BY <1>8, Zenon DEF InStream
  <2>5. ~broken' /\ HoldsPacket(c)' => pushed'[c] = delivered'[c] \o Unsent(c)'
    BY <1>1, <1>4, <1>6, <2>1, <2>4, Zenon
  <2>6. state'[c] \in EarlyStates => pushed'[c] = << >> /\ delivered'[c] = << >>
    BY <1>1, <1>4, <1>8, Zenon DEF InStream, EarlyStates
  <2>7. state'[c] = "Done" \/ (state'[c] = "ShutWriting" /\ written'[c] > 0) =>
           delivered'[c] = pushed'[c]
    BY <1>1, <1>4, <2>2, <2>3, Zenon
  <2> QED
    BY <2>5, <2>6, <2>7, Zenon DEF InStream, EarlyStates
<1>10. InToggle(c)'
  <2>1. /\ Opening(c)' = Opening(c) /\ Opening(c) \in Nat
        /\ Toggled(c) = 0 /\ Toggled(c)' = IF written[c] + 1 = HeaderSize THEN 1 ELSE 0
    BY <1>0, <1>2 DEF Opening, Toggled
  <2>2. CASE buffer[c] = << >> /\ state[c] \in {"HandshakeWrite", "ShutWriting", "DropEof"}
    <3>1. ctrl'[c] = ctrl[c] + Toggled(c)'
      BY <1>0, <1>5, <2>1, <2>2
    <3> QED
      BY <1>0, <1>1, <1>8, <2>1, <2>2, <3>1 DEF InToggle
  <2>3. CASE Len(buffer[c]) > 0 /\ state[c] \in FrameStates
    <3>1. ctrl'[c] = ctrl[c]
      BY <1>0, <1>5, <2>3
    <3> QED
      BY <1>1, <1>8, <2>1, <2>3, <3>1, Zenon DEF InToggle, FrameStates
  <2> QED
    BY <1>7, <2>2, <2>3, Zenon
<1> QED
  BY <1>1, <1>2, <1>4, <1>5, <1>9, <1>10, StreamLocal

\* What a byte of the payload does: the next byte of the packet is delivered.
LEMMA PayloadFacts ==
    ASSUME IInv, NEW c \in Conn, SendByte(c), written[c] >= HeaderSize
    PROVE  /\ state[c] \in FrameStates /\ written[c] - HeaderSize < Len(buffer[c])
           /\ UNCHANGED <<state, buffer, broken, pushed, ctrl>>
           /\ written'[c] = written[c] + 1
           /\ delivered'[c] = Append(delivered[c], buffer[c][(written[c] - HeaderSize) + 1])
           /\ \A d \in Conn \ {c} : written'[d] = written[d] /\ delivered'[d] = delivered[d]
<1>0. /\ buffer[c] \in Seq(Nat) /\ Len(buffer[c]) \in Nat /\ written[c] \in Nat
      /\ HeaderSize \in Nat /\ FrameSize(buffer[c]) = HeaderSize + Len(buffer[c])
  BY StreamTypes, Zenon
<1>1. /\ ~broken /\ Sending(c) /\ UNCHANGED <<state, buffer, broken, pushed>>
      /\ Receive(ByteAt(c, buffer[c], written[c] + 1))
  BY Zenon DEF SendByte, histVars
<1>2. RxAt(c) /\ written[c] < FrameSize(buffer[c])
  BY <1>1, SendingHoldsGuard, Zenon DEF Sending
<1>3. /\ delivered' = [delivered EXCEPT ![c] =
                          Append(@, buffer[c][written[c] + 1 - HeaderSize])]
      /\ UNCHANGED ctrl
  BY <1>1, <1>2, SendPayload, Zenon
<1>4. written[c] + 1 - HeaderSize = (written[c] - HeaderSize) + 1
  BY <1>0
<1>5. /\ delivered'[c] = Append(delivered[c], buffer[c][(written[c] - HeaderSize) + 1])
      /\ \A d \in Conn \ {c} : delivered'[d] = delivered[d]
  BY <1>3, <1>4, Zenon DEF IInv, TypeOK, RxType
<1>6. /\ written'[c] = written[c] + 1
      /\ \A d \in Conn \ {c} : written'[d] = written[d]
  BY Zenon DEF SendByte, IInv, TypeOK, ConnType
<1>7. state[c] \in FrameStates /\ written[c] - HeaderSize < Len(buffer[c])
  <2>1. Len(buffer[c]) > 0
    BY <1>0, <1>2
  <2>2. state[c] \in FrameStates
    BY <1>0, <1>1, <2>1, SendingFrame
  <2> QED
    BY <1>0, <1>2, <2>2
<1> QED
  BY <1>1, <1>3, <1>5, <1>6, <1>7, Zenon

\* A byte of the payload.
LEMMA StreamPayloadStep ==
    ASSUME IInv, StreamInv, NEW c \in Conn, SendByte(c), written[c] >= HeaderSize
    PROVE  StreamInv'
<1> DEFINE n == written[c] - HeaderSize
<1>0. /\ buffer[c] \in Seq(Nat) /\ delivered[c] \in Seq(Nat)
      /\ Len(buffer[c]) \in Nat /\ written[c] \in Nat /\ HeaderSize \in Nat
  BY StreamTypes, Zenon
<1>1. /\ state[c] \in FrameStates /\ n < Len(buffer[c])
      /\ UNCHANGED <<state, buffer, broken, pushed, ctrl>>
      /\ written'[c] = written[c] + 1
      /\ delivered'[c] = Append(delivered[c], buffer[c][n + 1])
      /\ \A d \in Conn \ {c} : written'[d] = written[d] /\ delivered'[d] = delivered[d]
  BY PayloadFacts, Zenon
<1>2. n \in Nat
  BY <1>0
<1>3. InStream(c) /\ InToggle(c)
  BY StreamOf, Zenon
<1>4. Unsent(c) = SubSeq(buffer[c], n + 1, Len(buffer[c]))
  <2>1. SentPayload(c) = n
    BY <1>0, <1>1 DEF SentPayload, FrameStates
  <2> QED
    BY <2>1, Zenon DEF Unsent
<1>5. Unsent(c)' = SubSeq(buffer[c], n + 2, Len(buffer[c]))
  <2>1. SentPayload(c)' = n + 1
    BY <1>0, <1>1 DEF SentPayload, FrameStates
  <2>2. (n + 1) + 1 = n + 2
    BY <1>2
  <2> QED
    BY <1>1, <2>1, <2>2, Zenon DEF Unsent
<1> HIDE DEF n
<1>6. delivered'[c] \o Unsent(c)' = delivered[c] \o Unsent(c)
  <2>1. Append(delivered[c], buffer[c][n + 1]) \o SubSeq(buffer[c], n + 2, Len(buffer[c]))
          = delivered[c] \o SubSeq(buffer[c], n + 1, Len(buffer[c]))
    BY <1>0, <1>1, <1>2, ByteMoves, Zenon
  <2> QED
    BY <1>1, <1>4, <1>5, <2>1, Zenon
<1>7. InStream(c)'
  <2>1. HoldsPacket(c)' <=> HoldsPacket(c)
    BY <1>1, Zenon DEF HoldsPacket
  <2>2. ~broken /\ HoldsPacket(c) => pushed[c] = delivered[c] \o Unsent(c)
    BY <1>3, Zenon DEF InStream
  <2>3. ~broken' /\ HoldsPacket(c)' => pushed'[c] = delivered'[c] \o Unsent(c)'
    BY <1>1, <1>6, <2>1, <2>2, Zenon
  <2> QED
    BY <1>1, <2>3, Zenon DEF InStream, FrameStates
<1>8. InToggle(c)'
  BY <1>1, <1>3, Zenon DEF InToggle, Opening, FrameStates
<1> QED
  BY <1>1, <1>7, <1>8, StreamLocal, Zenon

-----------------------------------------------------------------------------
(***************************************************************************)
(* The streams, from the beginning and step by step.                       *)
(***************************************************************************)

\* Nothing is pushed, sent or opened at first.
LEMMA InitStreamInv == Init => StreamInv
<1> SUFFICES ASSUME Init, NEW c \in Conn PROVE InStream(c) /\ InToggle(c)
  BY Zenon DEF StreamInv
<1>1. state[c] = "New" /\ pushed[c] = << >> /\ delivered[c] = << >> /\ ctrl[c] = 0
  BY Zenon DEF Init, RxInit
<1> QED
  BY <1>1, Zenon DEF InStream, InToggle, HoldsPacket, WritingStates, ShutdownStates

\* Every step keeps the streams in order.
LEMMA NextStreamInv ==
    ASSUME IInv, StreamInv, [Next]_vars, ~DropDuringShutdown, ~CancelHandshake
    PROVE  StreamInv'
<1>1. ASSUME NEW c \in Conn, Application(c) PROVE StreamInv'
  BY <1>1, StreamCreateStep, StreamQuietStep, StreamShutdownStep, StreamOverStep,
     StreamDropStep, Zenon DEF Application
<1>2. ASSUME NEW c \in Conn, Proceed(c) PROVE StreamInv'
  <2>1. ASSUME HandshakeLock(c) \/ DropLock(c) PROVE StreamInv'
    <3>1. CASE UNCHANGED <<state, written>>
      <4>1. UNCHANGED <<state, written, buffer, pushed, delivered, ctrl, broken>>
        BY <2>1, <3>1 DEF HandshakeLock, DropLock, rxVars, histVars
      <4> QED
        BY <4>1, StreamUnseen, Zenon
    <3> QED
      BY <2>1, <3>1, StreamLockStep, Zenon
  <2> QED
    BY <1>2, <2>1, StreamErrorStep, StreamPushStep, StreamLockStep, StreamQuietStep,
       StreamFlushedStep, StreamDoneStep, StreamHandshakeStep, StreamDropStep,
       StreamOverStep, Zenon DEF Proceed
<1>3. ASSUME NEW c \in Conn, SendByte(c) \/ SendPending(c) \/ HandshakeAbort(c)
      PROVE  StreamInv'
  <2>1. ASSUME SendByte(c) PROVE StreamInv'
    <3>1. written[c] < HeaderSize \/ written[c] >= HeaderSize
      BY StreamTypes
    <3> QED
      BY <2>1, <3>1, StreamHeaderStep, StreamPayloadStep, Zenon
  <2> QED
    BY <1>3, <2>1, StreamQuietStep, StreamHandshakeStep, Zenon
<1> QED
  BY <1>1, <1>2, <1>3, StreamQuietStep, Zenon DEF Next

\* StreamInv is an invariant, under the conditions of IInv.
THEOREM StreamInductive ==
    ASSUME ~DropDuringShutdown, ~CancelHandshake
    PROVE  Spec => []StreamInv
<1>1. IInv /\ StreamInv /\ [Next]_vars => StreamInv'
  BY NextStreamInv, Zenon
<1> QED
  BY <1>1, InitStreamInv, Inductive, PTL DEF Spec

\* However connections interleave, and although frames grow while they are being
\* sent, what was pushed into the packet of a connection (push!) arrives in order,
\* once, and with nothing in between.
THEOREM StreamsInOrder ==
    ASSUME ~DropDuringShutdown, ~CancelHandshake
    PROVE  Spec => []StreamOrder
<1>1. StreamInv => StreamOrder
  BY Zenon DEF StreamInv, InStream, StreamOrder
<1> QED
  BY <1>1, StreamInductive, PTL

\* poll_shutdown reports success only when everything pushed has been delivered, even
\* if the stream breaks while the closing frame is on its way.
THEOREM NothingLostByShutdown ==
    ASSUME ~DropDuringShutdown, ~CancelHandshake
    PROVE  Spec => []ShutdownDelivers
<1>1. StreamInv => ShutdownDelivers
  BY Zenon DEF StreamInv, InStream, ShutdownDelivers
<1> QED
  BY <1>1, StreamInductive, PTL

\* A connection that is over, by shutdown or by the task of Drop, has sent every empty
\* frame the peer's toggle needs, and not one more.
THEOREM TogglesPaired ==
    ASSUME ~DropDuringShutdown, ~CancelHandshake
    PROVE  Spec => []CleanClose
<1>1. StreamInv => CleanClose
  <2> SUFFICES ASSUME StreamInv, NEW c \in Conn, state[c] \in {"Done", "Dropped"}, ~broken
               PROVE  Closed(c)
    BY Zenon DEF CleanClose
  <2>1. ctrl[c] = Opening(c) + 1
    BY StreamOf, Zenon DEF InToggle
  <2> QED
    BY <2>1 DEF Closed, Opening
<1> QED
  BY <1>1, StreamInductive, PTL

\* Only a byte of a payload changes what was delivered.
LEMMA DeliveredBy ==
    ASSUME [Next]_vars, delivered' # delivered
    PROVE  \E c \in Conn : SendByte(c)
<1>1. ASSUME NEW c \in Conn, Application(c) PROVE delivered' = delivered
  BY <1>1, Zenon DEF Application, AddConnection, Accept, WriteCall, FlushCall, ShutdownCall,
     DropShutdown, DropWriting, rxVars
<1>2. ASSUME NEW c \in Conn, Proceed(c) PROVE delivered' = delivered
  BY <1>2, Zenon DEF Proceed, SendError, WriteBuffering, WriteLock, WriteLockPending, WriteFlushing,
     WriteFlushed, WriteReturn, FlushLock, FlushLockPending, FlushReturn, ShutdownLock,
     ShutdownLockPending, ShutdownFlushed, ShutdownReturn, HandshakeLock, HandshakeReturn,
     DropLock, DropRestSent, DropEnd, rxVars
<1>3. ASSUME NEW c \in Conn, SendPending(c) \/ HandshakeAbort(c) PROVE delivered' = delivered
  BY <1>3, Zenon DEF SendPending, HandshakeAbort, rxVars
<1>4. Break \/ UNCHANGED vars => delivered' = delivered
  BY Zenon DEF Break, rxVars, vars
<1> QED
  BY <1>1, <1>2, <1>3, <1>4, Zenon DEF Next

\* Payload reaches the peer only between the opening and the closing frame of its
\* connection: flush_buf never runs before the handshake or after the empty frame of
\* poll_shutdown or Drop.
THEOREM DeliveredWhileOpen ==
    ASSUME ~DropDuringShutdown, ~CancelHandshake
    PROVE  Spec => OpenWhileDelivering
<1>1. ASSUME IInv, StreamInv, [Next]_vars, NEW c \in Conn, delivered'[c] # delivered[c]
      PROVE  ctrl[c] = IF c \in Openers THEN 1 ELSE 0
  <2>1. PICK d \in Conn : SendByte(d)
    BY <1>1, DeliveredBy, Zenon
  <2>2. written[d] \in Nat /\ HeaderSize \in Nat
    BY <1>1, StreamTypes, Zenon
  <2>3. ~broken
    BY <2>1, Zenon DEF SendByte
  <2>4. written[d] >= HeaderSize
    <3> SUFFICES ASSUME written[d] < HeaderSize PROVE delivered' = delivered
      BY <1>1, <2>2
    <3>1. AddrSize \in Nat /\ HeaderSize = AddrSize + 2
      BY AddrSizeAssumption, Zenon DEF HeaderSize
    <3>2. RxAt(d) /\ Receive(ByteAt(d, buffer[d], written[d] + 1))
      BY <1>1, <2>1, SendingHoldsGuard, Zenon DEF SendByte
    <3>3. written[d] < AddrSize \/ written[d] = AddrSize \/ written[d] = AddrSize + 1
      BY <2>2, <3>1
    <3> QED
      BY <1>1, <3>2, <3>3, SendAddr, SendHigh, SendLow, Zenon
  <2>5. c = d /\ state[d] \in FrameStates
    BY <1>1, <2>1, <2>4, PayloadFacts, Zenon
  <2>6. ctrl[c] = Opening(c)
    BY <1>1, <2>3, <2>5, StreamOf, Zenon DEF InToggle, FrameStates
  <2> QED
    BY <2>6, Zenon DEF Opening
<1>2. IInv /\ StreamInv /\ [Next]_vars =>
        [\A c \in Conn : delivered'[c] # delivered[c] =>
            ctrl[c] = IF c \in Openers THEN 1 ELSE 0]_vars
  BY <1>1, Zenon
<1> QED
  BY <1>2, Inductive, StreamInductive, PTL DEF Spec, OpenWhileDelivering

-----------------------------------------------------------------------------
(***************************************************************************)
(* A connection that is alone on its stream never finds the mutex taken.   *)
(* That is the only case in which poll_write forgets bytes it has pushed,  *)
(* so the bytes arrive as the application numbered them.                   *)
(***************************************************************************)

\* push appends the next numbers.
LEMMA UpToPush ==
    ASSUME NEW from \in Nat, NEW k \in Nat
    PROVE  UpTo(from) \o [i \in 1 .. k |-> from + i] = UpTo(from + k)
<1> DEFINE s == UpTo(from)
           t == [i \in 1 .. k |-> from + i]
           u == UpTo(from + k)
<1>1. s \in Seq(Nat) /\ Len(s) = from /\ \A i \in 1 .. from : s[i] = i
  BY SMTT(20) DEF UpTo
<1>2. t \in Seq(Nat) /\ Len(t) = k /\ \A i \in 1 .. k : t[i] = from + i
  BY SMTT(20)
<1>3. u \in Seq(Nat) /\ Len(u) = from + k /\ \A i \in 1 .. from + k : u[i] = i
  BY SMTT(20) DEF UpTo
<1> HIDE DEF s, t, u
<1>4. /\ s \o t \in Seq(Nat) /\ Len(s \o t) = Len(s) + Len(t)
      /\ \A i \in 1 .. Len(s) + Len(t) :
            (s \o t)[i] = IF i <= Len(s) THEN s[i] ELSE t[i - Len(s)]
  BY <1>1, <1>2, ConcatProperties, Zenon
<1> DEFINE v == s \o t
<1>5. v \in Seq(Nat) /\ Len(v) = from + k
  BY <1>1, <1>2, <1>4, Zenon
<1>6. ASSUME NEW i \in 1 .. from + k PROVE v[i] = i
  <2>1. i <= from => v[i] = i
    BY <1>1, <1>2, <1>4
  <2>2. ~(i <= from) => i - from \in 1 .. k /\ v[i] = t[i - from]
    BY <1>1, <1>2, <1>4
  <2>3. ASSUME ~(i <= from) PROVE v[i] = i
    <3>1. i - from \in 1 .. k /\ v[i] = t[i - from]
      BY <2>2, <2>3, Zenon
    <3>2. t[i - from] = from + (i - from)
      BY <1>2, <3>1, Zenon
    <3> QED
      BY <3>1, <3>2
  <2> QED
    BY <2>1, <2>3, Zenon
<1> HIDE DEF v
<1>7. v = u
  BY <1>3, <1>5, <1>6, SeqEqual
<1> QED
  BY <1>7, Zenon DEF s, t, u, v

\* The beginning of the numbers is numbered.
LEMMA UpToPrefix ==
    ASSUME NEW d \in Seq(Nat), NEW r \in Seq(Nat), NEW n \in Nat, d \o r = UpTo(n)
    PROVE  d = UpTo(Len(d))
<1> DEFINE u == UpTo(Len(d))
           v == d \o r
<1>1. Len(d) \in Nat /\ Len(r) \in Nat
  OBVIOUS
<1>2. u \in Seq(Nat) /\ Len(u) = Len(d) /\ \A i \in 1 .. Len(d) : u[i] = i
  BY <1>1, SMTT(20) DEF UpTo
<1>3. /\ Len(v) = Len(d) + Len(r)
      /\ \A i \in 1 .. Len(d) + Len(r) : v[i] = IF i <= Len(d) THEN d[i] ELSE r[i - Len(d)]
  BY ConcatProperties, Zenon
<1>4. Len(v) = n /\ \A i \in 1 .. n : v[i] = i
  BY SMTT(20) DEF UpTo
<1> HIDE DEF u, v
<1>5. ASSUME NEW i \in 1 .. Len(d) PROVE d[i] = u[i]
  <2>1. i \in 1 .. Len(d) + Len(r) /\ i <= Len(d) /\ i \in 1 .. n
    BY <1>1, <1>3, <1>4
  <2> QED
    BY <1>2, <1>3, <1>4, <2>1, Zenon
<1>6. d = u
  BY <1>2, <1>5, SeqEqual, Zenon
<1> QED
  BY <1>6, Zenon DEF u

\* Nobody else can have the mutex.
LEMMA NeverPending ==
    ASSUME IInv, NumberInv, NEW x, Conn = {x}
    PROVE  ~LockPending(x)
BY DEF IInv, TypeOK, LockType, LockPending, NumberInv, Queued

\* So nobody comes to wait.
LEMMA NobodyWaits ==
    ASSUME IInv, NumberInv, NEW x, Conn = {x}, [Next]_vars
    PROVE  queue' = << >>
<1>1. ~LockPending(x) /\ queue = << >> /\ ~Queued(x)
  BY NeverPending DEF NumberInv, Queued
<1>2. Unlock \/ LockReady(x) \/ LockDrop(x) \/ UNCHANGED lockVars => queue' = << >>
  BY <1>1, Zenon DEF Unlock, LockReady, LockDrop, lockVars
<1>3. Application(x) => queue' = << >>
  BY <1>2, Zenon DEF Application, AddConnection, Accept, WriteCall, FlushCall, ShutdownCall,
     DropShutdown, DropWriting
<1>4. Proceed(x) => queue' = << >>
  BY <1>1, <1>2, Zenon DEF Proceed, SendError, WriteBuffering, WriteLock, WriteLockPending,
     WriteFlushing, WriteFlushed, WriteReturn, FlushLock, FlushLockPending, FlushReturn,
     ShutdownLock, ShutdownLockPending, ShutdownFlushed, ShutdownReturn, HandshakeLock,
     HandshakeReturn, DropLock, DropRestSent, DropEnd
<1>5. SendByte(x) \/ SendPending(x) \/ HandshakeAbort(x) \/ Break => queue' = << >>
  BY <1>1, <1>2, Zenon DEF SendByte, SendPending, HandshakeAbort, Break
<1>6. UNCHANGED vars => queue' = << >>
  BY <1>1, Zenon DEF vars
<1> QED
  BY <1>3, <1>4, <1>5, <1>6, Zenon DEF Next

\* A step that moves nothing, and loses none of poll_write's count.
LEMMA NumberKept ==
    ASSUME IInv, NumberInv, NEW x, Conn = {x}, [Next]_vars, UNCHANGED <<delivered, pushed>>,
           ~broken' => ~broken /\ accepted'[x] + wrote'[x] = accepted[x] + wrote[x],
           pc'[x] \notin {"write", "writeFlush"} => wrote'[x] = 0
    PROVE  NumberInv'
<1>1. Numbered(x)
  BY Zenon DEF NumberInv
<1>2. Numbered(x)'
  BY <1>1, Zenon DEF Numbered
<1> QED
  BY <1>2, NobodyWaits, Zenon DEF NumberInv

\* The steps that neither push nor send.
LEMMA NumberQuietStep ==
    ASSUME IInv, NumberInv, NEW x, Conn = {x}, [Next]_vars,
           ~SendByte(x), ~WriteBuffering(x), ~WriteFlushing(x)
    PROVE  NumberInv'
<1>0. /\ pc \in [Conn -> Calls] /\ left \in [Conn -> Nat] /\ wrote \in [Conn -> Nat]
      /\ accepted \in [Conn -> Nat] /\ x \in Conn
  BY DEF IInv, TypeOK, CallType, HistType
<1>1. pc[x] \notin {"write", "writeFlush"} => wrote[x] = 0
  BY <1>0, Zenon DEF NumberInv, Numbered
<1>2. CASE UNCHANGED <<pc, wrote, accepted, pushed, delivered>> /\ (~broken' => ~broken)
  BY <1>1, <1>2, NumberKept, Zenon
<1>3. ASSUME UNCHANGED <<accepted, pushed, delivered, broken, wrote>>, pc[x] = "idle",
             NEW q \in Calls, pc' = [pc EXCEPT ![x] = q]
      PROVE  NumberInv'
  BY <1>0, <1>1, <1>3, NumberKept, Zenon
<1>4. ASSUME UNCHANGED <<accepted, pushed, delivered, broken, wrote>>,
             NEW q \in {"write", "writeFlush"}, pc' = [pc EXCEPT ![x] = q]
      PROVE  NumberInv'
  BY <1>0, <1>4, NumberKept, Zenon
<1>5. ASSUME UNCHANGED <<accepted, pushed, delivered>>, Return(x),
             (pc[x] \in {"flush", "shutdown"} /\ broken' = broken) \/ broken'
      PROVE  NumberInv'
  <2>1. wrote'[x] = 0
    BY <1>0, <1>5, Zenon DEF Return
  <2> QED
    BY <1>0, <1>1, <1>5, <2>1, NumberKept
<1>6. ASSUME UNCHANGED <<pushed, delivered, broken>>, Return(x),
             accepted' = [accepted EXCEPT ![x] = @ + wrote[x]]
      PROVE  NumberInv'
  <2>1. wrote'[x] = 0 /\ accepted'[x] = accepted[x] + wrote[x]
    BY <1>0, <1>6, Zenon DEF Return
  <2>2. accepted'[x] + wrote'[x] = accepted[x] + wrote[x]
    BY <1>0, <2>1
  <2> QED
    BY <1>6, <2>1, <2>2, NumberKept, Zenon
<1>7. ~LockPending(x)
  BY NeverPending, Zenon
<1>8. CASE Application(x)
  <2>1. CASE AddConnection(x) \/ Accept(x) \/ DropShutdown(x) \/ DropWriting(x)
    BY <1>2, <2>1, Zenon DEF AddConnection, Accept, DropShutdown, DropWriting, callVars, histVars, rxVars
  <2>2. CASE \E n \in 1 .. MaxChunk : WriteCall(x, n)
    BY <1>3, <2>2, Zenon DEF WriteCall, histVars, rxVars, Calls
  <2>3. CASE FlushCall(x) \/ ShutdownCall(x)
    <3>1. /\ UNCHANGED <<accepted, pushed, delivered, broken, wrote>> /\ pc[x] = "idle"
          /\ \E q \in Calls : pc' = [pc EXCEPT ![x] = q]
      BY <2>3, Zenon DEF FlushCall, ShutdownCall, Goto, histVars, rxVars, Calls
    <3> QED
      BY <1>3, <3>1, Zenon
  <2> QED
    BY <1>8, <2>1, <2>2, <2>3, Zenon DEF Application
<1>9. CASE Proceed(x)
  <2>1. CASE SendError(x)
    BY <1>5, <2>1, Zenon DEF SendError, histVars, rxVars
  <2>2. CASE WriteLock(x) \/ WriteFlushed(x)
    BY <1>4, <2>2, Zenon DEF WriteLock, WriteFlushed, Goto, histVars, rxVars
  <2>3. CASE WriteReturn(x)
    BY <1>6, <2>3, Zenon DEF WriteReturn, rxVars
  <2>4. CASE FlushReturn(x) \/ ShutdownReturn(x)
    BY <1>5, <2>4, Zenon DEF FlushReturn, ShutdownReturn, histVars, rxVars
  <2>5. CASE \/ FlushLock(x) \/ ShutdownLock(x) \/ ShutdownFlushed(x) \/ HandshakeLock(x)
             \/ HandshakeReturn(x) \/ DropLock(x) \/ DropRestSent(x) \/ DropEnd(x)
    BY <1>2, <2>5, Zenon DEF FlushLock, ShutdownLock, ShutdownFlushed, HandshakeLock,
       HandshakeReturn, DropLock, DropRestSent, DropEnd, callVars, histVars, rxVars
  <2>6. ~(WriteLockPending(x) \/ FlushLockPending(x) \/ ShutdownLockPending(x))
    BY <1>7, Zenon DEF WriteLockPending, FlushLockPending, ShutdownLockPending
  <2> QED
    BY <1>9, <2>1, <2>2, <2>3, <2>4, <2>5, <2>6, Zenon DEF Proceed
<1>10. CASE SendPending(x)
  BY <1>6, <1>10, Zenon DEF SendPending, rxVars
<1>11. CASE HandshakeAbort(x) \/ UNCHANGED vars \/ Break
  BY <1>2, <1>11 DEF HandshakeAbort, Break, vars, callVars, histVars, rxVars
<1>12. Next => \/ Application(x) \/ Proceed(x) \/ SendPending(x) \/ HandshakeAbort(x) \/ Break
  BY Zenon DEF Next
<1> QED
  BY <1>8, <1>9, <1>10, <1>11, <1>12, Zenon

\* poll_write pushes the bytes after those it has taken.
LEMMA NumberPushStep ==
    ASSUME IInv, NumberInv, NEW x, Conn = {x}, [Next]_vars,
           WriteBuffering(x) \/ WriteFlushing(x)
    PROVE  NumberInv'
<1>0. /\ wrote \in [Conn -> Nat] /\ accepted \in [Conn -> Nat] /\ x \in Conn
      /\ pc \in [Conn -> Calls] /\ left[x] \in Nat /\ buffer[x] \in Seq(Nat)
      /\ pushed \in [Conn -> Seq(Nat)] /\ written[x] \in Nat
  BY Zenon DEF IInv, TypeOK, CallType, HistType, ConnType
<1>1. /\ UNCHANGED <<delivered, broken, accepted>>
      /\ pc'[x] \in {"write", "writeFlush"}
      /\ (\E w \in Nat : Push(x, w)) \/ UNCHANGED <<pushed, wrote>>
  BY <1>0, Zenon DEF WriteBuffering, WriteFlushing, rxVars
<1>2. CASE UNCHANGED <<pushed, wrote>>
  BY <1>1, <1>2, NumberKept, Zenon
<1>3. CASE \E w \in Nat : Push(x, w)
  <2>1. PICK w \in Nat : Push(x, w)
    BY <1>3, Zenon
  <2> DEFINE k    == push_len(buffer[x], w, left[x])
             from == accepted[x] + wrote[x]
  <2>2. k \in Nat
    <3>1. Len(buffer[x]) <= PACKET_SIZE
      BY <1>0, Zenon DEF IInv, CallInv, InPacket
    <3>2. k \in 0 .. left[x]
      BY <1>0, <3>1, PushLen, Zenon
    <3> HIDE DEF k
    <3> QED
      BY <1>0, <3>2
  <2>3. /\ pushed' = [pushed EXCEPT ![x] = @ \o [i \in 1 .. k |-> from + i]]
        /\ wrote' = [wrote EXCEPT ![x] = @ + k]
    BY <2>1, Zenon DEF Push
  <2> HIDE DEF k
  <2>4. from \in Nat /\ wrote'[x] = wrote[x] + k /\ accepted'[x] + wrote'[x] = from + k
    BY <1>0, <1>1, <2>2, <2>3
  <2> HIDE DEF from
  <2>5. pushed'[x] = pushed[x] \o [i \in 1 .. k |-> from + i]
    BY <1>0, <2>3, Zenon
  <2>6. Numbered(x)
    BY <1>0, Zenon DEF NumberInv
  <2>7. ~broken => pushed[x] = UpTo(from)
    BY <2>6, Zenon DEF Numbered, from
  <2>8. UpTo(from) \o [i \in 1 .. k |-> from + i] = UpTo(from + k)
    BY <2>2, <2>4, UpToPush, Zenon
  <2>9. ~broken' => pushed'[x] = UpTo(accepted'[x] + wrote'[x])
    BY <1>1, <2>4, <2>5, <2>7, <2>8, Zenon
  <2>10. delivered'[x] = UpTo(Len(delivered'[x]))
    BY <1>1, <2>6, Zenon DEF Numbered
  <2>11. Numbered(x)'
    BY <1>1, <2>9, <2>10, Zenon DEF Numbered
  <2> QED
    BY <2>11, NobodyWaits, Zenon DEF NumberInv
<1> QED
  BY <1>1, <1>2, <1>3, Zenon

\* A byte goes out: what has arrived stays the beginning of what was pushed.
LEMMA NumberSendStep ==
    ASSUME IInv, IInv', StreamInv', NumberInv, NEW x, Conn = {x}, [Next]_vars, SendByte(x)
    PROVE  NumberInv'
<1>0. /\ x \in Conn /\ written[x] \in Nat /\ HeaderSize \in Nat /\ wrote[x] \in Nat
      /\ accepted[x] \in Nat
  BY StreamTypes, Zenon DEF IInv, TypeOK, CallType, HistType
<1>1. UNCHANGED <<accepted, pushed, broken, wrote, pc, state, buffer>> /\ ~broken
  BY Zenon DEF SendByte, histVars, callVars
<1>2. Numbered(x)
  BY <1>0, Zenon DEF NumberInv
<1>3. CASE delivered' = delivered
  BY <1>1, <1>2, <1>3, NumberKept, Zenon DEF Numbered
<1>4. CASE delivered' # delivered
  <2>1. written[x] >= HeaderSize
    <3> SUFFICES ASSUME written[x] < HeaderSize PROVE delivered' = delivered
      BY <1>0, <1>4
    <3>1. AddrSize \in Nat /\ HeaderSize = AddrSize + 2
      BY AddrSizeAssumption, Zenon DEF HeaderSize
    <3>2. RxAt(x) /\ Receive(ByteAt(x, buffer[x], written[x] + 1))
      BY <1>0, SendingHoldsGuard, Zenon DEF SendByte
    <3>3. written[x] < AddrSize \/ written[x] = AddrSize \/ written[x] = AddrSize + 1
      BY <1>0, <3>1
    <3> QED
      BY <1>0, <3>2, <3>3, SendAddr, SendHigh, SendLow, Zenon
  <2>2. state'[x] \in FrameStates
    BY <1>0, <1>1, <2>1, PayloadFacts, Zenon
  <2>3. pushed'[x] = delivered'[x] \o Unsent(x)'
    <3>1. HoldsPacket(x)'
      BY <2>2, Zenon DEF HoldsPacket, FrameStates, WritingStates, ShutdownStates
    <3> QED
      BY <1>0, <1>1, <3>1, Zenon DEF StreamInv, InStream
  <2>4. Unsent(x)' \in Seq(Nat)
    <3>1. buffer'[x] \in Seq(Nat) /\ written'[x] \in Nat
      BY <1>0, Zenon DEF IInv, TypeOK, ConnType
    <3>2. SentPayload(x)' \in Nat
      BY <1>0, <3>1 DEF SentPayload
    <3>3. \A i \in (SentPayload(x)' + 1) .. Len(buffer'[x]) : buffer'[x][i] \in Nat
      BY <3>1, <3>2
    <3>4. Unsent(x)' = SubSeq(buffer'[x], SentPayload(x)' + 1, Len(buffer'[x]))
      BY Zenon DEF Unsent
    <3> QED
      BY <3>1, <3>2, <3>3, <3>4, SubSeqProperties
  <2>5. delivered'[x] \in Seq(Nat)
    BY <1>0, Zenon DEF IInv, TypeOK, RxType
  <2>6. pushed'[x] = UpTo(accepted[x] + wrote[x]) /\ accepted[x] + wrote[x] \in Nat
    BY <1>0, <1>1, <1>2 DEF Numbered
  <2>7. delivered'[x] = UpTo(Len(delivered'[x]))
    BY <2>3, <2>4, <2>5, <2>6, UpToPrefix, Zenon
  <2>8. Numbered(x)'
    BY <1>1, <1>2, <2>7, Zenon DEF Numbered
  <2> QED
    BY <2>8, NobodyWaits, Zenon DEF NumberInv
<1> QED
  BY <1>3, <1>4, Zenon

\* With one connection nobody waits for the mutex, and what poll_write has pushed is,
\* byte for byte, what it has reported or is about to report.
THEOREM NumberInductive ==
    ASSUME ~DropDuringShutdown, ~CancelHandshake, NEW CONSTANT x, Conn = {x}
    PROVE  Spec => []NumberInv
<1>1. Init => NumberInv
  <2> SUFFICES ASSUME Init, NEW c \in Conn PROVE Numbered(c) /\ queue = << >>
    BY Zenon DEF NumberInv, Init, LockInit
  <2>1. /\ delivered[c] = << >> /\ pushed[c] = << >> /\ wrote[c] = 0 /\ accepted[c] = 0
        /\ queue = << >>
    BY Zenon DEF Init, RxInit, LockInit
  <2>2. UpTo(0) = << >>
    BY DEF UpTo
  <2> QED
    BY <2>1, <2>2 DEF Numbered
<1>2. IInv /\ IInv' /\ StreamInv' /\ NumberInv /\ [Next]_vars => NumberInv'
  BY NumberQuietStep, NumberPushStep, NumberSendStep, Zenon
<1> QED
  BY <1>1, <1>2, Inductive, StreamInductive, PTL DEF Spec

\* On a TCP stream that a connection has to itself, the n-th byte delivered is the n-th
\* byte the application wrote: poll_write reports every byte it has pushed, since the
\* one return that does not (the mutex is taken) cannot happen.
THEOREM NumberedAlone ==
    ASSUME ~DropDuringShutdown, ~CancelHandshake, NEW CONSTANT x, Conn = {x}
    PROVE  Spec => []DeliveredMatchesSent
<1>1. NumberInv => DeliveredMatchesSent
  BY Zenon DEF NumberInv, Numbered, DeliveredMatchesSent, UpTo
<1>2. Spec => []NumberInv
  BY NumberInductive
<1> QED
  BY <1>1, <1>2, PTL

=============================================================================
