------------------------- MODULE SharedReaderProofs -------------------------
(***************************************************************************)
(* No wake-up is lost, for any number of connections, any buffer, frame    *)
(* and header size, any length of the accept channel and whatever else may *)
(* happen: proofs about SharedReader.                                      *)
(***************************************************************************)
EXTENDS SharedReader, SequenceTheorems, TLAPS

(***************************************************************************)
(* The step of a task, as the wake-ups see it.                             *)
(***************************************************************************)

\* The tasks of S are woken, nobody starts to wait unwoken, and nobody is newly
\* stopped by a full buffer.
Wakes(S) ==
    /\ \A x \in Task : pc'[x] # "idle" /\ x \notin woken' =>
           pc[x] # "idle" /\ x \notin woken /\ x \notin S
    /\ \A x \in Task : blockedOn'[x] # None =>
           blockedOn'[x] = blockedOn[x] /\ pc'[x] = pc[x]

\* The holder of the shared lock is not waiting, and nothing stopped it.
LEMMA HolderPolls ==
    ASSUME WakeInv, NEW t \in Task, lock = t
    PROVE  pc[t] = "poll" /\ blockedOn[t] = None
BY Zenon DEF WakeInv, Typed, TaskType, RoomHooked

\* Returning Pending wakes S and gives the shared lock back.
LEMMA PendingWakes ==
    ASSUME WakeInv, NEW t \in Task, lock = t, NEW S, Pending(t, S)
    PROVE  TaskType' /\ Wakes(S)
<1> USE EntryAssumption DEF Task, Acceptor
<1>1. pc[t] = "poll" /\ blockedOn[t] = None
  BY HolderPolls
<1>2. TaskType'
  BY <1>1, Zenon DEF WakeInv, Typed, TaskType, Pending, Woke
<1>3. Wakes(S)
  BY <1>1 DEF WakeInv, Typed, TaskType, Pending, Woke, Wakes
<1> QED
  BY <1>2, <1>3, Zenon

\* A round that is over wakes S, whether or not the task yields.
LEMMA LoopWakes ==
    ASSUME WakeInv, NEW t \in Task, lock = t, NEW S, Loop(t, S)
    PROVE  TaskType' /\ Wakes(S)
<1>1. CASE "yield" \in May /\ Pending(t, S \cup {t})
  <2>1. TaskType' /\ Wakes(S \cup {t})
    BY <1>1, PendingWakes
  <2> QED
    BY <2>1 DEF Wakes
<1>2. CASE UNCHANGED <<lock, pc, blockedOn>> /\ woken' = Woke(S)
  BY <1>2 DEF WakeInv, Typed, TaskType, Woke, Wakes
<1> QED
  BY <1>1, <1>2 DEF Loop

\* The end of a call wakes S; t itself is idle then.
LEMMA ReturnWakes ==
    ASSUME WakeInv, NEW t \in Task, NEW S, Return(t, S),
           (lock' = lock /\ lock # t) \/ (lock' = None /\ lock = t)
    PROVE  TaskType' /\ Wakes(S) /\ pc'[t] = "idle"
<1> USE EntryAssumption DEF Task, Acceptor
<1>1. pc' \in [Task -> {"idle", "wait", "shared", "poll"}] /\ pc'[t] = "idle"
      /\ \A x \in Task \ {t} : pc'[x] = pc[x]
  BY Zenon DEF WakeInv, Typed, TaskType, Return
<1>2. blockedOn' \in [Task -> Entry \cup {None}] /\ blockedOn'[t] = None
      /\ \A x \in Task \ {t} : blockedOn'[x] = blockedOn[x]
  BY DEF WakeInv, Typed, TaskType, Return
<1>3. TaskType'
  <2>1. lock' \in Task \cup {None} /\ \A x \in Task : pc'[x] = "poll" <=> lock' = x
    BY <1>1 DEF WakeInv, Typed, TaskType
  <2>2. woken' \subseteq {x \in Task : pc'[x] # "idle"}
    BY <1>1, Zenon DEF WakeInv, Typed, TaskType, Return, Woke
  <2> QED
    BY <1>1, <1>2, <2>1, <2>2 DEF TaskType
<1>4. Wakes(S)
  BY <1>1, <1>2, Zenon DEF WakeInv, Typed, TaskType, Return, Woke, Wakes
<1> QED
  BY <1>1, <1>3, <1>4

\* A step that wakes nobody and leaves the tasks alone.
LEMMA SameTasks ==
    ASSUME WakeInv, UNCHANGED taskVars
    PROVE  TaskType' /\ Wakes({})
BY DEF WakeInv, Typed, TaskType, taskVars, Wakes

-----------------------------------------------------------------------------
(***************************************************************************)
(* What keeps the invariant.                                               *)
(***************************************************************************)

\* Whoever fills a buffer wakes the waker in its entry.
LEMMA ReaderKept ==
    ASSUME WakeInv, NEW S, Wakes(S), UNCHANGED reader_pipe_waker,
           \A e \in Entry : buffer'[e] = buffer[e] \/ reader_pipe_waker[e] \in S \/ pc'[e] = "idle"
    PROVE  ReaderHooked'
BY DEF WakeInv, ReaderHooked, Wakes, Task

\* Whoever makes room wakes the waker that waits for it, and only a task that
\* nothing has stopped takes that waker's place.
LEMMA RoomKept ==
    ASSUME WakeInv, NEW S, Wakes(S), TaskType',
           \A e \in Entry : waiting_waker'[e] = waiting_waker[e]
                            \/ (waiting_waker'[e] \in Task /\ blockedOn[waiting_waker'[e]] = None),
           \A e \in Entry : room[e] = 0 => room'[e] = 0 \/ waiting_waker[e] \in S
    PROVE  RoomHooked'
<1> SUFFICES ASSUME NEW t \in Task, blockedOn'[t] # None
             PROVE  /\ pc'[t] = "wait"
                    /\ waiting_waker'[blockedOn'[t]] = t /\ t \notin woken'
                          => room'[blockedOn'[t]] = 0
  BY Zenon DEF RoomHooked
<1>1. blockedOn'[t] = blockedOn[t] /\ pc'[t] = pc[t] /\ pc[t] = "wait"
  BY DEF WakeInv, RoomHooked, Wakes
<1>2. blockedOn[t] \in Entry
  BY <1>1, Zenon DEF WakeInv, Typed, TaskType
<1> QED
  BY <1>1, <1>2 DEF WakeInv, RoomHooked, Wakes

\* A step that leaves the channel alone.
LEMMA AcceptKept ==
    ASSUME WakeInv, NEW S, Wakes(S), UNCHANGED <<queue, listening>>,
           receiving' = receiving \/ pc'[Acceptor] = "idle",
           SendHooked' => SendHooked
    PROVE  AcceptHooked'
BY Zenon DEF WakeInv, AcceptHooked, Wakes, Task

\* A step that leaves entries, wakers and channel as they are, but may end the
\* accept's call, which unhooks it.
LEMMA QuietStep ==
    ASSUME WakeInv, NEW S, Wakes(S), TaskType', SockType', state' \in SharedReaderState,
           socket_map' \in [Addr -> Entry \cup {None}],
           UNCHANGED <<life, buffer, room, wakerVars, sendWaker, queue, listening>>,
           UNCHANGED <<peer, sent>>, eos' \subseteq Entry,
           receiving' \in BOOLEAN, receiving' = receiving \/ pc'[Acceptor] = "idle",
           SendHooked' => SendHooked
    PROVE  WakeInv'
<1>1. UNCHANGED <<reader_pipe_waker, waiting_waker>>
  BY DEF wakerVars
<1>2. EntryType'
  BY Zenon DEF WakeInv, Typed, EntryType
<1>3. WakerType' /\ ChanType' /\ PeerType'
  BY <1>1, Zenon DEF WakeInv, Typed, WakerType, ChanType, PeerType
<1>4. ReaderHooked'
  BY <1>1, ReaderKept, Zenon
<1>5. RoomHooked'
  BY <1>1, RoomKept, Zenon
<1>6. AcceptHooked'
  BY AcceptKept
<1> QED
  BY <1>2, <1>3, <1>4, <1>5, <1>6 DEF WakeInv, Typed

-----------------------------------------------------------------------------
(***************************************************************************)
(* Frames in the socket and the state of the parser keep their types.      *)
(***************************************************************************)

\* What each state of the parser carries.
LEMMA StateFields ==
    ASSUME state \in SharedReaderState
    PROVE  /\ state.tag = "NextPacket" =>
                 state \in [tag : {"NextPacket"}, filled : 0 .. HeaderSize - 1]
           /\ state.tag = "Read" => state \in [tag : {"Read"}, owner : Addr, left : 1 .. MaxFrame]
           /\ state.tag = "SendSocket" =>
                 state \in [tag : {"SendSocket"}, e : Entry, hooked : BOOLEAN]
           /\ state.tag = "Removing" =>
                 state \in [tag : {"Removing"}, e : Entry, waker : Task \cup {None}]
BY DEF SharedReaderState

\* The parser starts a header.
LEMMA NextPacketType == next_packet \in SharedReaderState /\ next_packet.tag = "NextPacket"
BY SizeAssumption DEF next_packet, SharedReaderState

\* What is left of a sequence when n elements are taken from its front.
LEMMA RestOf ==
    ASSUME NEW T, NEW q \in Seq(T), NEW n \in 1 .. Len(q)
    PROVE  /\ SubSeq(q, n + 1, Len(q)) \in Seq(T)
           /\ Len(SubSeq(q, n + 1, Len(q))) = Len(q) - n
<1>1. \A i \in (n + 1) .. Len(q) : q[i] \in T
  OBVIOUS
<1> QED
  BY <1>1, SubSeqProperties

\* A read takes units from the front of the socket.
LEMMA TookType ==
    ASSUME SockType, NEW n \in Nat, NEW max \in Nat, Took(n, max), UNCHANGED <<transit, setting>>
    PROVE  SockType' /\ n <= Len(inbox) /\ n <= max /\ n > 0
<1>1. n \in 1 .. Len(inbox) /\ n <= max
  BY DEF Took, Least, SockType
<1>2. SubSeq(inbox, n + 1, Len(inbox)) \in Seq(Unit)
  BY <1>1, RestOf DEF SockType
<1> QED
  BY <1>1, <1>2 DEF Took, SockType

\* A header that is complete names a session and its address.
LEMMA HeaderType ==
    ASSUME WakeInv, NEW t \in Task, HeaderFull(t), UNCHANGED <<transit, setting>>
    PROVE  /\ lock = t /\ state.tag = "NextPacket"
           /\ SockType' /\ header \in Unit /\ addr \in Addr
<1>1. state \in [tag : {"NextPacket"}, filled : 0 .. HeaderSize - 1]
  BY StateFields, Zenon DEF WakeInv, Typed, HeaderFull, Polling
<1>2. HeaderSize - state.filled \in Nat
  BY <1>1, SizeAssumption
<1>3. SockType' /\ HeaderSize - state.filled <= Len(inbox) /\ HeaderSize - state.filled > 0
  BY <1>2, TookType, Zenon DEF WakeInv, Typed, HeaderFull
<1>4. inbox \in Seq(Unit) /\ inbox # << >>
  BY <1>2, <1>3 DEF WakeInv, Typed, SockType
<1>5. header \in Unit
  BY <1>4 DEF header
<1>6. setting.addrOf \in [Entry -> Addr]
  BY SettingAssumption, Zenon DEF WakeInv, Typed, SockType
<1>7. addr \in Addr
  BY <1>5, <1>6, Zenon DEF addr, AddrOf, Unit
<1> QED
  BY <1>3, <1>5, <1>7 DEF HeaderFull, Polling

\* A socket that answers Pending keeps its units.
LEMMA SocketPendingType ==
    ASSUME WakeInv, NEW t \in Task, SocketPending(t), UNCHANGED <<transit, setting>>
    PROVE  SockType' /\ Pending(t, {})
BY Zenon DEF WakeInv, Typed, SockType, SocketPending

-----------------------------------------------------------------------------
(***************************************************************************)
(* The rounds of ReaderMut::poll that only parse.                          *)
(***************************************************************************)

\* A round of the parser: the socket and its own state change, tasks are woken.
LEMMA ParseStep ==
    ASSUME WakeInv, NEW S, Wakes(S), TaskType', SockType', state' \in SharedReaderState,
           state'.tag # "SendSocket", socket_map' \in [Addr -> Entry \cup {None}],
           UNCHANGED <<entryVars, wakerVars, chanVars, outsideVars>>
    PROVE  WakeInv'
<1>1. UNCHANGED <<life, buffer, room, sendWaker, queue, listening, receiving, peer, sent, eos>>
  BY Zenon DEF entryVars, chanVars, outsideVars, peerVars, appVars
<1>2. ~SendHooked'
  BY Zenon DEF SendHooked
<1>3. receiving' \in BOOLEAN /\ eos' \subseteq Entry
  BY <1>1 DEF WakeInv, Typed, ChanType, PeerType
<1> QED
  BY <1>1, <1>2, <1>3, QuietStep, Zenon

\* The socket is empty, before a header or inside a payload.
LEMMA SocketPendingStep ==
    ASSUME WakeInv, NEW t \in Task, HeaderPending(t) \/ ReadPending(t)
    PROVE  WakeInv'
<1>1. /\ SocketPending(t) /\ lock = t /\ state.tag \in {"NextPacket", "Read"}
      /\ UNCHANGED <<socket_map, entryVars, wakerVars, state, chanVars, outsideVars>>
  BY Zenon DEF HeaderPending, ReadPending, Polling
<1>2. SockType' /\ Pending(t, {})
  BY <1>1, SocketPendingType, Zenon DEF outsideVars, peerVars
<1>3. TaskType' /\ Wakes({})
  BY <1>1, <1>2, PendingWakes
<1>4. state' \in SharedReaderState /\ socket_map' \in [Addr -> Entry \cup {None}]
  BY <1>1, Zenon DEF WakeInv, Typed, EntryType
<1> QED
  BY <1>1, <1>2, <1>3, <1>4, ParseStep, Zenon

\* A part of a header is read.
LEMMA HeaderPartStep ==
    ASSUME WakeInv, NEW t \in Task, HeaderPart(t)
    PROVE  WakeInv'
<1>1. /\ lock = t /\ state.tag = "NextPacket" /\ Pending(t, {})
      /\ UNCHANGED <<socket_map, entryVars, wakerVars, chanVars, outsideVars>>
  BY DEF HeaderPart, Polling
<1>2. state \in [tag : {"NextPacket"}, filled : 0 .. HeaderSize - 1]
  BY <1>1, StateFields, Zenon DEF WakeInv, Typed
<1>3. PICK n \in 1 .. HeaderSize : /\ Took(n, HeaderSize - state.filled)
                                   /\ state.filled + n < HeaderSize
                                   /\ state' = [state EXCEPT !.filled = @ + n]
  BY DEF HeaderPart
<1>4. state' \in SharedReaderState /\ state'.tag # "SendSocket"
  <2>1. state' \in [tag : {"NextPacket"}, filled : 0 .. HeaderSize - 1]
    BY <1>2, <1>3, SizeAssumption
  <2> QED
    BY <2>1, Zenon DEF SharedReaderState
<1>5. SockType'
  <2>1. n \in Nat /\ HeaderSize - state.filled \in Nat
    BY <1>2, SizeAssumption
  <2> QED
    BY <1>1, <1>3, <2>1, TookType DEF WakeInv, Typed, outsideVars, peerVars
<1>6. TaskType' /\ Wakes({})
  BY <1>1, PendingWakes, Zenon
<1>7. socket_map' \in [Addr -> Entry \cup {None}]
  BY <1>1, Zenon DEF WakeInv, Typed, EntryType
<1> QED
  BY <1>1, <1>4, <1>5, <1>6, <1>7, ParseStep, Zenon

\* The header of a frame with payload.
LEMMA HeaderDataStep ==
    ASSUME WakeInv, NEW t \in Task, HeaderData(t)
    PROVE  WakeInv'
<1>1. /\ HeaderFull(t) /\ header.len > 0 /\ Loop(t, {})
      /\ state' = [tag |-> "Read", owner |-> addr, left |-> header.len]
      /\ UNCHANGED <<socket_map, entryVars, wakerVars, chanVars, outsideVars>>
  BY Zenon DEF HeaderData
<1>2. lock = t /\ SockType' /\ header \in Unit /\ addr \in Addr
  BY <1>1, HeaderType, Zenon DEF outsideVars, peerVars
<1>3. header.len \in 1 .. MaxFrame
  BY <1>1, <1>2, SizeAssumption DEF Unit
<1>4. state' \in SharedReaderState /\ state'.tag # "SendSocket"
  BY <1>1, <1>2, <1>3, Zenon DEF SharedReaderState
<1>5. TaskType' /\ Wakes({})
  BY <1>1, <1>2, LoopWakes, Zenon
<1>6. socket_map' \in [Addr -> Entry \cup {None}]
  BY <1>1, Zenon DEF WakeInv, Typed, EntryType
<1> QED
  BY <1>1, <1>2, <1>4, <1>5, <1>6, ParseStep, Zenon

\* A closing frame takes the entry out of the map.
LEMMA HeaderCloseStep ==
    ASSUME WakeInv, NEW t \in Task, HeaderClose(t)
    PROVE  WakeInv'
<1> DEFINE e == socket_map[addr]
<1>1. /\ HeaderFull(t) /\ e # None
      /\ socket_map' = [socket_map EXCEPT ![addr] = None]
      /\ UNCHANGED <<entryVars, wakerVars, chanVars, outsideVars>>
  BY Zenon DEF HeaderClose
<1>2. lock = t /\ SockType' /\ addr \in Addr
  BY <1>1, HeaderType, Zenon DEF outsideVars, peerVars
<1>3. e \in Entry /\ socket_map' \in [Addr -> Entry \cup {None}]
  BY <1>1, <1>2, Zenon DEF WakeInv, Typed, EntryType
<1>4. CASE /\ state' = [tag |-> "Removing", e |-> e, waker |-> reader_pipe_waker[e]]
           /\ UNCHANGED taskVars
  <2>1. reader_pipe_waker[e] \in Task \cup {None}
    BY <1>3, Zenon DEF WakeInv, Typed, WakerType
  <2>2. state' \in SharedReaderState /\ state'.tag # "SendSocket"
    BY <1>3, <1>4, <2>1, Zenon DEF SharedReaderState
  <2>3. TaskType' /\ Wakes({})
    BY <1>4, SameTasks, Zenon
  <2> QED
    BY <1>1, <1>2, <1>3, <2>2, <2>3, ParseStep, Zenon
<1>5. CASE state' = next_packet /\ Loop(t, {})
  <2>1. TaskType' /\ Wakes({})
    BY <1>2, <1>5, LoopWakes
  <2> QED
    BY <1>1, <1>2, <1>3, <1>5, <2>1, ParseStep, NextPacketType, Zenon
<1> QED
  BY <1>4, <1>5, Zenon DEF HeaderClose

\* remove has dropped the Weak and calls the waker it copied.
LEMMA RemoveStep ==
    ASSUME WakeInv, NEW t \in Task, Remove(t)
    PROVE  WakeInv'
<1>1. /\ lock = t /\ state' = next_packet /\ Loop(t, {state.waker})
      /\ UNCHANGED <<sockVars, socket_map, entryVars, wakerVars, chanVars, outsideVars>>
  BY Zenon DEF Remove, Polling
<1>2. SockType' /\ socket_map' \in [Addr -> Entry \cup {None}]
  BY <1>1, Zenon DEF WakeInv, Typed, SockType, EntryType, sockVars, outsideVars, peerVars
<1>3. TaskType' /\ Wakes({state.waker})
  BY <1>1, LoopWakes, Zenon
<1> QED
  BY <1>1, <1>2, <1>3, ParseStep, NextPacketType, Zenon

\* The parser goes on with the payload, or with the next header.
LEMMA AfterReadType ==
    ASSUME WakeInv, state.tag = "Read", NEW n \in 1 .. state.left
    PROVE  AfterRead(n) \in SharedReaderState /\ AfterRead(n).tag # "SendSocket"
<1>1. state \in [tag : {"Read"}, owner : Addr, left : 1 .. MaxFrame]
  BY StateFields DEF WakeInv, Typed
<1>2. CASE state.left = n
  BY <1>2, NextPacketType DEF AfterRead
<1>3. CASE state.left # n
  <2>1. state.left - n \in 1 .. MaxFrame
    BY <1>1, <1>3, SizeAssumption
  <2>2. [state EXCEPT !.left = @ - n] \in [tag : {"Read"}, owner : Addr, left : 1 .. MaxFrame]
    BY <1>1, <2>1
  <2> QED
    BY <1>3, <2>2, Zenon DEF AfterRead, SharedReaderState
<1> QED
  BY <1>2, <1>3

\* Payload that nobody reads is thrown away.
LEMMA ReadScratchStep ==
    ASSUME WakeInv, NEW t \in Task, ReadScratch(t)
    PROVE  WakeInv'
<1>1. /\ lock = t /\ state.tag = "Read" /\ Loop(t, {})
      /\ UNCHANGED <<socket_map, entryVars, wakerVars, chanVars, outsideVars>>
  BY DEF ReadScratch, Polling
<1>2. PICK n \in 1 .. state.left : Took(n, state.left) /\ state' = AfterRead(n)
  BY DEF ReadScratch
<1>3. state' \in SharedReaderState /\ state'.tag # "SendSocket"
  BY <1>1, <1>2, AfterReadType, Zenon
<1>4. SockType'
  <2>1. n \in Nat /\ state.left \in Nat
    BY <1>1, StateFields DEF WakeInv, Typed
  <2> QED
    BY <1>1, <1>2, <2>1, TookType, Zenon DEF WakeInv, Typed, outsideVars, peerVars
<1>5. TaskType' /\ Wakes({})
  BY <1>1, LoopWakes, Zenon
<1>6. socket_map' \in [Addr -> Entry \cup {None}]
  BY <1>1, Zenon DEF WakeInv, Typed, EntryType
<1> QED
  BY <1>1, <1>3, <1>4, <1>5, <1>6, ParseStep

\* A poll that ends in an error: the accept, if it made it, is unhooked.
LEMMA FailStep ==
    ASSUME WakeInv, NEW t \in Task,
           HeaderEof(t) \/ ReadEof(t) \/ ErrorPoll(t) \/ IoError(t)
    PROVE  WakeInv'
<1>1. /\ lock = t /\ state.tag \in {"NextPacket", "Read", "Error"}
      /\ \/ state' = state
         \/ state' = [tag |-> "Error"]
      /\ UNCHANGED <<sockVars, socket_map, entryVars, wakerVars, outsideVars>>
  BY Zenon DEF HeaderEof, ReadEof, ErrorPoll, IoError, Polling
<1>2. PICK S : Fail(t, S)
  BY Zenon DEF HeaderEof, ReadEof, ErrorPoll, IoError
<1>3. /\ lock' = None /\ Return(t, S) /\ UNCHANGED <<sendWaker, queue, listening>>
      /\ receiving' = (receiving /\ t # Acceptor)
  BY <1>2, Zenon DEF Fail
<1>4. TaskType' /\ Wakes(S) /\ pc'[t] = "idle"
  BY <1>1, <1>3, ReturnWakes, Zenon
<1>5. receiving' \in BOOLEAN /\ (receiving' = receiving \/ pc'[Acceptor] = "idle")
  <2>1. CASE t = Acceptor
    BY <1>3, <1>4, <2>1
  <2>2. CASE t # Acceptor
    BY <1>3, <2>2, Zenon DEF WakeInv, Typed, ChanType
  <2> QED
    BY <2>1, <2>2
<1>6. state' \in SharedReaderState /\ ~SendHooked'
  BY <1>1 DEF WakeInv, Typed, SharedReaderState, SendHooked
<1>7. SockType' /\ socket_map' \in [Addr -> Entry \cup {None}]
  BY <1>1, Zenon DEF WakeInv, Typed, SockType, EntryType, sockVars, outsideVars, peerVars
<1>8. UNCHANGED <<life, buffer, room, peer, sent>> /\ eos' \subseteq Entry
  BY <1>1, Zenon DEF WakeInv, Typed, PeerType, entryVars, outsideVars, peerVars, appVars
<1> QED
  BY <1>1, <1>3, <1>4, <1>5, <1>6, <1>7, <1>8, QuietStep, Zenon

-----------------------------------------------------------------------------
(***************************************************************************)
(* The rounds that fill a buffer, or find it full.                         *)
(***************************************************************************)

\* The live owner of the payload being read.
LEMMA OwnerType ==
    ASSUME WakeInv, state.tag = "Read", Live
    PROVE  owner \in Entry /\ state.left \in Nat
<1>1. state \in [tag : {"Read"}, owner : Addr, left : 1 .. MaxFrame]
  BY StateFields, Zenon DEF WakeInv, Typed
<1> QED
  BY <1>1 DEF WakeInv, Typed, EntryType, owner, Live

\* n units of payload are a sequence of bytes.
LEMMA PayloadType ==
    ASSUME SockType, NEW n \in Nat, n <= Len(inbox)
    PROVE  Payload(n) \in Seq(0 .. MaxSent) /\ Len(Payload(n)) = n
<1>1. \A i \in 1 .. n : inbox[i] \in Unit
  BY DEF SockType
<1>2. \A i \in 1 .. n : (IF inbox[i].s = owner THEN inbox[i].n ELSE 0) \in 0 .. MaxSent
  BY <1>1, SettingAssumption DEF Unit
<1> QED
  BY <1>2 DEF Payload

\* Payload goes into the owner's buffer, and the waker in its entry is called.
LEMMA ReadFillStep ==
    ASSUME WakeInv, NEW t \in Task, ReadFill(t)
    PROVE  WakeInv'
<1> DEFINE o == owner
<1>1. /\ lock = t /\ state.tag = "Read" /\ Live /\ room[o] > 0
      /\ Loop(t, {reader_pipe_waker[o]})
      /\ UNCHANGED <<socket_map, wakerVars, chanVars, outsideVars>>
  BY Zenon DEF ReadFill, Polling
<1>2. PICK n \in 1 .. state.left : Took(n, Least(state.left, room[o])) /\ Filled(n)
  BY Zenon DEF ReadFill
<1>3. o \in Entry /\ state.left \in Nat
  BY <1>1, OwnerType, Zenon
<1> HIDE DEF o
<1>4. room \in [Entry -> 0 .. Capacity] /\ buffer \in [Entry -> Seq(0 .. MaxSent)]
      /\ \A e \in Entry : Len(buffer[e]) + room[e] <= Capacity
  BY Zenon DEF WakeInv, Typed, EntryType
<1>5. SockType' /\ n <= Len(inbox) /\ n <= room[o]
  <2>1. Least(state.left, room[o]) \in Nat /\ Least(state.left, room[o]) <= room[o]
    BY <1>3, <1>4, SizeAssumption DEF Least
  <2>2. SockType' /\ n <= Len(inbox) /\ n <= Least(state.left, room[o])
    BY <1>1, <1>2, <2>1, TookType DEF WakeInv, Typed, outsideVars, peerVars
  <2> QED
    BY <1>3, <1>4, <2>1, <2>2
<1>6. Payload(n) \in Seq(0 .. MaxSent) /\ Len(Payload(n)) = n
  BY <1>5, PayloadType DEF WakeInv, Typed
<1>7. /\ buffer' = [buffer EXCEPT ![o] = @ \o Payload(n)]
      /\ room' = [room EXCEPT ![o] = @ - n]
      /\ state' = AfterRead(n) /\ life' = life
  BY <1>2, Zenon DEF Filled, o
<1>8. EntryType'
  <2>1. buffer' \in [Entry -> Seq(0 .. MaxSent)]
    BY <1>3, <1>4, <1>6, <1>7, ConcatProperties, Zenon
  <2>2. room' \in [Entry -> 0 .. Capacity]
    BY <1>3, <1>4, <1>5, <1>7, SizeAssumption
  <2>3. \A e \in Entry : Len(buffer'[e]) + room'[e] <= Capacity
    <3> SUFFICES ASSUME NEW e \in Entry PROVE Len(buffer'[e]) + room'[e] <= Capacity
      OBVIOUS
    <3>1. CASE e # o
      BY <1>4, <1>7, <3>1, Zenon
    <3>2. CASE e = o
      <4>1. Len(buffer'[o]) = Len(buffer[o]) + n
        <5>1. buffer'[o] = buffer[o] \o Payload(n) /\ buffer[o] \in Seq(0 .. MaxSent)
          BY <1>3, <1>4, <1>7, Zenon
        <5>2. Len(buffer[o] \o Payload(n)) = Len(buffer[o]) + Len(Payload(n))
          BY <1>6, <5>1, ConcatProperties, Zenon
        <5> QED
          BY <1>6, <5>1, <5>2, Zenon
      <4>2. room'[o] = room[o] - n
        BY <1>3, <1>4, <1>7, Zenon
      <4>3. Len(buffer[o]) \in Nat
        BY <1>3, <1>4
      <4> QED
        BY <1>3, <1>4, <3>2, <4>1, <4>2, <4>3, SizeAssumption
    <3> QED
      BY <3>1, <3>2
  <2> QED
    BY <1>1, <1>7, <2>1, <2>2, <2>3, Zenon DEF WakeInv, Typed, EntryType
<1>9. TaskType' /\ Wakes({reader_pipe_waker[o]})
  BY <1>1, LoopWakes, Zenon
<1>10. UNCHANGED <<reader_pipe_waker, waiting_waker, queue, listening, receiving, sendWaker,
                  peer, sent, eos>>
  BY <1>1, Zenon DEF wakerVars, chanVars, outsideVars, peerVars, appVars
<1>11. state' \in SharedReaderState /\ state'.tag # "SendSocket"
  BY <1>1, <1>2, <1>7, AfterReadType, Zenon
<1>12. ReaderHooked'
  <2>1. \A e \in Entry : buffer'[e] = buffer[e] \/ reader_pipe_waker[e] \in {reader_pipe_waker[o]}
    BY <1>3, <1>4, <1>7, Zenon
  <2> QED
    BY <1>9, <1>10, <2>1, ReaderKept, Zenon
<1>13. RoomHooked'
  <2>1. \A e \in Entry : room[e] = 0 => room'[e] = 0
    BY <1>1, <1>3, <1>4, <1>7 DEF o
  <2> QED
    BY <1>9, <1>10, <2>1, RoomKept, Zenon
<1>14. AcceptHooked'
  BY <1>9, <1>10, <1>11, AcceptKept, Zenon DEF SendHooked
<1>15. WakerType' /\ ChanType' /\ PeerType'
  BY <1>10, Zenon DEF WakeInv, Typed, WakerType, ChanType, PeerType
<1> QED
  BY <1>5, <1>8, <1>9, <1>11, <1>12, <1>13, <1>14, <1>15, Zenon DEF WakeInv, Typed

\* The owner's buffer is full: its reader is woken, and t waits for room.
LEMMA ReadFullStep ==
    ASSUME WakeInv, NEW t \in Task, ReadFull(t)
    PROVE  WakeInv'
<1> DEFINE o == owner
<1>1. /\ lock = t /\ state.tag = "Read" /\ Live /\ room[o] = 0
      /\ waiting_waker' = [waiting_waker EXCEPT ![o] = t]
      /\ lock' = None /\ pc' = [pc EXCEPT ![t] = "wait"]
      /\ woken' = Woke({reader_pipe_waker[o]})
      /\ blockedOn' = [blockedOn EXCEPT ![t] = o]
      /\ UNCHANGED <<inbox, eof, sockWaker, socket_map, life, buffer, room, reader_pipe_waker,
                     state, sendWaker, queue, receiving, listening, peer, sent, transit, setting, eos>>
  BY Zenon DEF ReadFull, Polling, sockVars, entryVars, chanVars, outsideVars, peerVars, appVars
<1>2. o \in Entry
  BY <1>1, OwnerType, Zenon
<1> HIDE DEF o
<1>3. pc[t] = "poll" /\ blockedOn[t] = None
  BY <1>1, HolderPolls, Zenon
<1>4. TaskType'
  BY <1>1, <1>2, <1>3, EntryAssumption, Zenon DEF WakeInv, Typed, TaskType, Woke, Task, Acceptor
<1>5. \A x \in Task : pc'[x] # "idle" /\ x \notin woken' =>
          pc[x] # "idle" /\ x \notin woken /\ x # reader_pipe_waker[o]
  BY <1>1, <1>3, Zenon DEF WakeInv, Typed, TaskType, Woke
<1>6. ReaderHooked'
  BY <1>1, <1>5, Zenon DEF WakeInv, ReaderHooked, Task
<1>7. RoomHooked'
  <2> SUFFICES ASSUME NEW x \in Task, blockedOn'[x] # None
               PROVE  /\ pc'[x] = "wait"
                      /\ waiting_waker'[blockedOn'[x]] = x /\ x \notin woken'
                            => room'[blockedOn'[x]] = 0
    BY Zenon DEF RoomHooked
  <2>1. CASE x = t
    BY <1>1, <2>1, Zenon DEF WakeInv, Typed, TaskType
  <2>2. CASE x # t
    <3>1. blockedOn'[x] = blockedOn[x] /\ pc'[x] = pc[x] /\ blockedOn[x] \in Entry
      BY <1>1, <2>2, Zenon DEF WakeInv, Typed, TaskType
    <3>2. waiting_waker'[blockedOn[x]] = x => waiting_waker[blockedOn[x]] = x
      BY <1>1, <2>2, <3>1, Zenon DEF WakeInv, Typed, WakerType
    <3> QED
      BY <1>1, <1>5, <3>1, <3>2, Zenon DEF WakeInv, RoomHooked
  <2> QED
    BY <2>1, <2>2, Zenon
<1>8. AcceptHooked'
  <2>1. ~SendHooked'
    BY <1>1, Zenon DEF SendHooked
  <2> QED
    BY <1>1, <1>5, <2>1, Zenon DEF WakeInv, AcceptHooked, Task
<1>9. WakerType'
  BY <1>1, Zenon DEF WakeInv, Typed, WakerType
<1>10. SockType' /\ EntryType' /\ ChanType' /\ PeerType' /\ state' \in SharedReaderState
  BY <1>1, Zenon DEF WakeInv, Typed, SockType, EntryType, ChanType, PeerType
<1> QED
  BY <1>4, <1>6, <1>7, <1>8, <1>9, <1>10, Zenon DEF WakeInv, Typed

-----------------------------------------------------------------------------
(***************************************************************************)
(* Opening frames and the accept channel.                                  *)
(***************************************************************************)

\* A step that leaves buffers and their readers' wakers alone.
LEMMA StillStep ==
    ASSUME WakeInv, NEW S, Wakes(S), TaskType', SockType', EntryType', WakerType',
           state' \in SharedReaderState, ChanType', PeerType',
           UNCHANGED <<buffer, room, reader_pipe_waker>>,
           \A e \in Entry : waiting_waker'[e] = waiting_waker[e]
                            \/ (waiting_waker'[e] \in Task /\ blockedOn[waiting_waker'[e]] = None),
           AcceptHooked'
    PROVE  WakeInv'
<1>1. ReaderHooked'
  BY ReaderKept, Zenon
<1>2. RoomHooked'
  BY RoomKept, Zenon
<1> QED
  BY <1>1, <1>2, Zenon DEF WakeInv, Typed

\* An opening frame makes an entry, or is ignored.
LEMMA HeaderOpenStep ==
    ASSUME WakeInv, NEW t \in Task, HeaderOpen(t)
    PROVE  WakeInv'
<1> DEFINE h == header.s
<1>1. /\ HeaderFull(t) /\ Loop(t, {})
      /\ UNCHANGED <<buffer, room, reader_pipe_waker, sendWaker, queue, receiving, listening,
                     peer, sent, transit, setting, eos>>
  BY Zenon DEF HeaderOpen, chanVars, outsideVars, peerVars, appVars
<1>2. lock = t /\ SockType' /\ h \in Entry /\ addr \in Addr
  BY <1>1, HeaderType, Zenon DEF Unit
<1>3. TaskType' /\ Wakes({})
  BY <1>1, <1>2, LoopWakes, Zenon
<1>4. blockedOn[t] = None
  BY <1>2, HolderPolls, Zenon
<1>5. ChanType' /\ PeerType'
  BY <1>1, Zenon DEF WakeInv, Typed, ChanType, PeerType
<1>6. CASE ~listening /\ state' = next_packet /\ UNCHANGED <<socket_map, life, waiting_waker>>
  <2>1. EntryType' /\ WakerType'
    BY <1>1, <1>6, Zenon DEF WakeInv, Typed, EntryType, WakerType
  <2>2. AcceptHooked'
    BY <1>1, <1>6, Zenon DEF AcceptHooked
  <2> QED
    BY <1>1, <1>2, <1>3, <1>5, <1>6, <2>1, <2>2, StillStep, NextPacketType, Zenon
<1>7. CASE /\ listening
           /\ socket_map' = [socket_map EXCEPT ![addr] = header.s]
           /\ life' = [life EXCEPT ![header.s] = "sending"]
           /\ waiting_waker' = [waiting_waker EXCEPT ![header.s] = t]
           /\ state' = [tag |-> "SendSocket", e |-> header.s, hooked |-> FALSE]
  <2> HIDE DEF h
  <2>1. /\ socket_map' = [socket_map EXCEPT ![addr] = h]
        /\ life' = [life EXCEPT ![h] = "sending"]
        /\ waiting_waker' = [waiting_waker EXCEPT ![h] = t]
        /\ state' = [tag |-> "SendSocket", e |-> h, hooked |-> FALSE]
    BY <1>7, Zenon DEF h
  <2>2. EntryType'
    BY <1>1, <1>2, <2>1, Zenon DEF WakeInv, Typed, EntryType
  <2>3. WakerType'
    BY <1>1, <1>2, <2>1, Zenon DEF WakeInv, Typed, WakerType
  <2>4. state' \in SharedReaderState
    BY <1>2, <2>1, Zenon DEF SharedReaderState
  <2>5. AcceptHooked'
    <3>1. ~SendHooked'
      BY <2>1, Zenon DEF SendHooked
    <3> QED
      BY <1>1, <1>3, <3>1, Zenon DEF WakeInv, AcceptHooked, Wakes, Task
  <2>6. \A e \in Entry : waiting_waker'[e] = waiting_waker[e]
                         \/ (waiting_waker'[e] \in Task /\ blockedOn[waiting_waker'[e]] = None)
    BY <1>4, <2>1, Zenon DEF WakeInv, Typed, WakerType
  <2> QED
    BY <1>1, <1>2, <1>3, <1>5, <2>2, <2>3, <2>4, <2>5, <2>6, StillStep, Zenon
<1> QED
  BY <1>6, <1>7, Zenon DEF HeaderOpen

\* The channel takes a connection, and a hooked accept is woken.
LEMMA SendPushStep ==
    ASSUME WakeInv, NEW t \in Task, SendPush(t)
    PROVE  WakeInv'
<1> DEFINE S == IF receiving THEN {Acceptor} ELSE {}
<1>1. /\ lock = t /\ state.tag = "SendSocket" /\ listening
      /\ queue' = Append(queue, state.e) /\ life' = [life EXCEPT ![state.e] = "queued"]
      /\ receiving' = FALSE /\ state' = next_packet /\ Loop(t, S)
      /\ UNCHANGED <<inbox, eof, sockWaker, socket_map, buffer, room, reader_pipe_waker,
                     waiting_waker, sendWaker, listening, peer, sent, transit, setting, eos>>
  BY Zenon DEF SendPush, Polling, sockVars, wakerVars, outsideVars, peerVars, appVars
<1>2. state.e \in Entry
  BY <1>1, StateFields, Zenon DEF WakeInv, Typed
<1>3. TaskType' /\ Wakes(S)
  BY <1>1, LoopWakes, Zenon
<1>4. SockType' /\ EntryType' /\ WakerType' /\ PeerType'
  BY <1>1, <1>2, Zenon DEF WakeInv, Typed, SockType, EntryType, WakerType, PeerType
<1>5. ChanType'
  BY <1>1, <1>2, AppendProperties, Zenon DEF WakeInv, Typed, ChanType
<1>6. AcceptHooked'
  <2>1. ~SendHooked'
    BY <1>1, NextPacketType, Zenon DEF SendHooked
  <2>2. pc'[Acceptor] = "idle" \/ Acceptor \in woken'
    BY <1>1, <1>3, Zenon DEF WakeInv, AcceptHooked, Wakes, Task
  <2> QED
    BY <2>1, <2>2, Zenon DEF AcceptHooked
<1> QED
  BY <1>1, <1>3, <1>4, <1>5, <1>6, StillStep, NextPacketType, Zenon

\* The send is put aside while the channel is full.
LEMMA SendPendingStep ==
    ASSUME WakeInv, NEW t \in Task, SendPending(t)
    PROVE  WakeInv'
<1>1. /\ lock = t /\ state.tag = "SendSocket" /\ listening
      /\ SendHooked \/ (~state.hooked /\ ~receiving /\ Len(queue) >= QueueCap)
      /\ state' = [state EXCEPT !.hooked = TRUE] /\ sendWaker' = t /\ Pending(t, {})
      /\ UNCHANGED <<inbox, eof, sockWaker, socket_map, life, buffer, room, reader_pipe_waker,
                     waiting_waker, queue, receiving, listening, peer, sent, transit, setting, eos>>
  BY Zenon DEF SendPending, Polling, sockVars, entryVars, wakerVars, outsideVars, peerVars, appVars
<1>2. state' \in SharedReaderState
  <2>1. state \in [tag : {"SendSocket"}, e : Entry, hooked : BOOLEAN]
    BY <1>1, StateFields, Zenon DEF WakeInv, Typed
  <2>2. state' \in [tag : {"SendSocket"}, e : Entry, hooked : BOOLEAN]
    BY <1>1, <2>1, Zenon
  <2> QED
    BY <2>2 DEF SharedReaderState
<1>3. TaskType' /\ Wakes({})
  BY <1>1, PendingWakes, Zenon
<1>4. SockType' /\ EntryType' /\ WakerType' /\ PeerType' /\ ChanType'
  BY <1>1, Zenon DEF WakeInv, Typed, SockType, EntryType, WakerType, PeerType, ChanType
<1>5. AcceptHooked'
  <2>1. queue # << >>
    BY <1>1, SizeAssumption DEF WakeInv, AcceptHooked
  <2> QED
    BY <1>1, <1>3, <2>1, Zenon DEF WakeInv, AcceptHooked, Wakes, Task
<1> QED
  BY <1>1, <1>2, <1>3, <1>4, <1>5, StillStep, Zenon

\* The send is over: its item was taken meanwhile, or the receiver is gone.
LEMMA SendOverStep ==
    ASSUME WakeInv, NEW t \in Task, SendDone(t) \/ SendFailed(t)
    PROVE  WakeInv'
<1>1. /\ lock = t /\ state.tag = "SendSocket" /\ state' = next_packet /\ Loop(t, {})
      /\ life' = life \/ life' = [life EXCEPT ![state.e] = "dropped"]
      /\ UNCHANGED <<inbox, eof, sockWaker, socket_map, buffer, room, reader_pipe_waker,
                     waiting_waker, sendWaker, queue, receiving, listening, peer, sent, transit,
                     setting, eos>>
  BY Zenon DEF SendDone, SendFailed, Polling, sockVars, entryVars, wakerVars, chanVars, outsideVars,
         peerVars, appVars
<1>2. TaskType' /\ Wakes({})
  BY <1>1, LoopWakes
<1>3. SockType' /\ EntryType' /\ WakerType' /\ PeerType' /\ ChanType'
  BY <1>1, Zenon DEF WakeInv, Typed, SockType, EntryType, WakerType, PeerType, ChanType
<1>4. AcceptHooked'
  <2>1. ~SendHooked'
    BY <1>1, NextPacketType, Zenon DEF SendHooked
  <2> QED
    BY <1>1, <1>2, <2>1, Zenon DEF WakeInv, AcceptHooked, Wakes, Task
<1> QED
  BY <1>1, <1>2, <1>3, <1>4, StillStep, NextPacketType, Zenon

-----------------------------------------------------------------------------
(***************************************************************************)
(* The application: reads, accepts and drops.                              *)
(***************************************************************************)

\* A task that goes on to the shared reader forgets the wake-ups so far.
LEMMA ToSharedFacts ==
    ASSUME WakeInv, NEW t \in Task, Polled(t), ToShared(t)
    PROVE  /\ TaskType' /\ pc'[t] = "shared" /\ t \notin woken' /\ blockedOn'[t] = None
           /\ \A x \in Task \ {t} : /\ pc'[x] = pc[x] /\ blockedOn'[x] = blockedOn[x]
                                    /\ x \in woken' <=> x \in woken
<1>1. pc[t] # "poll"
  BY DEF Polled
<1>2. /\ pc' \in [Task -> {"idle", "wait", "shared", "poll"}] /\ pc'[t] = "shared"
      /\ \A x \in Task \ {t} : pc'[x] = pc[x]
  BY Zenon DEF ToShared, WakeInv, Typed, TaskType
<1>3. /\ blockedOn' \in [Task -> Entry \cup {None}] /\ blockedOn'[t] = None
      /\ \A x \in Task \ {t} : blockedOn'[x] = blockedOn[x]
  BY Zenon DEF ToShared, WakeInv, Typed, TaskType
<1>4. TaskType'
  BY <1>1, <1>2, <1>3 DEF ToShared, WakeInv, Typed, TaskType
<1> QED
  BY <1>2, <1>3, <1>4 DEF ToShared

\* The lock is not held by a task that begins a poll.
LEMMA PolledFree ==
    ASSUME WakeInv, NEW t \in Task, pc[t] # "poll"
    PROVE  lock # t
BY Zenon DEF WakeInv, Typed, TaskType

\* Bytes are handed out; what waits for room is woken.
LEMMA ReadTakeStep ==
    ASSUME WakeInv, NEW e \in Entry, ReadTake(e)
    PROVE  WakeInv'
<1>1. /\ Polled(e) /\ Return(e, {waiting_waker[e]})
      /\ UNCHANGED <<inbox, eof, sockWaker, socket_map, life, reader_pipe_waker, waiting_waker,
                     state, sendWaker, queue, receiving, listening, lock, peer, sent, transit,
                     setting, eos>>
  BY Zenon DEF ReadTake, Reading, sockVars, wakerVars, chanVars, peerVars
<1>2. PICK n \in 1 .. Len(buffer[e]) :
          /\ buffer' = [buffer EXCEPT ![e] = SubSeq(@, n + 1, Len(@))]
          /\ room' = [room EXCEPT ![e] = IF n = Len(buffer[e]) THEN Capacity ELSE @]
  BY Zenon DEF ReadTake
<1>3. /\ room \in [Entry -> 0 .. Capacity] /\ buffer \in [Entry -> Seq(0 .. MaxSent)]
      /\ \A x \in Entry : Len(buffer[x]) + room[x] <= Capacity
  BY Zenon DEF WakeInv, Typed, EntryType
<1>4. e \in Task /\ lock # e
  BY <1>1, PolledFree, Zenon DEF Polled, Task
<1>5. TaskType' /\ Wakes({waiting_waker[e]}) /\ pc'[e] = "idle"
  BY <1>1, <1>4, ReturnWakes, Zenon
<1>6. /\ SubSeq(buffer[e], n + 1, Len(buffer[e])) \in Seq(0 .. MaxSent)
      /\ Len(SubSeq(buffer[e], n + 1, Len(buffer[e]))) = Len(buffer[e]) - n
  <2>1. buffer[e] \in Seq(0 .. MaxSent) /\ Len(buffer[e]) \in Nat /\ n \in 1 .. Len(buffer[e])
    BY <1>3
  <2> QED
    BY <2>1, RestOf, Zenon
<1>7. EntryType'
  <2>1. buffer' \in [Entry -> Seq(0 .. MaxSent)]
    BY <1>2, <1>3, <1>6, Zenon
  <2>2. room' \in [Entry -> 0 .. Capacity]
    BY <1>2, <1>3, SizeAssumption
  <2>3. ASSUME NEW x \in Entry PROVE Len(buffer'[x]) + room'[x] <= Capacity
    <3>1. CASE x # e
      BY <1>2, <1>3, <3>1, Zenon
    <3>2. CASE x = e
      <4>1. Len(buffer[e]) \in Nat /\ room[e] \in Nat /\ Len(buffer[e]) + room[e] <= Capacity
        BY <1>3
      <4>2. buffer'[e] = SubSeq(buffer[e], n + 1, Len(buffer[e]))
            /\ room'[e] = IF n = Len(buffer[e]) THEN Capacity ELSE room[e]
        BY <1>2, <1>3
      <4>3. Len(buffer'[e]) = Len(buffer[e]) - n
        BY <1>6, <4>2, Zenon
      <4> QED
        BY <3>2, <4>1, <4>2, <4>3, SizeAssumption
    <3> QED
      BY <3>1, <3>2
  <2> QED
    BY <1>1, <2>1, <2>2, <2>3, Zenon DEF WakeInv, Typed, EntryType
<1>8. ReaderHooked'
  <2>1. \A x \in Entry : buffer'[x] = buffer[x] \/ pc'[x] = "idle"
    BY <1>2, <1>3, <1>5, Zenon
  <2> QED
    BY <1>1, <1>5, <2>1, ReaderKept, Zenon
<1>9. RoomHooked'
  <2>1. \A x \in Entry : room[x] = 0 => room'[x] = 0 \/ waiting_waker[x] \in {waiting_waker[e]}
    BY <1>2, <1>3, Zenon
  <2> QED
    BY <1>1, <1>5, <2>1, RoomKept, Zenon
<1>10. AcceptHooked'
  BY <1>1, <1>5, AcceptKept, Zenon DEF SendHooked
<1>11. SockType' /\ WakerType' /\ ChanType' /\ PeerType' /\ state' \in SharedReaderState
  BY <1>1, Zenon DEF WakeInv, Typed, SockType, WakerType, ChanType, PeerType
<1> QED
  BY <1>5, <1>7, <1>8, <1>9, <1>10, <1>11, Zenon DEF WakeInv, Typed

\* The end of the stream, a dropped connection, a cancelled read or accept.
LEMMA CallEndStep ==
    ASSUME WakeInv, NEW t \in Task,
           (t \in Entry /\ (ReadEos(t) \/ Drop(t))) \/ Cancel(t)
    PROVE  WakeInv'
<1>1. /\ pc[t] # "poll" /\ Return(t, {})
      /\ UNCHANGED <<inbox, eof, sockWaker, socket_map, buffer, room, reader_pipe_waker,
                     waiting_waker, state, sendWaker, queue, listening, lock, peer, sent, transit,
                     setting>>
  BY Zenon DEF ReadEos, Drop, Cancel, Reading, Polled, sockVars, entryVars, wakerVars, chanVars,
         outsideVars, peerVars
<1>2. /\ life' = life \/ (t \in Entry /\ life' = [life EXCEPT ![t] = "dropped"])
      /\ receiving' = receiving \/ receiving' = (receiving /\ t # Acceptor)
      /\ eos' = eos \/ (t \in Entry /\ eos' = eos \cup {t})
  BY Zenon DEF ReadEos, Drop, Cancel, entryVars, chanVars, outsideVars, appVars
<1>3. TaskType' /\ Wakes({}) /\ pc'[t] = "idle"
  BY <1>1, PolledFree, ReturnWakes, Zenon
<1>4. receiving' \in BOOLEAN /\ (receiving' = receiving \/ pc'[Acceptor] = "idle")
  <2>1. CASE t = Acceptor
    <3>1. receiving' \in BOOLEAN
      BY <1>2, Zenon DEF WakeInv, Typed, ChanType
    <3> QED
      BY <1>3, <2>1, <3>1, Zenon
  <2>2. CASE t # Acceptor
    BY <1>2, <2>2, Zenon DEF WakeInv, Typed, ChanType
  <2> QED
    BY <2>1, <2>2
<1>5. SockType' /\ EntryType' /\ WakerType' /\ state' \in SharedReaderState
  BY <1>1, <1>2, Zenon DEF WakeInv, Typed, SockType, EntryType, WakerType
<1>6. ChanType' /\ PeerType'
  BY <1>1, <1>2, <1>4, Zenon DEF WakeInv, Typed, ChanType, PeerType
<1>7. SendHooked' => SendHooked
  <2>1. state.tag = "SendSocket" => state.e \in Entry
    BY StateFields, Zenon DEF WakeInv, Typed
  <2> QED
    BY <1>1, <1>2, <2>1, Zenon DEF SendHooked, WakeInv, Typed, EntryType
<1>8. AcceptHooked'
  BY <1>1, <1>3, <1>4, <1>7, AcceptKept, Zenon
<1> QED
  BY <1>1, <1>3, <1>5, <1>6, <1>8, StillStep, Zenon

\* A reader finds nothing, leaves its waker and goes on.
LEMMA ReadWaitStep ==
    ASSUME WakeInv, NEW e \in Entry, ReadWait(e)
    PROVE  WakeInv'
<1>1. /\ Polled(e) /\ buffer[e] = << >> /\ ToShared(e)
      /\ reader_pipe_waker' = [reader_pipe_waker EXCEPT ![e] = e]
      /\ UNCHANGED <<inbox, eof, sockWaker, socket_map, life, buffer, room, waiting_waker, state,
                     sendWaker, queue, receiving, listening, peer, sent, transit, setting, eos>>
  BY Zenon DEF ReadWait, Reading, sockVars, entryVars, chanVars, outsideVars, peerVars, appVars
<1>2. e \in Task /\ e # Acceptor
  BY EntryAssumption, Zenon DEF Task, Acceptor
<1>3. /\ TaskType' /\ blockedOn'[e] = None
      /\ \A x \in Task \ {e} : /\ pc'[x] = pc[x] /\ blockedOn'[x] = blockedOn[x]
                               /\ x \in woken' <=> x \in woken
  BY <1>1, <1>2, ToSharedFacts, Zenon
<1>4. WakerType' /\ reader_pipe_waker'[e] = e
      /\ \A x \in Entry \ {e} : reader_pipe_waker'[x] = reader_pipe_waker[x]
  BY <1>1, <1>2, Zenon DEF WakeInv, Typed, WakerType
<1>5. ReaderHooked'
  BY <1>1, <1>3, <1>4, Zenon DEF WakeInv, ReaderHooked, Task
<1>6. RoomHooked'
  BY <1>1, <1>3, Zenon DEF WakeInv, RoomHooked
<1>7. AcceptHooked'
  <2>1. SendHooked' <=> SendHooked
    BY <1>1, Zenon DEF SendHooked
  <2>2. Acceptor \in Task \ {e}
    BY <1>2, Zenon DEF Task
  <2> QED
    BY <1>1, <1>3, <2>1, <2>2, Zenon DEF WakeInv, AcceptHooked
<1>8. SockType' /\ EntryType' /\ ChanType' /\ PeerType' /\ state' \in SharedReaderState
  BY <1>1, Zenon DEF WakeInv, Typed, SockType, EntryType, ChanType, PeerType
<1> QED
  BY <1>3, <1>4, <1>5, <1>6, <1>7, <1>8, Zenon DEF WakeInv, Typed

\* accept finds the channel empty, hooks itself to it and goes on.
LEMMA AcceptWaitStep ==
    ASSUME WakeInv, AcceptWait
    PROVE  WakeInv'
<1>1. /\ Polled(Acceptor) /\ queue = << >> /\ listening /\ receiving' = TRUE /\ ToShared(Acceptor)
      /\ UNCHANGED <<inbox, eof, sockWaker, socket_map, life, buffer, room, reader_pipe_waker,
                     waiting_waker, state, sendWaker, queue, listening, peer, sent, transit,
                     setting, eos>>
  BY Zenon DEF AcceptWait, sockVars, entryVars, wakerVars, outsideVars, peerVars, appVars
<1>2. Acceptor \in Task /\ Entry \subseteq Task \ {Acceptor}
  BY EntryAssumption, Zenon DEF Task, Acceptor
<1>3. /\ TaskType' /\ blockedOn'[Acceptor] = None
      /\ \A x \in Task \ {Acceptor} : /\ pc'[x] = pc[x] /\ blockedOn'[x] = blockedOn[x]
                                      /\ x \in woken' <=> x \in woken
  BY <1>1, <1>2, ToSharedFacts, Zenon
<1>4. ReaderHooked'
  BY <1>1, <1>2, <1>3, Zenon DEF WakeInv, ReaderHooked
<1>5. RoomHooked'
  BY <1>1, <1>3, Zenon DEF WakeInv, RoomHooked
<1>6. AcceptHooked'
  <2>1. SendHooked' <=> SendHooked
    BY <1>1, Zenon DEF SendHooked
  <2> QED
    BY <1>1, <2>1, Zenon DEF WakeInv, AcceptHooked
<1>7. SockType' /\ EntryType' /\ WakerType' /\ PeerType' /\ state' \in SharedReaderState
  BY <1>1, Zenon DEF WakeInv, Typed, SockType, EntryType, WakerType, PeerType
<1>8. ChanType'
  BY <1>1, Zenon DEF WakeInv, Typed, ChanType
<1> QED
  BY <1>3, <1>4, <1>5, <1>6, <1>7, <1>8, Zenon DEF WakeInv, Typed

\* accept takes a connection; a send that was put aside moves into the channel.
LEMMA AcceptTakeStep ==
    ASSUME WakeInv, AcceptTake
    PROVE  WakeInv'
<1> DEFINE S == IF SendHooked THEN {sendWaker} ELSE {}
           hd == Head(queue)
<1>1. /\ Polled(Acceptor) /\ queue # << >> /\ receiving' = FALSE /\ Return(Acceptor, S)
      /\ queue' = Tail(queue) \o (IF SendHooked THEN <<state.e>> ELSE << >>)
      /\ life' = [x \in Entry |-> IF x = hd THEN "open"
                                   ELSE IF SendHooked /\ x = state.e THEN "queued" ELSE life[x]]
      /\ UNCHANGED <<inbox, eof, sockWaker, socket_map, buffer, room, reader_pipe_waker,
                     waiting_waker, state, sendWaker, listening, lock, peer, sent, transit,
                     setting, eos>>
  BY Zenon DEF AcceptTake, sockVars, outsideVars, peerVars, appVars
<1>2. Acceptor \in Task /\ lock # Acceptor
  <2>1. Acceptor \in Task
    BY Zenon DEF Task
  <2> QED
    BY <1>1, <2>1, PolledFree, Zenon DEF Polled
<1>3. TaskType' /\ Wakes(S) /\ pc'[Acceptor] = "idle"
  BY <1>1, <1>2, ReturnWakes, Zenon
<1>4. state.tag = "SendSocket" => state.e \in Entry
  BY StateFields, Zenon DEF WakeInv, Typed
<1>5. ChanType'
  <2>1. Tail(queue) \in Seq(Entry)
    BY <1>1, HeadTailProperties, Zenon DEF WakeInv, Typed, ChanType
  <2>2. (IF SendHooked THEN <<state.e>> ELSE << >>) \in Seq(Entry)
    BY <1>4 DEF SendHooked
  <2>3. queue' \in Seq(Entry)
    BY <1>1, <2>1, <2>2, ConcatProperties, Zenon
  <2> QED
    BY <1>1, <2>3, Zenon DEF WakeInv, Typed, ChanType
<1>6. EntryType'
  BY <1>1, Zenon DEF WakeInv, Typed, EntryType
<1>7. AcceptHooked'
  <2>1. ~SendHooked'
    BY <1>1, <1>4, Zenon DEF SendHooked
  <2> QED
    BY <1>3, <2>1, Zenon DEF AcceptHooked
<1>8. SockType' /\ WakerType' /\ PeerType' /\ state' \in SharedReaderState
  BY <1>1, Zenon DEF WakeInv, Typed, SockType, WakerType, PeerType
<1> QED
  BY <1>1, <1>3, <1>5, <1>6, <1>7, <1>8, StillStep, Zenon

\* A task takes the shared lock, or is polled although nobody woke it.
LEMMA TaskOnlyStep ==
    ASSUME WakeInv, NEW t \in Task, Lock(t) \/ Repoll(t)
    PROVE  WakeInv'
<1> USE EntryAssumption DEF Task, Acceptor
<1>1. /\ \/ /\ pc[t] = "shared" /\ lock = None /\ lock' = t
            /\ pc' = [pc EXCEPT ![t] = "poll"] /\ UNCHANGED <<woken, blockedOn>>
         \/ /\ pc[t] = "wait" /\ woken' = woken \cup {t} /\ UNCHANGED <<lock, pc, blockedOn>>
      /\ UNCHANGED <<sockVars, socket_map, entryVars, wakerVars, state, chanVars, outsideVars>>
  BY Zenon DEF Lock, Repoll
<1>2. TaskType'
  <2>1. CASE /\ pc[t] = "shared" /\ lock = None /\ lock' = t
             /\ pc' = [pc EXCEPT ![t] = "poll"] /\ UNCHANGED <<woken, blockedOn>>
    BY <2>1, Zenon DEF WakeInv, Typed, TaskType
  <2>2. CASE pc[t] = "wait" /\ woken' = woken \cup {t} /\ UNCHANGED <<lock, pc, blockedOn>>
    BY <2>2, Zenon DEF WakeInv, Typed, TaskType
  <2> QED
    BY <1>1, <2>1, <2>2, Zenon
<1>3. Wakes({})
  <2>1. blockedOn[t] # None => pc[t] = "wait"
    BY Zenon DEF WakeInv, RoomHooked
  <2> QED
    BY <1>1, <2>1, Zenon DEF WakeInv, Typed, TaskType, Wakes
<1>4. /\ UNCHANGED <<life, buffer, room, wakerVars, sendWaker, queue, listening, receiving,
                     peer, sent, eos, state, socket_map>>
      /\ SockType'
  BY <1>1, Zenon DEF WakeInv, Typed, SockType, sockVars, entryVars, chanVars, outsideVars, peerVars, appVars
<1>5. /\ state' \in SharedReaderState /\ socket_map' \in [Addr -> Entry \cup {None}]
      /\ eos' \subseteq Entry /\ receiving' \in BOOLEAN
  BY <1>4, Zenon DEF WakeInv, Typed, EntryType, PeerType, ChanType
<1>6. SendHooked' <=> SendHooked
  BY <1>4, Zenon DEF SendHooked
<1> QED
  BY <1>2, <1>3, <1>4, <1>5, <1>6, QuietStep, Zenon

\* add_connection puts an entry into the map.
LEMMA AddConnectionStep ==
    ASSUME WakeInv, NEW e \in Entry, AddConnection(e)
    PROVE  WakeInv'
<1>1. /\ socket_map' = [socket_map EXCEPT ![AddrOf[e]] = e]
      /\ life' = [life EXCEPT ![e] = "open"] /\ peer' = [peer EXCEPT ![e] = "open"]
      /\ UNCHANGED <<inbox, eof, sockWaker, buffer, room, reader_pipe_waker, waiting_waker, state,
                     sendWaker, queue, receiving, listening, taskVars, sent, transit, setting, eos>>
  BY Zenon DEF AddConnection, sockVars, wakerVars, chanVars, appVars
<1>2. TaskType' /\ Wakes({})
  BY <1>1, SameTasks, Zenon
<1>3. SockType' /\ WakerType' /\ ChanType' /\ PeerType' /\ state' \in SharedReaderState
  BY <1>1, Zenon DEF WakeInv, Typed, SockType, WakerType, ChanType, PeerType
<1>4. EntryType'
  BY <1>1, Zenon DEF WakeInv, Typed, EntryType
<1>5. SendHooked' => SendHooked
  <2>1. state.tag = "SendSocket" => state.e \in Entry
    BY StateFields, Zenon DEF WakeInv, Typed
  <2> QED
    BY <1>1, <2>1, Zenon DEF SendHooked, WakeInv, Typed, EntryType
<1>6. AcceptHooked'
  BY <1>1, <1>2, <1>5, AcceptKept, Zenon
<1> QED
  BY <1>1, <1>2, <1>3, <1>4, <1>6, StillStep, Zenon

\* The listener goes away, and with it what AcceptHooked is about.
LEMMA DropListenerStep ==
    ASSUME WakeInv, DropListener
    PROVE  WakeInv'
<1> DEFINE S == IF SendHooked THEN {sendWaker} ELSE {}
<1>1. /\ listening' = FALSE /\ woken' = Woke(S)
      /\ \/ UNCHANGED <<queue, life>>
         \/ /\ queue' = << >>
            /\ life' = [e \in Entry |-> IF life[e] = "queued" THEN "dropped" ELSE life[e]]
      /\ UNCHANGED <<inbox, eof, sockWaker, socket_map, buffer, room, reader_pipe_waker,
                     waiting_waker, state, sendWaker, receiving, lock, pc, blockedOn, peer, sent,
                     transit, setting, eos>>
  BY Zenon DEF DropListener, sockVars, wakerVars, outsideVars, peerVars, appVars
<1>2. TaskType' /\ Wakes(S)
  BY <1>1, Zenon DEF WakeInv, Typed, TaskType, Woke, Wakes
<1>3. SockType' /\ WakerType' /\ PeerType' /\ state' \in SharedReaderState
  BY <1>1, Zenon DEF WakeInv, Typed, SockType, WakerType, PeerType
<1>4. EntryType' /\ ChanType'
  <2>1. life' \in [Entry -> {"unused", "sending", "queued", "open", "dropped"}]
    <3>1. CASE UNCHANGED <<queue, life>>
      BY <3>1, Zenon DEF WakeInv, Typed, EntryType
    <3>2. CASE life' = [e \in Entry |-> IF life[e] = "queued" THEN "dropped" ELSE life[e]]
      BY <3>2, Zenon DEF WakeInv, Typed, EntryType
    <3> QED
      BY <1>1, <3>1, <3>2, Zenon
  <2>2. queue' \in Seq(Entry)
    <3>1. queue \in Seq(Entry) /\ << >> \in Seq(Entry)
      BY DEF WakeInv, Typed, ChanType
    <3>2. queue' = queue \/ queue' = << >>
      BY <1>1, Zenon
    <3> QED
      BY <3>1, <3>2, Zenon
  <2> QED
    BY <1>1, <2>1, <2>2, Zenon DEF WakeInv, Typed, EntryType, ChanType
<1>5. AcceptHooked'
  BY <1>1, Zenon DEF AcceptHooked
<1> QED
  BY <1>1, <1>2, <1>3, <1>4, <1>5, StillStep, Zenon

-----------------------------------------------------------------------------
(***************************************************************************)
(* The peer.                                                               *)
(***************************************************************************)

\* A header, repeated to its size, and the payload units behind it.
LEMMA FrameUnits ==
    ASSUME Typed, NEW e \in Entry, NEW k \in 0 .. MaxFrame
    PROVE  /\ Len(Frame(e, k)) = HeaderSize + k
           /\ \A i \in 1 .. HeaderSize : Frame(e, k)[i] = [s |-> e, len |-> k, n |-> 0]
           /\ \A i \in HeaderSize + 1 .. HeaderSize + k :
                 Frame(e, k)[i] = [s |-> e, len |-> 0, n |-> sent[e] + (i - HeaderSize)]
           /\ Frame(e, k) \in Seq([s : Entry, len : Nat, n : Nat])
<1> DEFINE T == [s : Entry, len : Nat, n : Nat]
           h == [i \in 1 .. HeaderSize |-> [s |-> e, len |-> k, n |-> 0]]
           p == [i \in 1 .. k |-> [s |-> e, len |-> 0, n |-> sent[e] + i]]
<1>1. sent[e] \in Nat /\ k \in Nat /\ HeaderSize \in Nat
  BY SizeAssumption, SettingAssumption DEF Typed, PeerType
<1>2. h \in Seq(T) /\ Len(h) = HeaderSize
  BY <1>1
<1>3. p \in Seq(T) /\ Len(p) = k
  BY <1>1
<1>4. Frame(e, k) = h \o p
  BY DEF Frame
<1> HIDE DEF T, h, p
<1>5. /\ h \o p \in Seq(T) /\ Len(h \o p) = HeaderSize + k
      /\ \A i \in 1 .. HeaderSize + k : (h \o p)[i] = IF i <= HeaderSize THEN h[i] ELSE p[i - HeaderSize]
  BY <1>2, <1>3, ConcatProperties, Zenon
<1>6. \A i \in 1 .. HeaderSize : (h \o p)[i] = [s |-> e, len |-> k, n |-> 0]
  BY <1>1, <1>5 DEF h
<1>7. \A i \in HeaderSize + 1 .. HeaderSize + k :
          (h \o p)[i] = [s |-> e, len |-> 0, n |-> sent[e] + (i - HeaderSize)]
  <2> SUFFICES ASSUME NEW i \in HeaderSize + 1 .. HeaderSize + k
               PROVE  (h \o p)[i] = [s |-> e, len |-> 0, n |-> sent[e] + (i - HeaderSize)]
    BY Zenon
  <2>1. i \in 1 .. HeaderSize + k /\ ~(i <= HeaderSize) /\ i - HeaderSize \in 1 .. k
    BY <1>1
  <2>2. (h \o p)[i] = p[i - HeaderSize]
    BY <1>5, <2>1, Zenon
  <2> QED
    BY <2>1, <2>2, Zenon DEF p
<1> QED
  BY <1>4, <1>5, <1>6, <1>7, Zenon DEF T

\* A frame consists of units, as long as its payload is within the bound.
LEMMA FrameType ==
    ASSUME Typed, NEW e \in Entry, NEW k \in 0 .. MaxFrame, sent[e] + k <= MaxSent
    PROVE  Frame(e, k) \in Seq(Unit)
<1>1. sent[e] \in Nat /\ k \in Nat /\ HeaderSize \in Nat /\ MaxSent \in Nat /\ MaxFrame \in Nat
  BY SizeAssumption, SettingAssumption DEF Typed, PeerType
<1>2. /\ Frame(e, k) \in Seq([s : Entry, len : Nat, n : Nat])
      /\ Len(Frame(e, k)) = HeaderSize + k
  BY FrameUnits, Zenon
<1>3. ASSUME NEW i \in 1 .. HeaderSize + k
      PROVE  Frame(e, k)[i] \in Unit
  <2>1. CASE i <= HeaderSize
    <3>1. Frame(e, k)[i] = [s |-> e, len |-> k, n |-> 0]
      <4>1. i \in 1 .. HeaderSize
        BY <1>1, <2>1
      <4> QED
        BY <4>1, FrameUnits, Zenon
    <3> QED
      BY <1>1, <3>1 DEF Unit
  <2>2. CASE i > HeaderSize
    <3>1. i \in HeaderSize + 1 .. HeaderSize + k
      BY <1>1, <2>2
    <3>2. Frame(e, k)[i] = [s |-> e, len |-> 0, n |-> sent[e] + (i - HeaderSize)]
      BY <3>1, FrameUnits, Zenon
    <3>3. sent[e] + (i - HeaderSize) \in 0 .. MaxSent
      BY <1>1, <2>2
    <3> QED
      BY <1>1, <3>2, <3>3 DEF Unit
  <2> QED
    BY <1>1, <2>1, <2>2
<1> HIDE DEF Unit
<1> QED
  BY <1>1, <1>2, <1>3

\* The front of a frame that ends inside its header.
LEMMA HeaderCutType ==
    ASSUME Typed, NEW e \in Entry, NEW j \in 1 .. HeaderSize
    PROVE  SubSeq(Frame(e, 1), 1, j) \in Seq(Unit)
<1> DEFINE f == Frame(e, 1)
<1>1. HeaderSize \in Nat /\ MaxSent \in Nat /\ 1 \in 0 .. MaxFrame
  BY SizeAssumption, SettingAssumption
<1>2. /\ f \in Seq([s : Entry, len : Nat, n : Nat]) /\ Len(f) = HeaderSize + 1
      /\ \A i \in 1 .. HeaderSize : f[i] = [s |-> e, len |-> 1, n |-> 0]
  BY <1>1, FrameUnits, Zenon
<1> HIDE DEF f
<1>3. \A i \in 1 .. j : f[i] = [s |-> e, len |-> 1, n |-> 0]
  BY <1>1, <1>2
<1>4. [s |-> e, len |-> 1, n |-> 0] \in Unit
  BY <1>1 DEF Unit
<1>5. \A i \in 1 .. j : f[i] \in Unit
  BY <1>3, <1>4, Zenon
<1>6. SubSeq(f, 1, j) \in Seq(Unit)
  BY <1>5, SubSeqProperties
<1> QED
  BY <1>6 DEF f

\* What arrives changes the socket and wakes the task that it remembers.
LEMMA ArriveStep ==
    ASSUME WakeInv, NEW u \in Seq(Unit), Arrive(u), transit' \in Seq(Unit), eof' \in BOOLEAN,
           PeerType'
    PROVE  WakeInv'
<1>1. /\ inbox' = inbox \o u /\ sockWaker' = None /\ woken' = Woke({sockWaker})
      /\ UNCHANGED <<socket_map, life, buffer, room, reader_pipe_waker, waiting_waker, state,
                     sendWaker, queue, receiving, listening, lock, pc, blockedOn, setting>>
  BY Zenon DEF Arrive, entryVars, wakerVars, chanVars
<1>2. TaskType' /\ Wakes({sockWaker})
  BY <1>1, Zenon DEF WakeInv, Typed, TaskType, Woke, Wakes
<1>3. inbox \o u \in Seq(Unit)
  BY ConcatProperties, Zenon DEF WakeInv, Typed, SockType
<1>4. SockType'
  BY <1>1, <1>3, Zenon DEF WakeInv, Typed, SockType
<1>5. EntryType' /\ WakerType' /\ ChanType' /\ state' \in SharedReaderState
  BY <1>1, Zenon DEF WakeInv, Typed, EntryType, WakerType, ChanType
<1>6. SendHooked' => SendHooked
  BY <1>1, Zenon DEF SendHooked
<1>7. AcceptHooked'
  BY <1>1, <1>2, <1>6, AcceptKept, Zenon
<1> QED
  BY <1>1, <1>2, <1>4, <1>5, <1>7, StillStep, Zenon

\* What the peer writes arrives in one piece or in two.
LEMMA WriteStep ==
    ASSUME WakeInv, NEW u \in Seq(Unit), Write(u), eof' \in BOOLEAN, PeerType'
    PROVE  WakeInv'
<1> DEFINE W == {Len(u)} \cup (IF "late" \in May THEN 1 .. Len(u) ELSE {})
<1>0. W \subseteq 0 .. Len(u)
  OBVIOUS
<1>1. PICK k \in W : Arrive(SubSeq(u, 1, k)) /\ transit' = SubSeq(u, k + 1, Len(u))
  BY Zenon DEF Write
<1>2. SubSeq(u, 1, k) \in Seq(Unit) /\ SubSeq(u, k + 1, Len(u)) \in Seq(Unit)
  <2>1. \A i \in 1 .. Len(u) : u[i] \in Unit
    OBVIOUS
  <2>2. \A i \in 1 .. k : u[i] \in Unit
    BY <1>0, <2>1
  <2>3. \A i \in (k + 1) .. Len(u) : u[i] \in Unit
    BY <1>0, <2>1
  <2> QED
    BY <1>0, <2>2, <2>3, SubSeqProperties
<1> QED
  BY <1>1, <1>2, ArriveStep, Zenon

\* The peer's steps: what it had sent arrives, it opens, sends, closes, or ends
\* the TCP stream.
LEMMA PeerStep ==
    ASSUME WakeInv, Peer
    PROVE  WakeInv'
<1>0. /\ Typed /\ PeerType /\ transit \in Seq(Unit) /\ eof \in BOOLEAN
      /\ << >> \in Seq(Unit) /\ setting \in Settings
  BY DEF WakeInv, Typed, SockType
<1>1. 0 \in 0 .. MaxFrame /\ MaxSent \in Nat /\ setting.quota \in 0 .. MaxSent
  BY <1>0, SizeAssumption, SettingAssumption
<1>2. CASE Deliver
  <2>1. Arrive(transit) /\ transit' = << >> /\ UNCHANGED <<eof, peer, sent, eos>>
    BY <1>2, Zenon DEF Deliver, Arrive, appVars
  <2>2. PeerType'
    BY <1>0, <2>1, Zenon DEF PeerType
  <2> QED
    BY <1>0, <2>1, <2>2, ArriveStep, Zenon
<1>3. CASE PeerEof
  <2>1. UNCHANGED <<peer, sent>> /\ eof' = TRUE
    BY <1>3, Zenon DEF PeerEof
  <2>2. ASSUME NEW u \in Seq(Unit), Write(u)
        PROVE  WakeInv'
    <3>1. UNCHANGED eos
      BY <2>2, Zenon DEF Write, Arrive, appVars
    <3>2. PeerType'
      BY <1>0, <2>1, <3>1, Zenon DEF PeerType
    <3> QED
      BY <2>1, <2>2, <3>2, WriteStep, Zenon
  <2>3. CASE Write(<< >>)
    BY <1>0, <2>2, <2>3, Zenon
  <2>4. ASSUME NEW e \in Entry, NEW j \in 1 .. HeaderSize, Write(SubSeq(Frame(e, 1), 1, j))
        PROVE  WakeInv'
    BY <1>0, <2>2, <2>4, HeaderCutType, Zenon
  <2> QED
    BY <1>3, <2>3, <2>4, Zenon DEF PeerEof
<1>4. ASSUME NEW e \in Entry, PeerOpen(e) \/ PeerClose(e)
      PROVE  WakeInv'
  <2>1. Write(Frame(e, 0)) /\ UNCHANGED <<eof, sent, eos>>
    BY <1>4, Zenon DEF PeerOpen, PeerClose, Write, Arrive, appVars
  <2>2. peer' = [peer EXCEPT ![e] = "open"] \/ peer' = [peer EXCEPT ![e] = "closed"]
    BY <1>4, Zenon DEF PeerOpen, PeerClose
  <2>3. PeerType'
    BY <1>0, <2>1, <2>2, Zenon DEF PeerType
  <2>4. sent[e] + 0 <= MaxSent
    BY <1>0, <1>1 DEF PeerType
  <2>5. Frame(e, 0) \in Seq(Unit)
    BY <1>0, <1>1, <2>4, FrameType, Zenon
  <2> QED
    BY <1>0, <2>1, <2>3, <2>5, WriteStep, Zenon
<1>5. ASSUME NEW e \in Entry, PeerData(e)
      PROVE  WakeInv'
  <2>1. PICK k \in 1 .. MaxFrame : /\ sent[e] + k <= setting.quota
                                   /\ Write(Frame(e, k)) /\ UNCHANGED eof
                                   /\ sent' = [sent EXCEPT ![e] = @ + k]
    BY <1>5, Zenon DEF PeerData
  <2>2. UNCHANGED <<peer, eos>>
    BY <1>5, <2>1, Zenon DEF PeerData, Write, Arrive, appVars
  <2>3. sent[e] + k <= MaxSent /\ sent[e] + k \in 0 .. MaxSent /\ k \in 0 .. MaxFrame
    BY <1>0, <1>1, <2>1 DEF PeerType
  <2>4. PeerType'
    BY <1>0, <2>1, <2>2, <2>3, Zenon DEF PeerType
  <2>5. Frame(e, k) \in Seq(Unit)
    BY <1>0, <2>3, FrameType, Zenon
  <2> QED
    BY <1>0, <2>1, <2>4, <2>5, WriteStep, Zenon
<1> QED
  BY <1>2, <1>3, <1>4, <1>5, Zenon DEF Peer

-----------------------------------------------------------------------------
(***************************************************************************)
(* The theorems.                                                           *)
(***************************************************************************)

\* Nothing waits in the beginning.
LEMMA InitWakeInv == Init => WakeInv
<1> SUFFICES ASSUME Init PROVE WakeInv
  OBVIOUS
<1>1. SockType
  <2>1. << >> \in Seq(Unit)
    OBVIOUS
  <2>2. inbox = << >> /\ transit = << >> /\ setting \in Settings /\ eof = FALSE /\ sockWaker = None
    BY Zenon DEF Init
  <2> QED
    BY <2>1, <2>2, Zenon DEF SockType
<1>2. WakerType /\ PeerType
  <2>1. /\ reader_pipe_waker = [e \in Entry |-> None] /\ waiting_waker = [e \in Entry |-> None]
        /\ peer = [e \in Entry |-> "new"] /\ sent = [e \in Entry |-> 0] /\ eos = {}
    BY Zenon DEF Init
  <2>2. 0 \in 0 .. MaxSent
    BY SettingAssumption
  <2> QED
    BY <2>1, <2>2, Zenon DEF WakerType, PeerType
<1>3. EntryType
  <2>1. /\ socket_map = [a \in Addr |-> None] /\ life = [e \in Entry |-> "unused"]
        /\ buffer = [e \in Entry |-> << >>] /\ room = [e \in Entry |-> Capacity]
    BY Zenon DEF Init
  <2>2. socket_map \in [Addr -> Entry \cup {None}]
        /\ life \in [Entry -> {"unused", "sending", "queued", "open", "dropped"}]
    BY <2>1, Zenon
  <2>3. << >> \in Seq(0 .. MaxSent) /\ Len(<< >>) = 0 /\ Capacity \in 0 .. Capacity
        /\ 0 + Capacity <= Capacity
    BY SizeAssumption
  <2>4. buffer \in [Entry -> Seq(0 .. MaxSent)] /\ room \in [Entry -> 0 .. Capacity]
    BY <2>1, <2>3, Zenon
  <2>5. ASSUME NEW e \in Entry PROVE Len(buffer[e]) + room[e] <= Capacity
    <3>1. buffer[e] = << >> /\ room[e] = Capacity
      BY <2>1, Zenon
    <3> QED
      BY <2>3, <3>1, Zenon
  <2> QED
    BY <2>2, <2>4, <2>5, Zenon DEF EntryType
<1>4. ChanType
  <2>1. setting.listener \in BOOLEAN
    <3>1. setting \in [addrOf : [Entry -> Addr], local : SUBSET Entry, listener : BOOLEAN,
                       may : SUBSET Events, quota : 0 .. MaxSent, backlog : Nat]
      BY SettingAssumption, Zenon DEF Init
    <3> QED
      BY <3>1, Zenon
  <2>2. sendWaker = None /\ queue = << >> /\ receiving = FALSE /\ << >> \in Seq(Entry)
    BY DEF Init
  <2>3. listening = setting.listener
    BY Zenon DEF Init
  <2> QED
    BY <2>1, <2>2, <2>3, Zenon DEF ChanType
<1>5. TaskType
  BY EntryAssumption, Zenon DEF Init, TaskType, Task, Acceptor
<1>6. state \in SharedReaderState
  BY NextPacketType, Zenon DEF Init
<1>7. ReaderHooked /\ RoomHooked /\ AcceptHooked
  BY Zenon DEF Init, ReaderHooked, RoomHooked, AcceptHooked, Task, Acceptor, SendHooked, next_packet
<1> QED
  BY <1>1, <1>2, <1>3, <1>4, <1>5, <1>6, <1>7, Zenon DEF WakeInv, Typed

\* Every round of the shared reader, every call of the application and every step
\* of the peer keeps the wakers hooked.
LEMMA NextWakeInv == WakeInv /\ [Next]_vars => WakeInv'
<1> SUFFICES ASSUME WakeInv, [Next]_vars PROVE WakeInv'
  OBVIOUS
<1>1. ASSUME NEW t \in Task, Lock(t) PROVE WakeInv'
  BY <1>1, TaskOnlyStep, Zenon
<1>2. ASSUME NEW t \in Task, Round(t) PROVE WakeInv'
  BY <1>2, SocketPendingStep, HeaderPartStep, HeaderDataStep, HeaderCloseStep, RemoveStep,
     HeaderOpenStep, FailStep, ReadScratchStep, ReadFillStep, ReadFullStep, SendPushStep,
     SendPendingStep, SendOverStep, Zenon DEF Round
<1>3. ASSUME NEW e \in Entry, Read(e) \/ AddConnection(e) \/ Drop(e) PROVE WakeInv'
  <2>1. e \in Task
    BY DEF Task
  <2>2. CASE ReadEos(e) \/ Drop(e)
    BY <2>1, <2>2, CallEndStep
  <2>3. CASE ReadTake(e) \/ ReadWait(e) \/ AddConnection(e)
    BY <2>3, ReadTakeStep, ReadWaitStep, AddConnectionStep, Zenon
  <2> QED
    BY <1>3, <2>2, <2>3, Zenon DEF Read
<1>4. ASSUME NEW t \in Task, Cancel(t) \/ Repoll(t) PROVE WakeInv'
  BY <1>4, CallEndStep, TaskOnlyStep
<1>5. CASE Accept \/ DropListener
  BY <1>5, AcceptTakeStep, AcceptWaitStep, DropListenerStep DEF Accept
<1>6. CASE Peer
  BY <1>6, PeerStep
<1>7. CASE UNCHANGED vars
  <2>1. /\ UNCHANGED <<socket_map, life, buffer, room, reader_pipe_waker, waiting_waker, state>>
        /\ UNCHANGED <<inbox, eof, sockWaker, sendWaker, queue, receiving, listening, peer, sent>>
        /\ UNCHANGED <<transit, setting, eos, taskVars>>
    BY <1>7, Zenon DEF vars, sockVars, entryVars, chanVars, peerVars, appVars
  <2>2. TaskType' /\ Wakes({})
    BY <2>1, SameTasks, Zenon
  <2>3. SockType' /\ EntryType' /\ WakerType' /\ ChanType' /\ PeerType'
    BY <2>1, Zenon DEF WakeInv, Typed, SockType, EntryType, WakerType, ChanType, PeerType
  <2>4. SendHooked' => SendHooked
    BY <2>1, Zenon DEF SendHooked
  <2>5. AcceptHooked'
    BY <2>1, <2>2, <2>4, AcceptKept, Zenon
  <2>6. state' \in SharedReaderState
    BY <2>1, Zenon DEF WakeInv, Typed
  <2> QED
    BY <2>1, <2>2, <2>3, <2>5, <2>6, StillStep, Zenon
<1> QED
  BY <1>1, <1>2, <1>3, <1>4, <1>5, <1>6, <1>7, Zenon DEF Next, Application

\* The inductive invariant behind the three theorems below: whoever waits is hooked
\* to what it waits for, in read.rs and in the channel of lib.rs.
THEOREM WakersStayHooked == Spec => []WakeInv
BY InitWakeInv, NextWakeInv, PTL DEF Spec

\* A reader with bytes in its buffer does not sleep, however many tasks read,
\* yield, are cancelled or poll early: poll_read stores the waker before it goes to
\* the shared reader, and ReaderMut::poll_read calls it after every read.
THEOREM ReadersAreWoken == Spec => []DataWakes
<1>1. WakeInv => DataWakes
  BY Zenon DEF WakeInv, ReaderHooked, DataWakes, Asleep
<1> QED
  BY <1>1, WakersStayHooked, PTL

\* A task that a full buffer stopped, and whose waker no other task has replaced,
\* does not sleep once the buffer has room: ReaderInner::poll_read calls
\* waiting_waker whenever it takes bytes out.
THEOREM RoomIsSignalled == Spec => []RoomWakes
<1>1. WakeInv => RoomWakes
  BY EntryAssumption, Zenon DEF WakeInv, RoomHooked, RoomWakes, Asleep
<1> QED
  BY <1>1, WakersStayHooked, PTL

\* accept does not sleep over a connection, for any capacity of the channel: a
\* hooked accept is woken by the send, and a send is put aside only when there is
\* something to accept (MuxListener::accept and the SendSocket state).
THEOREM AcceptorIsWoken == Spec => []AcceptWakes
<1>1. WakeInv => AcceptWakes
  BY Zenon DEF WakeInv, AcceptHooked, AcceptWakes, Asleep
<1> QED
  BY <1>1, WakersStayHooked, PTL

=============================================================================
