---------------------------- MODULE SharedReader ----------------------------
(***************************************************************************)
(* The read side of the multiplexer (src/read.rs, with accept and the      *)
(* listener of src/lib.rs): the connections share the read half of one     *)
(* TcpStream.  A task that reads, or accepts, and finds nothing polls the  *)
(* shared reader, which parses frames for every connection until the       *)
(* socket is empty.                                                        *)
(*                                                                         *)
(* An entry is one ReaderEntry, that is one session of an address; the     *)
(* connection of entry e is read by task e, and one task accepts.  Tasks   *)
(* run on different threads: a step is what happens under an entry's lock  *)
(* or one round of the loop of ReaderMut::poll under the shared lock.      *)
(*                                                                         *)
(* `woken` has the tasks whose waker was called since their last poll      *)
(* began.  A waiting task is polled again when it is woken.                *)
(*                                                                         *)
(* The peer is a well-behaved one.  Each unit in the socket carries, as a  *)
(* history, the session it was meant for; the code looks at its address.   *)
(***************************************************************************)
EXTENDS Integers, Sequences, FiniteSets

CONSTANTS
    Entry,        \* sessions, as numbers from 1
    Addr,         \* addresses
    None,         \* no task, no entry
    Capacity,     \* 2 * u16::MAX in the code (DEFAULT_BUFFER_CAPACITY)
    HeaderSize,   \* size_of::<MuxFrameHeader>(), 20 in the code
    QueueCap,     \* capacity of the accept channel, 1 in the code
    MaxSent,      \* bound: payload units per session
    MaxFrame,     \* bound: payload units per frame, u16::MAX in the code
    Settings      \* the situations to look at, one of which each behaviour is in

(***************************************************************************)
(* A setting: the address of each session, the sessions opened here by     *)
(* add_connection (the peer opens the others), whether this endpoint is a  *)
(* MuxListener or was made by MuxPipe::new, what may happen beyond         *)
(* opening, sending and reading, and two bounds: payload units per session *)
(* and units in the socket before the peer sends again.                    *)
(***************************************************************************)
Events == {"yield", "close", "short", "late", "drop", "cancel", "repoll", "into_pipe", "eof",
           "ioerror"}

ASSUME EntryAssumption == Entry \subseteq Nat \ {0} /\ None \notin Entry \cup {0}
ASSUME SizeAssumption == {Capacity, HeaderSize, QueueCap, MaxFrame} \subseteq Nat \ {0}
ASSUME SettingAssumption ==
    /\ MaxSent \in Nat
    /\ Settings \subseteq [addrOf : [Entry -> Addr], local : SUBSET Entry, listener : BOOLEAN,
                           may : SUBSET Events, quota : 0 .. MaxSent, backlog : Nat]
ASSUME OneSideOpens ==
    \A k \in Settings : \A e \in k.local : \A g \in Entry \ k.local : k.addrOf[e] # k.addrOf[g]

VARIABLES
    setting,       \* never changes
    inbox,         \* units in the socket and in the BufReader, not yet read
    transit,       \* the rest of a frame that the peer has sent
    eof,           \* the peer has closed the TCP stream
    sockWaker,     \* the last task that the socket answered Pending
    socket_map,    \* address -> entry its Weak points to, or None
    life,          \* what has become of each entry
    buffer,        \* unread payload of each entry
    room,          \* cells of each ReadBuffer behind the filled part
    reader_pipe_waker, waiting_waker,
    state,         \* SharedReaderState
    sendWaker,     \* waker of the pending SendFut
    queue,         \* entries in the accept channel
    receiving,     \* a pending recv_async is hooked to the channel
    listening,     \* the MuxListener, and so the receiver, exists
    lock,          \* holder of locked_state
    pc,            \* "idle", "wait" (a poll returned Pending), "shared", "poll"
    woken,
    peer,          \* each session as the peer sees it: "new", "open", "closed"
    sent,          \* history: payload units the peer has sent per session
    given,         \* history: payload units stored per session
    out,           \* history: payload handed to the application
    eos,           \* sessions whose reader was told the end of the stream
    blockedOn      \* history: the full entry a waiting task was stopped by, or None

sockVars  == <<inbox, eof, sockWaker>>
wakerVars == <<reader_pipe_waker, waiting_waker>>
entryVars == <<life, buffer, room, given>>
chanVars  == <<sendWaker, queue, receiving, listening>>
taskVars  == <<lock, pc, woken, blockedOn>>
peerVars  == <<peer, sent, transit, setting>>
appVars   == <<out, eos>>
outsideVars == <<peerVars, appVars>>
vars == <<sockVars, socket_map, entryVars, reader_pipe_waker, waiting_waker,
          state, chanVars, taskVars, peerVars, appVars>>

AddrOf == setting.addrOf
May == setting.may

Acceptor == 0
Task == Entry \cup {Acceptor}

Unit == [s : Entry, len : 0 .. MaxFrame, n : 0 .. MaxSent]
next_packet == [tag |-> "NextPacket", filled |-> 0]
SharedReaderState ==
         [tag : {"NextPacket"}, filled : 0 .. HeaderSize - 1]
    \cup [tag : {"Read"}, owner : Addr, left : 1 .. MaxFrame]
    \cup [tag : {"SendSocket"}, e : Entry, hooked : BOOLEAN]
    \cup [tag : {"Removing"}, e : Entry, waker : Task \cup {None}]
    \cup [tag : {"Error"}]

SockType ==
    /\ setting \in Settings
    /\ inbox \in Seq(Unit) /\ transit \in Seq(Unit) /\ eof \in BOOLEAN
    /\ sockWaker \in Task \cup {None}

EntryType ==
    /\ socket_map \in [Addr -> Entry \cup {None}]
    /\ life \in [Entry -> {"unused", "sending", "queued", "open", "dropped"}]
    /\ buffer \in [Entry -> Seq(0 .. MaxSent)] /\ room \in [Entry -> 0 .. Capacity]
    /\ \A e \in Entry : Len(buffer[e]) + room[e] <= Capacity

WakerType ==
    /\ reader_pipe_waker \in [Entry -> Task \cup {None}]
    /\ waiting_waker \in [Entry -> Task \cup {None}]

ChanType ==
    /\ sendWaker \in Task \cup {None} /\ queue \in Seq(Entry)
    /\ receiving \in BOOLEAN /\ listening \in BOOLEAN

\* A task is inside ReaderMut::poll exactly while it holds the shared lock.
TaskType ==
    /\ lock \in Task \cup {None}
    /\ pc \in [Task -> {"idle", "wait", "shared", "poll"}]
    /\ \A t \in Task : pc[t] = "poll" <=> lock = t
    /\ woken \subseteq {t \in Task : pc[t] # "idle"}
    /\ blockedOn \in [Task -> Entry \cup {None}]

PeerType ==
    /\ peer \in [Entry -> {"new", "open", "closed"}]
    /\ sent \in [Entry -> 0 .. MaxSent] /\ eos \subseteq Entry

Typed ==
    /\ SockType /\ EntryType /\ WakerType /\ state \in SharedReaderState
    /\ ChanType /\ TaskType /\ PeerType

\* The types of the variables; no buffer overflows, and no session is given more
\* payload than a peer may send.
TypeOK == Typed /\ given \in [Entry -> 0 .. MaxSent]

Init ==
    /\ setting \in Settings
    /\ inbox = << >> /\ transit = << >> /\ eof = FALSE /\ sockWaker = None
    /\ socket_map = [a \in Addr |-> None]
    /\ life = [e \in Entry |-> "unused"]
    /\ buffer = [e \in Entry |-> << >>]
    /\ room = [e \in Entry |-> Capacity]
    /\ reader_pipe_waker = [e \in Entry |-> None]
    /\ waiting_waker = [e \in Entry |-> None]
    /\ state = next_packet
    /\ queue = << >> /\ sendWaker = None /\ receiving = FALSE /\ listening = setting.listener
    /\ lock = None /\ pc = [t \in Task |-> "idle"] /\ woken = {}
    /\ peer = [e \in Entry |-> "new"]
    /\ sent = [e \in Entry |-> 0] /\ given = [e \in Entry |-> 0]
    /\ out = [e \in Entry |-> << >>] /\ eos = {}
    /\ blockedOn = [t \in Task |-> None]

-----------------------------------------------------------------------------
(* Wakers and returns *)

\* The tasks of S are woken; a task outside a poll has nothing to wake.
Woke(S) == woken \cup {t \in S \cap Task : pc[t] # "idle"}

\* A poll begins: a new call, or a pending one whose task was woken.
Polled(t) == pc[t] = "idle" \/ (pc[t] = "wait" /\ t \in woken)

\* The call that t is in ends, and the tasks of S are woken.
Return(t, S) ==
    /\ pc' = [pc EXCEPT ![t] = "idle"]
    /\ woken' = Woke(S) \ {t}
    /\ blockedOn' = [blockedOn EXCEPT ![t] = None]

\* The holder of the shared lock returns Pending, or an error.
Pending(t, S) ==
    /\ lock' = None
    /\ pc' = [pc EXCEPT ![t] = "wait"]
    /\ woken' = Woke(S)
    /\ UNCHANGED blockedOn
Fail(t, S) ==
    /\ lock' = None
    /\ receiving' = (receiving /\ t # Acceptor)
    /\ Return(t, S)
    /\ UNCHANGED <<sendWaker, queue, listening>>

\* A round of ReaderMut::poll is over: consume_budget lets the task go on, or
\* makes it yield, which wakes it.
Loop(t, S) == \/ UNCHANGED <<lock, pc, blockedOn>> /\ woken' = Woke(S)
              \/ "yield" \in May /\ Pending(t, S \cup {t})

-----------------------------------------------------------------------------
(* ReaderInner::poll_read and MuxListener::accept, up to the shared lock *)

\* Arc::weak_count of the entry is not zero.
Weakly(e) == \/ \E a \in Addr : socket_map[a] = e
             \/ state.tag = "Removing" /\ state.e = e

\* Nothing to hand out yet: the task goes on to poll the shared reader.
ToShared(t) ==
    /\ pc' = [pc EXCEPT ![t] = "shared"]
    /\ woken' = woken \ {t}
    /\ blockedOn' = [blockedOn EXCEPT ![t] = None]
    /\ UNCHANGED lock

Reading(e) == life[e] = "open" /\ e \notin eos /\ Polled(e)

\* MUTANT: bytes read do not wake the task that waits for room.
ReadTakeSilent(e) ==
    /\ Reading(e)
    /\ \E n \in 1 .. Len(buffer[e]) :
         /\ out' = [out EXCEPT ![e] = @ \o SubSeq(buffer[e], 1, n)]
         /\ buffer' = [buffer EXCEPT ![e] = SubSeq(@, n + 1, Len(@))]
         /\ room' = [room EXCEPT ![e] = IF n = Len(buffer[e]) THEN Capacity ELSE @]
    /\ Return(e, {})
    /\ UNCHANGED <<sockVars, socket_map, life, given, wakerVars, state, chanVars, lock, peerVars, eos>>

\* The entry has bytes: some are handed out, the block starts over once it is
\* read to the end, and the task that waits for room is woken.
ReadTake(e) ==
    /\ Reading(e)
    /\ \E n \in 1 .. Len(buffer[e]) :
         /\ out' = [out EXCEPT ![e] = @ \o SubSeq(buffer[e], 1, n)]
         /\ buffer' = [buffer EXCEPT ![e] = SubSeq(@, n + 1, Len(@))]
         /\ room' = [room EXCEPT ![e] = IF n = Len(buffer[e]) THEN Capacity ELSE @]
    /\ Return(e, {waiting_waker[e]})
    /\ UNCHANGED <<sockVars, socket_map, life, given, wakerVars, state, chanVars, lock, peerVars, eos>>

\* No bytes and no Weak left: the end of the stream.
ReadEos(e) ==
    /\ Reading(e) /\ buffer[e] = << >> /\ ~Weakly(e)
    /\ eos' = eos \cup {e}
    /\ Return(e, {})
    /\ UNCHANGED <<sockVars, socket_map, entryVars, wakerVars, state, chanVars, lock, peerVars, out>>

\* No bytes: the task leaves its waker and goes on.
ReadWait(e) ==
    /\ Reading(e) /\ buffer[e] = << >> /\ Weakly(e)
    /\ reader_pipe_waker' = [reader_pipe_waker EXCEPT ![e] = e]
    /\ ToShared(e)
    /\ UNCHANGED <<sockVars, socket_map, entryVars, waiting_waker,
                   state, chanVars, outsideVars>>

\* The SendFut has put its item aside because the channel was full.
SendHooked == state.tag = "SendSocket" /\ state.hooked /\ life[state.e] = "sending"

\* A connection is in the channel: accept takes it, and flume moves a pending
\* send into the channel and wakes the sender.
AcceptTake ==
    LET e == Head(queue)
    IN  /\ listening /\ Polled(Acceptor) /\ queue # << >>
        /\ queue' = Tail(queue) \o (IF SendHooked THEN <<state.e>> ELSE << >>)
        /\ life' = [x \in Entry |-> IF x = e THEN "open"
                                    ELSE IF SendHooked /\ x = state.e THEN "queued" ELSE life[x]]
        /\ receiving' = FALSE
        /\ Return(Acceptor, IF SendHooked THEN {sendWaker} ELSE {})
        /\ UNCHANGED <<sockVars, socket_map, buffer, room, given, reader_pipe_waker,
                       waiting_waker, state, sendWaker, listening, lock, outsideVars>>

\* The channel is empty: recv_async stays hooked and the shared reader is polled.
AcceptWait ==
    /\ listening /\ Polled(Acceptor) /\ queue = << >>
    /\ receiving' = TRUE
    /\ ToShared(Acceptor)
    /\ UNCHANGED <<sockVars, socket_map, entryVars, wakerVars, state, sendWaker, queue, listening, outsideVars>>

\* SharedReader::poll takes the lock.
Lock(t) ==
    /\ pc[t] = "shared" /\ lock = None
    /\ lock' = t
    /\ pc' = [pc EXCEPT ![t] = "poll"]
    /\ UNCHANGED <<sockVars, socket_map, entryVars, wakerVars, state, chanVars, woken, blockedOn, outsideVars>>

-----------------------------------------------------------------------------
(* The socket *)

\* The holder polls the socket in this state.
Polling(t, tag) == lock = t /\ state.tag = tag

\* A socket with nothing to give is Pending and keeps the last waker only.
SocketPending(t) ==
    /\ inbox = << >> /\ ~eof
    /\ sockWaker' = t
    /\ Pending(t, {})
    /\ UNCHANGED <<inbox, eof>>

Least(m, n) == IF m < n THEN m ELSE n

\* One read of at most `max` units.  The BufReader may have fewer buffered than
\* have arrived: a short read may end anywhere.
Took(n, max) ==
    LET most == Least(Len(inbox), max)
    IN  /\ n \in 1 .. most
        /\ "short" \in May \/ n = most
        /\ inbox' = SubSeq(inbox, n + 1, Len(inbox))
        /\ UNCHANGED <<eof, sockWaker>>

-----------------------------------------------------------------------------
(* ReaderMut::poll_next_packet *)

HeaderPending(t) ==
    /\ Polling(t, "NextPacket")
    /\ SocketPending(t)
    /\ UNCHANGED <<socket_map, entryVars, wakerVars, state, chanVars, outsideVars>>

\* The header is not complete: Pending, although the socket was not.
HeaderPart(t) ==
    /\ Polling(t, "NextPacket")
    /\ \E n \in 1 .. HeaderSize : /\ Took(n, HeaderSize - state.filled)
                                  /\ state.filled + n < HeaderSize
                                  /\ state' = [state EXCEPT !.filled = @ + n]
    /\ Pending(t, {})
    /\ UNCHANGED <<socket_map, entryVars, wakerVars, chanVars, outsideVars>>

\* The rest of a header is read.
HeaderFull(t) ==
    /\ Polling(t, "NextPacket")
    /\ Len(inbox) >= HeaderSize - state.filled
    /\ Took(HeaderSize - state.filled, HeaderSize - state.filled)

header == Head(inbox)
addr == AddrOf[header.s]

\* MUTANT: the header alone ends the poll, although the socket was not Pending.
HeaderDataPending(t) ==
    /\ HeaderFull(t) /\ header.len > 0
    /\ state' = [tag |-> "Read", owner |-> addr, left |-> header.len]
    /\ Pending(t, {})
    /\ UNCHANGED <<socket_map, entryVars, wakerVars, chanVars, outsideVars>>

\* Payload follows.
HeaderData(t) ==
    /\ HeaderFull(t) /\ header.len > 0
    /\ state' = [tag |-> "Read", owner |-> addr, left |-> header.len]
    /\ Loop(t, {})
    /\ UNCHANGED <<socket_map, entryVars, wakerVars, chanVars, outsideVars>>

\* MUTANT: the entry of a dropped connection is not removed.
HeaderCloseLive(t) ==
    /\ HeaderFull(t) /\ header.len = 0 /\ socket_map[addr] # None
    /\ \/ /\ life[socket_map[addr]] # "dropped"
          /\ socket_map' = [socket_map EXCEPT ![addr] = None]
          /\ state' = [tag |-> "Removing", e |-> socket_map[addr],
                       waker |-> reader_pipe_waker[socket_map[addr]]]
          /\ UNCHANGED taskVars
       \/ /\ life[socket_map[addr]] = "dropped"
          /\ state' = next_packet
          /\ Loop(t, {})
          /\ UNCHANGED socket_map
    /\ UNCHANGED <<entryVars, wakerVars, chanVars, outsideVars>>

\* MUTANT: a closing frame is read and forgotten.
HeaderCloseIgnored(t) ==
    /\ HeaderFull(t) /\ header.len = 0 /\ socket_map[addr] # None
    /\ state' = next_packet
    /\ Loop(t, {})
    /\ UNCHANGED <<socket_map, entryVars, wakerVars, chanVars, outsideVars>>

\* An empty frame for a known address: remove.  A live entry's waker is copied
\* first, under the entry's lock.
HeaderClose(t) ==
    /\ HeaderFull(t) /\ header.len = 0 /\ socket_map[addr] # None
    /\ socket_map' = [socket_map EXCEPT ![addr] = None]
    /\ \/ /\ life[socket_map[addr]] # "dropped"
          /\ state' = [tag |-> "Removing", e |-> socket_map[addr],
                       waker |-> reader_pipe_waker[socket_map[addr]]]
          /\ UNCHANGED taskVars
       \/ /\ life[socket_map[addr]] = "dropped"
          /\ state' = next_packet
          /\ Loop(t, {})
    /\ UNCHANGED <<entryVars, wakerVars, chanVars, outsideVars>>

\* remove goes on: the Weak is dropped, then the copied waker is called.
Remove(t) ==
    /\ Polling(t, "Removing")
    /\ state' = next_packet
    /\ Loop(t, {state.waker})
    /\ UNCHANGED <<sockVars, socket_map, entryVars, wakerVars, chanVars, outsideVars>>

\* An empty frame for an unknown address opens it, if somebody can accept it.
HeaderOpen(t) ==
    /\ HeaderFull(t) /\ header.len = 0 /\ socket_map[addr] = None
    /\ \/ /\ ~listening
          /\ state' = next_packet
          /\ UNCHANGED <<socket_map, life, waiting_waker>>
       \/ /\ listening
          /\ socket_map' = [socket_map EXCEPT ![addr] = header.s]
          /\ life' = [life EXCEPT ![header.s] = "sending"]
          /\ waiting_waker' = [waiting_waker EXCEPT ![header.s] = t]
          /\ state' = [tag |-> "SendSocket", e |-> header.s, hooked |-> FALSE]
    /\ Loop(t, {})
    /\ UNCHANGED <<buffer, room, given, reader_pipe_waker, chanVars, outsideVars>>

\* The end of the TCP stream, before or inside a header.
HeaderEof(t) ==
    /\ Polling(t, "NextPacket") /\ inbox = << >> /\ eof
    /\ state' = [tag |-> "Error"]
    /\ Fail(t, {})
    /\ UNCHANGED <<sockVars, socket_map, entryVars, wakerVars, outsideVars>>

-----------------------------------------------------------------------------
(* ReaderMut::poll_read *)

owner == socket_map[state.owner]

\* The Weak in the map can be upgraded.
Live == owner # None /\ life[owner] # "dropped"

\* MUTANT: one read is taken for the whole payload.
AfterReadOnce(n) == next_packet

\* After n units of the payload.
AfterRead(n) == IF state.left = n THEN next_packet ELSE [state EXCEPT !.left = @ - n]

ReadPending(t) ==
    /\ Polling(t, "Read") /\ (Live => room[owner] > 0)
    /\ SocketPending(t)
    /\ UNCHANGED <<socket_map, entryVars, wakerVars, state, chanVars, outsideVars>>

\* Nobody to read it: the payload is thrown away.
ReadScratch(t) ==
    /\ Polling(t, "Read") /\ ~Live
    /\ \E n \in 1 .. state.left : Took(n, state.left) /\ state' = AfterRead(n)
    /\ Loop(t, {})
    /\ UNCHANGED <<socket_map, entryVars, wakerVars, chanVars, outsideVars>>

\* The next n units as the entry sees them; a unit of another session is a 0.
Payload(n) == [i \in 1 .. n |-> IF inbox[i].s = owner THEN inbox[i].n ELSE 0]

\* n units go from the socket into the owner's buffer.
Filled(n) ==
    /\ buffer' = [buffer EXCEPT ![owner] = @ \o Payload(n)]
    /\ room' = [room EXCEPT ![owner] = @ - n]
    /\ given' = [given EXCEPT ![owner] = @ + n]
    /\ state' = AfterRead(n)
    /\ UNCHANGED life

\* MUTANT: the room left in the buffer does not limit the read.
ReadFillUnbounded(t) ==
    /\ Polling(t, "Read") /\ Live /\ room[owner] > 0
    /\ \E n \in 1 .. state.left : Took(n, state.left) /\ Filled(n)
    /\ Loop(t, {reader_pipe_waker[owner]})
    /\ UNCHANGED <<socket_map, wakerVars, chanVars, outsideVars>>

\* MUTANT: the reader is not woken.
ReadFillSilent(t) ==
    /\ Polling(t, "Read") /\ Live /\ room[owner] > 0
    /\ \E n \in 1 .. state.left : Took(n, Least(state.left, room[owner])) /\ Filled(n)
    /\ Loop(t, {})
    /\ UNCHANGED <<socket_map, wakerVars, chanVars, outsideVars>>

\* Payload goes into the buffer of its owner, who is woken.
ReadFill(t) ==
    /\ Polling(t, "Read") /\ Live /\ room[owner] > 0
    /\ \E n \in 1 .. state.left : Took(n, Least(state.left, room[owner])) /\ Filled(n)
    /\ Loop(t, {reader_pipe_waker[owner]})
    /\ UNCHANGED <<socket_map, wakerVars, chanVars, outsideVars>>

\* The buffer is full: its reader is woken and the task waits for room.
ReadFull(t) ==
    /\ Polling(t, "Read") /\ Live /\ room[owner] = 0
    /\ waiting_waker' = [waiting_waker EXCEPT ![owner] = t]
    /\ lock' = None
    /\ pc' = [pc EXCEPT ![t] = "wait"]
    /\ woken' = Woke({reader_pipe_waker[owner]})
    /\ blockedOn' = [blockedOn EXCEPT ![t] = owner]
    /\ UNCHANGED <<sockVars, socket_map, entryVars, reader_pipe_waker, state,
                   chanVars, outsideVars>>

\* The end of the TCP stream inside a payload.
ReadEof(t) ==
    /\ Polling(t, "Read") /\ (Live => room[owner] > 0)
    /\ inbox = << >> /\ eof
    /\ state' = [tag |-> "Error"]
    /\ Fail(t, IF Live THEN {reader_pipe_waker[owner]} ELSE {})
    /\ UNCHANGED <<sockVars, socket_map, entryVars, wakerVars, outsideVars>>

-----------------------------------------------------------------------------
(* SendSocket and Error *)

\* MUTANT: the waiting accept is not woken.
SendPushSilent(t) ==
    /\ Polling(t, "SendSocket") /\ ~state.hooked /\ listening
    /\ receiving \/ Len(queue) < QueueCap
    /\ queue' = Append(queue, state.e)
    /\ life' = [life EXCEPT ![state.e] = "queued"]
    /\ receiving' = FALSE
    /\ state' = next_packet
    /\ Loop(t, {})
    /\ UNCHANGED <<sockVars, socket_map, buffer, room, given, wakerVars, sendWaker,
                   listening, outsideVars>>

\* The channel takes the connection; a hooked accept is woken.
SendPush(t) ==
    /\ Polling(t, "SendSocket") /\ ~state.hooked /\ listening
    /\ receiving \/ Len(queue) < QueueCap
    /\ queue' = Append(queue, state.e)
    /\ life' = [life EXCEPT ![state.e] = "queued"]
    /\ receiving' = FALSE
    /\ state' = next_packet
    /\ Loop(t, IF receiving THEN {Acceptor} ELSE {})
    /\ UNCHANGED <<sockVars, socket_map, buffer, room, given, wakerVars, sendWaker,
                   listening, outsideVars>>

\* The channel is full: the item is put aside, or still is.
SendPending(t) ==
    /\ Polling(t, "SendSocket") /\ listening
    /\ SendHooked \/ (~state.hooked /\ ~receiving /\ Len(queue) >= QueueCap)
    /\ state' = [state EXCEPT !.hooked = TRUE]
    /\ sendWaker' = t
    /\ Pending(t, {})
    /\ UNCHANGED <<sockVars, socket_map, entryVars, wakerVars, queue, receiving,
                   listening, outsideVars>>

\* The item was moved into the channel meanwhile.
SendDone(t) ==
    /\ Polling(t, "SendSocket") /\ life[state.e] # "sending"
    /\ state' = next_packet
    /\ Loop(t, {})
    /\ UNCHANGED <<sockVars, socket_map, entryVars, wakerVars, chanVars, outsideVars>>

\* The receiver is gone: the send fails and its item is dropped with the error,
\* but the entry stays in the map.
SendFailed(t) ==
    /\ Polling(t, "SendSocket") /\ ~listening /\ life[state.e] = "sending"
    /\ life' = [life EXCEPT ![state.e] = "dropped"]
    /\ state' = next_packet
    /\ Loop(t, {})
    /\ UNCHANGED <<sockVars, socket_map, buffer, room, given, wakerVars, chanVars,
                   outsideVars>>

\* A reader that has failed answers every poll with an error.
ErrorPoll(t) ==
    /\ Polling(t, "Error")
    /\ Fail(t, {})
    /\ UNCHANGED <<sockVars, socket_map, entryVars, wakerVars, state, outsideVars>>

\* The socket answers with an error, which `?` hands to the caller alone.
IoError(t) ==
    /\ "ioerror" \in May
    /\ Polling(t, "NextPacket") \/ (Polling(t, "Read") /\ (Live => room[owner] > 0))
    /\ Fail(t, {})
    /\ UNCHANGED <<sockVars, socket_map, entryVars, wakerVars, state, outsideVars>>

-----------------------------------------------------------------------------
(* The application *)

\* add_connection of an address that is not in the map; one that is gets
\* AddrInUse and changes nothing.  The peer learns of it by the handshake.
AddConnection(e) ==
    /\ e \in setting.local /\ peer[e] = "new" /\ lock = None
    /\ socket_map[AddrOf[e]] = None
    /\ socket_map' = [socket_map EXCEPT ![AddrOf[e]] = e]
    /\ life' = [life EXCEPT ![e] = "open"]
    /\ peer' = [peer EXCEPT ![e] = "open"]
    /\ UNCHANGED <<sockVars, buffer, room, given, wakerVars, state, chanVars, taskVars,
                   sent, transit, setting, appVars>>

\* A connection is dropped, with its pending read if there is one.
Drop(e) ==
    /\ "drop" \in May /\ life[e] = "open" /\ pc[e] \in {"idle", "wait"}
    /\ life' = [life EXCEPT ![e] = "dropped"]
    /\ Return(e, {})
    /\ UNCHANGED <<sockVars, socket_map, buffer, room, given, wakerVars, state, chanVars,
                   lock, outsideVars>>

\* A pending read or accept is dropped.
Cancel(t) ==
    /\ "cancel" \in May /\ pc[t] = "wait"
    /\ receiving' = (receiving /\ t # Acceptor)
    /\ Return(t, {})
    /\ UNCHANGED <<sockVars, socket_map, entryVars, wakerVars, state, sendWaker, queue,
                   listening, lock, outsideVars>>

\* A task polls again without having been woken (it has other futures).
Repoll(t) ==
    /\ "repoll" \in May /\ pc[t] = "wait" /\ t \notin woken
    /\ woken' = woken \cup {t}
    /\ UNCHANGED <<sockVars, socket_map, entryVars, wakerVars, state, chanVars, lock, pc,
                   blockedOn, outsideVars>>

\* into_pipe, or the listener is dropped: the pending send is woken.  What is in
\* the channel may be freed or stay there, unread for ever.
DropListener ==
    /\ "into_pipe" \in May /\ listening /\ pc[Acceptor] = "idle"
    /\ listening' = FALSE
    /\ \/ UNCHANGED <<queue, life>>
       \/ /\ queue' = << >>
          /\ life' = [e \in Entry |-> IF life[e] = "queued" THEN "dropped" ELSE life[e]]
    /\ woken' = Woke(IF SendHooked THEN {sendWaker} ELSE {})
    /\ UNCHANGED <<sockVars, socket_map, buffer, room, given, wakerVars, state, sendWaker,
                   receiving, lock, pc, blockedOn, outsideVars>>

-----------------------------------------------------------------------------
(* The peer *)

Frame(e, k) == [i \in 1 .. HeaderSize |-> [s |-> e, len |-> k, n |-> 0]]
            \o [i \in 1 .. k |-> [s |-> e, len |-> 0, n |-> sent[e] + i]]

\* Units arrive: the socket wakes the task it remembers, once.
Arrive(units) ==
    /\ inbox' = inbox \o units
    /\ sockWaker' = None
    /\ woken' = Woke({sockWaker})
    /\ UNCHANGED <<socket_map, entryVars, wakerVars, state, chanVars, lock, pc, blockedOn,
                   appVars, setting>>

\* The peer writes to the stream, and TCP may deliver a part first.
Write(units) ==
    /\ ~eof /\ transit = << >> /\ Len(inbox) <= setting.backlog
    /\ \E k \in {Len(units)} \cup (IF "late" \in May THEN 1 .. Len(units) ELSE {}) :
         /\ Arrive(SubSeq(units, 1, k))
         /\ transit' = SubSeq(units, k + 1, Len(units))

\* The rest arrives.
Deliver ==
    /\ transit # << >>
    /\ Arrive(transit)
    /\ transit' = << >>
    /\ UNCHANGED <<eof, peer, sent>>

PeerOpen(e) ==
    /\ e \notin setting.local /\ peer[e] = "new"
    /\ \A f \in Entry : AddrOf[f] = AddrOf[e] => peer[f] # "open"
    /\ Write(Frame(e, 0)) /\ UNCHANGED eof
    /\ peer' = [peer EXCEPT ![e] = "open"]
    /\ UNCHANGED sent

PeerData(e) ==
    /\ peer[e] = "open"
    /\ \E k \in 1 .. MaxFrame : /\ sent[e] + k <= setting.quota
                                /\ Write(Frame(e, k)) /\ UNCHANGED eof
                                /\ sent' = [sent EXCEPT ![e] = @ + k]
    /\ UNCHANGED peer

PeerClose(e) ==
    /\ "close" \in May /\ peer[e] = "open"
    /\ Write(Frame(e, 0)) /\ UNCHANGED eof
    /\ peer' = [peer EXCEPT ![e] = "closed"]
    /\ UNCHANGED sent

\* The TCP stream ends, between two frames or inside one.
PeerEof ==
    /\ "eof" \in May
    /\ \/ Write(<< >>)
       \/ \E e \in Entry, j \in 1 .. HeaderSize :
            peer[e] = "open" /\ Write(SubSeq(Frame(e, 1), 1, j))
    /\ eof' = TRUE
    /\ UNCHANGED <<peer, sent>>

-----------------------------------------------------------------------------

\* One round of the loop of ReaderMut::poll, under the lock.
Round(t) ==
    \/ HeaderPending(t) \/ HeaderPart(t) \/ HeaderData(t) \/ HeaderClose(t)
    \/ Remove(t) \/ HeaderOpen(t) \/ HeaderEof(t)
    \/ ReadPending(t) \/ ReadScratch(t) \/ ReadFill(t) \/ ReadFull(t) \/ ReadEof(t)
    \/ SendPush(t) \/ SendPending(t) \/ SendDone(t) \/ SendFailed(t)
    \/ ErrorPoll(t) \/ IoError(t)

Read(e) == ReadTake(e) \/ ReadEos(e) \/ ReadWait(e)
Accept == AcceptTake \/ AcceptWait

Application ==
    \/ \E e \in Entry : Read(e) \/ AddConnection(e) \/ Drop(e)
    \/ \E t \in Task : Cancel(t) \/ Repoll(t)
    \/ Accept \/ DropListener

Peer == Deliver \/ PeerEof \/ \E e \in Entry : PeerOpen(e) \/ PeerData(e) \/ PeerClose(e)

Next == \/ \E t \in Task : Lock(t) \/ Round(t)
        \/ Application
        \/ Peer

Spec == Init /\ [][Next]_vars

\* The executor polls a woken task, parking_lot's mutex is eventually fair, the
\* application keeps reading and accepting, and TCP delivers what was sent.
FairSpec ==
    /\ Spec
    /\ \A t \in Task : SF_vars(Lock(t)) /\ WF_vars(Round(t))
    /\ \A e \in Entry : WF_vars(Read(e))
    /\ WF_vars(Accept) /\ WF_vars(Deliver)

-----------------------------------------------------------------------------

\* t waits and nobody has called its waker.
Asleep(t) == pc[t] = "wait" /\ t \notin woken

\* The demultiplexer: however the tasks interleave, each entry is a bounded queue
\* of the payload of its own session, every unit once and in order.
Session(e) == INSTANCE ByteQueue WITH q <- buffer[e], given <- given[e], taken <- out[e]

\* Each receive buffer implements that queue under poll_read of both sides.
Demultiplexed ==
    /\ \A e \in Entry : Session(e)!QInit
    /\ [][\A e \in Entry : [Session(e)!QNext]_<<buffer[e], given[e], out[e]>>]_vars

\* The end of the stream is reported (weak_count = 0 in poll_read) only after
\* the peer closed the session and the application got all that was sent.
EosComplete == \A e \in eos : peer[e] = "closed" /\ Len(out[e]) = sent[e]

\* A reader with bytes in its buffer does not sleep: whoever filled the buffer
\* called reader_pipe_waker, also when the reader was on its way to the lock.
DataWakes == \A e \in Entry : life[e] = "open" /\ Asleep(e) => buffer[e] = << >>

\* "the polling only waits if the buffer is full" (ReaderInner::poll_read): a
\* task stopped by a full buffer and not replaced in waiting_waker sleeps only
\* while that buffer is full.
RoomWakes ==
    \A e \in Entry : \A t \in Task :
        /\ waiting_waker[e] = t /\ blockedOn[t] = e /\ Asleep(t)
        => room[e] = 0

\* accept does not sleep over a connection that is in the channel, or held back
\* by a pending send because the channel was full.
AcceptWakes == listening /\ Asleep(Acceptor) => queue = << >> /\ ~SendHooked

\* Once all that arrived is parsed the map holds exactly the sessions the peer
\* has open, dropped connections included: the toggle of poll_next_packet is in
\* step with the peer, and an address is free again after the peer's close.
MapAgrees ==
    inbox = << >> /\ transit = << >> /\ state = next_packet =>
        \A e \in Entry : life[e] # "unused" =>
            (socket_map[AddrOf[e]] = e <=> peer[e] = "open")

\* No lost wake-up: when every connection is being read, somebody is accepting
\* and all of them sleep, there is nothing to read in the socket.
NoLostWakeup ==
    /\ listening => Asleep(Acceptor)
    /\ \A e \in Entry : life[e] = "open" /\ e \notin eos => Asleep(e)
    /\ listening \/ \E e \in Entry : life[e] = "open" /\ e \notin eos
    => inbox = << >>

-----------------------------------------------------------------------------
(***************************************************************************)
(* The inductive invariant behind DataWakes, RoomWakes and AcceptWakes: it *)
(* speaks of a task from the moment it leaves its waker, before it has the *)
(* shared lock, to the moment it is polled again.                          *)
(***************************************************************************)

\* A reader that was not woken since it looked has its waker in its entry, and
\* nothing has come.
ReaderHooked ==
    \A e \in Entry : pc[e] # "idle" /\ e \notin woken =>
        reader_pipe_waker[e] = e /\ buffer[e] = << >>

\* A task that a full buffer stopped, and that was not woken, still waits for room.
RoomHooked ==
    \A t \in Task : blockedOn[t] # None =>
        /\ pc[t] = "wait"
        /\ waiting_waker[blockedOn[t]] = t /\ t \notin woken => room[blockedOn[t]] = 0

\* An accept that was not woken since it looked is hooked to an empty channel;
\* a send is put aside only while the channel has something to accept.
AcceptHooked ==
    listening =>
        /\ SendHooked => queue # << >>
        /\ pc[Acceptor] # "idle" /\ Acceptor \notin woken => queue = << >> /\ receiving

\* Between leaving its waker (poll_read, accept) and the call of that waker a task has
\* nothing it could do.
WakeInv == Typed /\ ReaderHooked /\ RoomHooked /\ AcceptHooked

-----------------------------------------------------------------------------

\* If everybody keeps reading and accepting, what the peer sends on a session is
\* read by its application.
EventuallyRead ==
    \A e \in Entry : \A n \in 1 .. MaxSent : (sent[e] >= n) ~> (Len(out[e]) >= n)
=============================================================================
