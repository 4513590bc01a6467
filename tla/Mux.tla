-------------------------------- MODULE Mux --------------------------------
(***************************************************************************)
(* Two endpoints of the multiplexer over one TCP stream, frame by frame:   *)
(* add_connection, accept, write, shutdown and drop (src/lib.rs,           *)
(* src/write.rs) against the demultiplexer of the other side               *)
(* (src/read.rs).  That frames stay whole is WriteInner's subject, that    *)
(* payload reaches its entry SharedReader's; here the subject is the       *)
(* protocol: an empty frame has no meaning of its own, it opens an address *)
(* its receiver does not know and closes one it does.                      *)
(*                                                                         *)
(* A session is one intended connection: made by add_connection at its     *)
(* opener, and by the opening frame at the other end.  A frame carries its *)
(* session, its kind and, for data, its number as history: the receiver    *)
(* only sees the address and whether the frame is empty.  The kind of an   *)
(* empty frame is its place in the session: the first one of the opener    *)
(* opens, every other one closes.                                          *)
(***************************************************************************)
EXTENDS ThinAddr

CONSTANTS
    Session,      \* intended connections
    Settings,     \* std addresses for the sessions, each with a bound on data frames
    Opener,       \* the endpoint whose application opens each session
    None,
    MaxSent,      \* bound: data frames per session and direction
    ReopenAfter,  \* the application opens an address again when its earlier
                  \* connections are in one of these states
    MayDrop,      \* add_connection may be cancelled, and connections dropped before
                  \* their shutdown is done
    MayUnlisten   \* a listener may be turned into a pipe

Endpoint == {"client", "server"}
Other(p) == CHOOSE q \in Endpoint : q # p

ASSUME SessionAssumption ==
    /\ Settings \subseteq [book : [Session -> V4 \cup V6], quota : 0 .. MaxSent]
    /\ Opener \in [Session -> Endpoint]
ASSUME MuxNone == None \notin Session
ASSUME MuxBounds == MaxSent \in Nat /\ {MayDrop, MayUnlisten} \subseteq BOOLEAN

VARIABLES
    setting,      \* the addresses the application has, and the bound; never changes
    wire,         \* frames on their way to each endpoint
    socket_map,   \* address -> session whose entry it points to, or None
    conn,         \* what each endpoint has of each session
    listening,    \* the endpoint has a MuxListener
    sent,         \* history: data frames sent
    got,          \* history: data frames stored in the entry; a foreign one is a 0
    ended         \* history: sessions whose entry was removed by the peer's close

vars == <<setting, wire, socket_map, conn, listening, sent, got, ended>>

\* The addresses as vt-muxer knows them.
Thin == [z \in {k.book[s] : k \in Settings, s \in Session} |-> from_std(z)]
Addr == {Thin[z] : z \in DOMAIN Thin}
book == setting.book
AddrOf == [s \in Session |-> Thin[book[s]]]

\* "inserted": add_connection before its handshake is out; "cancelled": it was given
\* up there, and the task of its writer has yet to send a frame; "queued": in the accept
\* channel; "open": in use; "shutting": shutdown is pending; "shut": it returned;
\* "closing": dropped, and its task has yet to send the closing frame; "gone": closed
\* and dropped; "abandoned": dropped, and no closing frame follows; "lost": freed in
\* the channel, where it had no writer that could close it.
ConnStates == {"none", "inserted", "cancelled", "queued", "open", "shutting", "shut",
               "closing", "gone", "abandoned", "lost"}

ASSUME ReopenAssumption == ReopenAfter \subseteq ConnStates

Frames == [s : Session, kind : {"open", "data", "close"}, n : 0 .. MaxSent]

TypeOK ==
    /\ setting \in Settings
    /\ wire \in [Endpoint -> Seq(Frames)]
    /\ socket_map \in [Endpoint -> [Addr -> Session \cup {None}]]
    /\ conn \in [Endpoint -> [Session -> ConnStates]]
    /\ listening \in [Endpoint -> BOOLEAN]
    /\ sent \in [Endpoint -> [Session -> 0 .. MaxSent]]
    /\ got \in [Endpoint -> [Session -> Seq(0 .. MaxSent)]]
    /\ \A p \in Endpoint, s \in Session : Len(got[p][s]) <= MaxSent
    /\ ended \in [Endpoint -> SUBSET Session]

Init ==
    /\ setting \in Settings
    /\ wire = [p \in Endpoint |-> << >>]
    /\ socket_map = [p \in Endpoint |-> [a \in Addr |-> None]]
    /\ conn = [p \in Endpoint |-> [s \in Session |-> "none"]]
    /\ listening \in [Endpoint -> BOOLEAN]
    /\ sent = [p \in Endpoint |-> [s \in Session |-> 0]]
    /\ got = [p \in Endpoint |-> [s \in Session |-> << >>]]
    /\ ended = [p \in Endpoint |-> {}]

-----------------------------------------------------------------------------
(* The application and the writers *)

Send(p, s, kind, n) ==
    wire' = [wire EXCEPT ![Other(p)] = Append(@, [s |-> s, kind |-> kind, n |-> n])]

Become(p, s, c) == conn' = [conn EXCEPT ![p][s] = c]

\* The application is done with what it had under the address of s.
Released(p, s) ==
    \A r \in Session \ {s} : AddrOf[r] = AddrOf[s] => conn[p][r] \in ReopenAfter

\* add_connection, first half: the address must be free (AddrInUse otherwise).
Insert(s) ==
    LET p == Opener[s]
    IN  /\ conn[p][s] = "none" /\ socket_map[p][AddrOf[s]] = None
        /\ Released(p, s)
        /\ socket_map' = [socket_map EXCEPT ![p][AddrOf[s]] = s]
        /\ Become(p, s, "inserted")
        /\ UNCHANGED <<setting, wire, listening, sent, got, ended>>

\* add_connection, second half: the empty frame that opens the session.
Handshake(s) ==
    LET p == Opener[s]
    IN  /\ conn[p][s] = "inserted"
        /\ Send(p, s, "open", 0)
        /\ Become(p, s, "open")
        /\ UNCHANGED <<setting, socket_map, listening, sent, got, ended>>

\* The future of add_connection is dropped before a byte of the frame is out: the reader
\* goes, the writer goes to a task, the map stays.  (If a part of the frame is out, or the
\* stream fails under the handshake, the stream is lost to all its connections.)
Cancel(s) ==
    LET p == Opener[s]
    IN  /\ MayDrop /\ conn[p][s] = "inserted"
        /\ Become(p, s, "cancelled")
        /\ UNCHANGED <<setting, wire, socket_map, listening, sent, got, ended>>

Accept(p, s) ==
    /\ listening[p] /\ conn[p][s] = "queued"
    /\ Become(p, s, "open")
    /\ UNCHANGED <<setting, wire, socket_map, listening, sent, got, ended>>

\* A packet goes out: one that is written, or the last one when shutdown flushes it.
Write(p, s) ==
    /\ conn[p][s] \in {"open", "shutting"} /\ sent[p][s] < setting.quota
    /\ Send(p, s, "data", sent[p][s] + 1)
    /\ sent' = [sent EXCEPT ![p][s] = @ + 1]
    /\ UNCHANGED <<setting, socket_map, conn, listening, got, ended>>

\* shutdown is called, and may have to wait for the lock or the socket.
Shutdown(p, s) ==
    /\ conn[p][s] = "open"
    /\ Become(p, s, "shutting")
    /\ UNCHANGED <<setting, wire, socket_map, listening, sent, got, ended>>

\* MUTANT: shutdown sends no closing frame.
ShutdownDoneSilent(p, s) ==
    /\ conn[p][s] = "shutting"
    /\ Become(p, s, "shut")
    /\ UNCHANGED <<setting, wire, socket_map, listening, sent, got, ended>>

\* shutdown returns once the closing frame is out.
ShutdownDone(p, s) ==
    /\ conn[p][s] = "shutting"
    /\ Send(p, s, "close", 0)
    /\ Become(p, s, "shut")
    /\ UNCHANGED <<setting, socket_map, listening, sent, got, ended>>

\* MUTANT: a connection is closed by a task whether it was shut down or not.
DropTwice(p, s) ==
    /\ conn[p][s] \in {"open", "shutting", "shut"}
    /\ conn[p][s] # "shut" => MayDrop
    /\ Become(p, s, "closing")
    /\ UNCHANGED <<setting, wire, socket_map, listening, sent, got, ended>>

\* A connection is dropped; without a shutdown its writer goes to a task.  With one
\* that is still pending nobody closes it: Drop returns at once for Shutdown(_).
\* (If part of a frame is out by then, the stream is broken: see WriteInner.)
Drop(p, s) ==
    /\ \/ conn[p][s] = "open" /\ MayDrop /\ Become(p, s, "closing")
       \/ conn[p][s] = "shutting" /\ MayDrop /\ Become(p, s, "abandoned")
       \/ conn[p][s] = "shut" /\ Become(p, s, "gone")
    /\ UNCHANGED <<setting, wire, socket_map, listening, sent, got, ended>>

\* The task of a dropped writer sends an empty frame.  For a connection that was open
\* it closes; after a cancelled add_connection it is the first one, and opens.
DropTask(p, s) ==
    /\ \/ conn[p][s] = "closing" /\ Send(p, s, "close", 0) /\ Become(p, s, "gone")
       \/ conn[p][s] = "cancelled" /\ Send(p, s, "open", 0) /\ Become(p, s, "abandoned")
    /\ UNCHANGED <<setting, socket_map, listening, sent, got, ended>>

\* into_pipe, or the listener is dropped; what was not accepted never will be,
\* and stays in the channel or is freed.
Unlisten(p) ==
    /\ MayUnlisten /\ listening[p]
    /\ listening' = [listening EXCEPT ![p] = FALSE]
    /\ \/ UNCHANGED conn
       \/ conn' = [conn EXCEPT ![p] = [s \in Session |-> IF @[s] = "queued" THEN "lost" ELSE @[s]]]
    /\ UNCHANGED <<setting, wire, socket_map, sent, got, ended>>

-----------------------------------------------------------------------------
(* The demultiplexer: poll_next_packet and poll_read of a whole frame *)

\* The next frame for p, its address, and the session p knows by that address.
Front(p) == Head(wire[p])
Place(p) == AddrOf[Front(p).s]
Known(p) == socket_map[p][Place(p)]

\* The frame is empty or not, which is all that p can tell.
Arrived(p, empty) ==
    /\ wire[p] # << >> /\ (Front(p).kind # "data") = empty
    /\ wire' = [wire EXCEPT ![p] = Tail(@)]

\* The ReaderEntry still exists.
Alive(p, s) == conn[p][s] \in {"inserted", "queued", "open", "shutting", "shut"}

\* MUTANT: the payload is stored and left in the socket.
ReceiveDataAgain(p) ==
    /\ wire[p] # << >> /\ Front(p).kind = "data"
    /\ Known(p) # None /\ Alive(p, Known(p)) /\ Len(got[p][Known(p)]) <= MaxSent
    /\ got' = [got EXCEPT ![p][Known(p)] = Append(@, Front(p).n)]
    /\ UNCHANGED <<setting, wire, socket_map, conn, listening, sent, ended>>

\* Payload for a live entry is stored, any other is thrown away.
ReceiveData(p) ==
    /\ Arrived(p, FALSE)
    /\ got' = IF Known(p) # None /\ Alive(p, Known(p))
              THEN [got EXCEPT ![p][Known(p)] =
                       Append(@, IF Front(p).s = Known(p) THEN Front(p).n ELSE 0)]
              ELSE got
    /\ UNCHANGED <<setting, socket_map, conn, listening, sent, ended>>

\* MUTANT: a dropped connection keeps its place in the map.
ReceiveCloseAlive(p) ==
    /\ Arrived(p, TRUE) /\ Known(p) # None
    /\ \/ /\ Alive(p, Known(p))
          /\ socket_map' = [socket_map EXCEPT ![p][Place(p)] = None]
          /\ ended' = [ended EXCEPT ![p] = @ \cup {Known(p)}]
       \/ ~Alive(p, Known(p)) /\ UNCHANGED <<socket_map, ended>>
    /\ UNCHANGED <<setting, conn, listening, sent, got>>

\* An empty frame for a known address removes it, whoever sent it.
ReceiveClose(p) ==
    /\ Arrived(p, TRUE) /\ Known(p) # None
    /\ socket_map' = [socket_map EXCEPT ![p][Place(p)] = None]
    /\ ended' = [ended EXCEPT ![p] = @ \cup {Known(p)}]
    /\ UNCHANGED <<setting, conn, listening, sent, got>>

\* The session a new entry serves: that of the frame, or, if a closing frame has
\* opened it, the one whose opening frame was taken for a close.
Missed(p) ==
    {s \in Session : /\ AddrOf[s] = Place(p) /\ Opener[s] = Other(p) /\ conn[p][s] = "none"
                     /\ conn[Other(p)][s] \notin {"none", "inserted", "cancelled"}}
Newcomer(p) ==
    IF Front(p).kind = "open" \/ Missed(p) = {} THEN Front(p).s
    ELSE CHOOSE s \in Missed(p) : TRUE

\* MUTANT: the entry is made when the connection is accepted.
ReceiveOpenLate(p) ==
    /\ Arrived(p, TRUE) /\ Known(p) = None
    /\ IF listening[p] THEN Become(p, Newcomer(p), "queued") ELSE UNCHANGED conn
    /\ UNCHANGED <<setting, socket_map, listening, sent, got, ended>>

\* An empty frame for an unknown address opens it, or is ignored by a pipe.
ReceiveOpen(p) ==
    /\ Arrived(p, TRUE) /\ Known(p) = None
    /\ \/ /\ listening[p]
          /\ socket_map' = [socket_map EXCEPT ![p][Place(p)] = Newcomer(p)]
          /\ Become(p, Newcomer(p), "queued")
       \/ ~listening[p] /\ UNCHANGED <<socket_map, conn>>
    /\ UNCHANGED <<setting, listening, sent, got, ended>>

Receive(p) == ReceiveData(p) \/ ReceiveClose(p) \/ ReceiveOpen(p)

-----------------------------------------------------------------------------

Next ==
    \/ \E s \in Session : Insert(s) \/ Handshake(s) \/ Cancel(s)
    \/ \E p \in Endpoint, s \in Session :
         \/ Accept(p, s) \/ Write(p, s) \/ Shutdown(p, s) \/ ShutdownDone(p, s)
         \/ Drop(p, s) \/ DropTask(p, s)
    \/ \E p \in Endpoint : Unlisten(p) \/ Receive(p)

Spec == Init /\ [][Next]_vars

\* The global runtime runs the drop tasks.
FairSpec ==
    /\ Spec
    /\ \A p \in Endpoint, s \in Session : WF_vars(DropTask(p, s))

-----------------------------------------------------------------------------

\* An empty frame is taken for its place in the session: the first one finds the
\* address free, a closing one finds its own session (or, at an endpoint that
\* listens no more, nothing).  The first one may come from a drop task that means
\* to close: then the receiver has a connection that nobody else has.
ToggleAgrees ==
    \A p \in Endpoint : wire[p] # << >> =>
        /\ Front(p).kind = "open" => Known(p) = None
        /\ Front(p).kind = "close" =>
             Known(p) = Front(p).s \/ (~listening[p] /\ Known(p) = None)

\* What an entry has got is its own session's data from the first frame on, and
\* all of it once the reader is told the end of the stream.
SessionsApart ==
    \A p \in Endpoint, s \in Session :
        /\ got[p][s] = [i \in 1 .. Len(got[p][s]) |-> i]
        /\ s \in ended[p] /\ Alive(p, s) => Len(got[p][s]) = sent[Other(p)][s]

\* Sessions share a place in the map exactly when their std addresses stand for the
\* same IPv6 number and port: IPv4 and IPv4-mapped IPv6 are merged and nothing else
\* is, so that one never gets AddrInUse, or a close, because of another address.
OneIdentifier ==
    \A p \in Endpoint : \A r, s \in Session :
        socket_map[p][AddrOf[r]] = r =>
            (socket_map[p][AddrOf[s]] = r
                <=> Number(book[r]) = Number(book[s]) /\ book[r].port = book[s].port)

\* Once all frames are received, no address is still taken for a session whose
\* other end has shut it down, or dropped it before a shutdown and its task is done.
\* Without a closing frame the address stays taken: this says nothing of a connection
\* dropped in a pending shutdown, of a cancelled add_connection, or of one that was never
\* accepted, whose other end is "abandoned", "lost" or "queued" for ever.
MapSettled ==
    (\A p \in Endpoint : wire[p] = << >>) =>
        \A p \in Endpoint, s \in Session :
            conn[Other(p)][s] \in {"shut", "gone"} => socket_map[p][AddrOf[s]] # s

\* The address that a connection reports, as a std one, stands for the address it
\* was opened with, is IPv4 whenever IPv4 can say it, and opens it again.
AddressReported ==
    \A p \in Endpoint, s \in Session : conn[p][s] \in {"open", "shutting", "shut"} =>
        LET back == to_std(AddrOf[s])
        IN  /\ Number(back) = Number(book[s]) /\ back.port = book[s].port
            /\ (\E z \in V4 : Number(z) = Number(back)) => back.v = 4
            /\ from_std(back) = AddrOf[s]

\* The end of one side is seen by the other: once a session is shut down, or dropped
\* before a shutdown was begun, the address is freed at the other end, so that
\* add_connection no longer answers AddrInUse there.  This needs an endpoint whose
\* reading never stops for good: again and again it has received all that was sent.
AddressFreed ==
    \A p \in Endpoint, s \in Session :
        []<>(wire[p] = << >>) =>
            (conn[Other(p)][s] \in {"shut", "closing"} ~> socket_map[p][AddrOf[s]] # s)

-----------------------------------------------------------------------------
(***************************************************************************)
(* The inductive invariant behind ToggleAgrees, SessionsApart and          *)
(* MapSettled.  It holds for applications that open an address from one    *)
(* end only, and again only when the earlier connection is shut down or    *)
(* its drop task is done.                                                  *)
(***************************************************************************)

OneOpener ==
    \A k \in Settings : \A r, s \in Session :
        Thin[k.book[r]] = Thin[k.book[s]] => Opener[r] = Opener[s]
Patient == ReopenAfter \subseteq {"none", "shut", "gone"}

\* Frames of s on their way to p.
On(p, i, s) == i \in DOMAIN wire[p] /\ wire[p][i].s = s
At(p, i, s, kind) == On(p, i, s) /\ wire[p][i].kind = kind
Coming(p, s) == \E i \in DOMAIN wire[p] : On(p, i, s)
Has(p, s, kind) == \E i \in DOMAIN wire[p] : At(p, i, s, kind)

\* No writer has sent anything yet; the writer has sent its closing frame.
Silent == {"none", "inserted", "cancelled", "queued", "lost"}
Finished == {"shut", "gone"}

\* The two ends of s: the opener has it first, and only it under its address.
Roles(s) ==
    LET o == Opener[s]
    IN  /\ conn[o][s] \notin {"queued", "lost"}
        /\ conn[Other(o)][s] \notin {"inserted", "cancelled"}
        /\ conn[Other(o)][s] # "none" => conn[o][s] \notin {"none", "inserted", "cancelled"}
        /\ conn[o][s] \in {"inserted", "cancelled", "open", "shutting", "closing"} =>
              \A r \in Session \ {s} :
                  AddrOf[r] = AddrOf[s] => conn[o][r] \in {"none", "shut", "gone"}

\* What is on its way to p agrees with the state of its sender.  An opening or closing
\* frame that was sent is still coming, or was received, or was ignored by an endpoint
\* that does not listen.
FromSender(p, s) ==
    LET o == Other(p)
    IN  /\ conn[o][s] \in Silent => sent[o][s] = 0 /\ ~Coming(p, s)
        /\ Has(p, s, "close") => conn[o][s] \in Finished
        /\ Has(p, s, "open") => o = Opener[s] /\ conn[p][s] = "none"
        /\ conn[o][s] \in Finished =>
              \/ Has(p, s, "close") \/ s \in ended[p]
              \/ conn[p][s] = "none" /\ ~listening[p] /\ ~Has(p, s, "open")
        /\ conn[o][s] \notin Silent /\ conn[p][s] = "none" /\ listening[p] =>
              Has(p, s, "open")

\* The map has a session from its first state to the peer's closing frame.
InMap(p, s) ==
    /\ \A a \in Addr : socket_map[p][a] = s => a = AddrOf[s]
    /\ socket_map[p][AddrOf[s]] = s <=> conn[p][s] # "none" /\ s \notin ended[p]
    /\ s \in ended[p] => /\ conn[p][s] # "none" /\ conn[Other(p)][s] \in Finished
                         /\ ~Coming(p, s)

\* An opening frame, numbered data, a closing frame.
InOrder(p, s) ==
    \A i \in DOMAIN wire[p] : On(p, i, s) =>
        /\ wire[p][i].kind = "data" => wire[p][i].n \in 1 .. sent[Other(p)][s]
        /\ \A j \in DOMAIN wire[p] : i < j /\ On(p, j, s) =>
              /\ wire[p][i].kind # "close" /\ wire[p][j].kind # "open"
              /\ wire[p][i].kind = "data" /\ wire[p][j].kind = "data" =>
                    wire[p][i].n < wire[p][j].n

\* An entry has got the first data frames, and the others are on their way.
Reading(p, s) == (Alive(p, s) /\ s \notin ended[p]) \/ Has(p, s, "open")
Numbered(p, s) ==
    /\ Len(got[p][s]) <= sent[Other(p)][s]
    /\ got[p][s] = [i \in 1 .. Len(got[p][s]) |-> i]
    /\ s \in ended[p] /\ Alive(p, s) => Len(got[p][s]) = sent[Other(p)][s]
    /\ Reading(p, s) =>
          /\ \A i \in DOMAIN wire[p] :
                At(p, i, s, "data") => wire[p][i].n > Len(got[p][s])
          /\ \A n \in (Len(got[p][s]) + 1) .. sent[Other(p)][s] :
                \E i \in DOMAIN wire[p] : At(p, i, s, "data") /\ wire[p][i].n = n

\* Between two sessions of one address lies the closing frame of the first.
Separate(p, r, s) ==
    r # s /\ AddrOf[r] = AddrOf[s] =>
        \A i \in DOMAIN wire[p] : On(p, i, s) =>
            /\ socket_map[p][AddrOf[s]] = r =>
                  \E j \in DOMAIN wire[p] : j < i /\ At(p, j, r, "close")
            /\ \A k \in DOMAIN wire[p] : k < i /\ At(p, k, r, "open") =>
                  \E j \in DOMAIN wire[p] : k < j /\ j < i /\ At(p, j, r, "close")

\* The two ends, the frames between them and both socket_maps fit together.
MuxInv ==
    /\ TypeOK
    /\ \A s \in Session : Roles(s)
    /\ \A p \in Endpoint, s \in Session :
          FromSender(p, s) /\ InMap(p, s) /\ InOrder(p, s) /\ Numbered(p, s)
    /\ \A p \in Endpoint : \A r, s \in Session : Separate(p, r, s)
=============================================================================
