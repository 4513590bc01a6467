---------------------------- MODULE FrameDecoder ----------------------------
(***************************************************************************)
(* How the peer cuts the byte stream into frames: the parsing half of      *)
(* SharedReader (src/read.rs), states NextPacket { filled } and            *)
(* Read { owner, left }.  It consumes every byte the moment it is written  *)
(* and serves as the judge of the writer: `intact` turns FALSE at the      *)
(* first byte that is not the one a well-formed frame has at that place,   *)
(* after which the real reader would take payload for headers.             *)
(***************************************************************************)
EXTENDS PacketBuffer, MuxConstants

VARIABLES rx,          \* parser state
          delivered,   \* delivered[c]: payload bytes received for address c
          ctrl         \* ctrl[c]: empty frames (open, then close) for c

rxVars == <<rx, delivered, ctrl>>

RxType ==
    /\ rx \in [filled : 0 .. (HeaderSize - 1), addr : Conn \cup {None},
               high : Nat, left : Nat, intact : BOOLEAN]
    /\ delivered \in [Conn -> Seq(Nat)]
    /\ ctrl \in [Conn -> Nat]

RxInit ==
    /\ rx = [filled |-> 0, addr |-> None, high |-> 0, left |-> 0, intact |-> TRUE]
    /\ delivered = [c \in Conn |-> << >>]
    /\ ctrl = [c \in Conn |-> 0]

\* Between two frames.
AtBoundary == rx.filled = 0 /\ rx.left = 0

-----------------------------------------------------------------------------

\* poll_read: one more byte of the payload of the current frame.
PayloadByte(b) ==
    /\ rx.left > 0
    /\ b.t = "data" /\ b.c = rx.addr
    /\ delivered' = [delivered EXCEPT ![b.c] = Append(@, b.v)]
    /\ rx' = [rx EXCEPT !.left = @ - 1]
    /\ UNCHANGED ctrl

\* poll_next_packet: a byte of the header's address.
AddrByte(b) ==
    /\ rx.left = 0 /\ rx.filled < AddrSize
    /\ b.t = "addr" /\ b.v = rx.filled + 1
    /\ rx.filled > 0 => b.c = rx.addr
    /\ rx' = [rx EXCEPT !.filled = @ + 1, !.addr = b.c]
    /\ UNCHANGED <<delivered, ctrl>>

\* poll_next_packet: the first digit of the length.
HighByte(b) ==
    /\ rx.left = 0 /\ rx.filled = AddrSize
    /\ b.t = "high" /\ b.c = rx.addr
    /\ rx' = [rx EXCEPT !.filled = @ + 1, !.high = b.v]
    /\ UNCHANGED <<delivered, ctrl>>

\* poll_next_packet: the second digit completes the header.  A zero length
\* opens or closes the connection, any other starts a payload.
LowByte(b) ==
    /\ rx.left = 0 /\ rx.filled = AddrSize + 1
    /\ b.t = "low" /\ b.c = rx.addr
    /\ LET len == FromDigits(rx.high, b.v)
       IN  /\ rx' = [rx EXCEPT !.filled = 0, !.left = len]
           /\ ctrl' = IF len = 0 THEN [ctrl EXCEPT ![b.c] = @ + 1] ELSE ctrl
    /\ UNCHANGED delivered

Expected(b) ==
    /\ rx.intact
    /\ \/ rx.left > 0 /\ b.t = "data" /\ b.c = rx.addr
       \/ /\ rx.left = 0 /\ rx.filled < AddrSize
          /\ b.t = "addr" /\ b.v = rx.filled + 1
          /\ rx.filled > 0 => b.c = rx.addr
       \/ rx.left = 0 /\ rx.filled = AddrSize /\ b.t = "high" /\ b.c = rx.addr
       \/ rx.left = 0 /\ rx.filled = AddrSize + 1 /\ b.t = "low" /\ b.c = rx.addr

\* Any other byte: the frames are mangled from here on.
MangledByte(b) ==
    /\ ~Expected(b)
    /\ rx' = [rx EXCEPT !.intact = FALSE]
    /\ UNCHANGED <<delivered, ctrl>>

Receive(b) ==
    \/ rx.intact /\ (PayloadByte(b) \/ AddrByte(b) \/ HighByte(b) \/ LowByte(b))
    \/ MangledByte(b)
=============================================================================
