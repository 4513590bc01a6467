--------------------------- MODULE MuxSendSteps ---------------------------
(***************************************************************************)
(* The steps of Mux that send a frame, and those that neither send nor     *)
(* receive one, keep MuxInv, for any number of sessions and addresses.     *)
(***************************************************************************)
EXTENDS Mux, Integers, TLAPS

-----------------------------------------------------------------------------
(***************************************************************************)
(* Sequences.                                                              *)
(***************************************************************************)

\* A frame is put behind the others (Send).
LEMMA AppendFacts ==
    ASSUME NEW T, NEW q \in Seq(T), NEW x \in T
    PROVE  /\ Append(q, x) \in Seq(T) /\ Len(Append(q, x)) = Len(q) + 1
           /\ \A i \in 1 .. Len(q) : Append(q, x)[i] = q[i]
           /\ Append(q, x)[Len(q) + 1] = x
OBVIOUS

\* The first frame is taken (Arrived).
LEMMA TailFacts ==
    ASSUME NEW T, NEW q \in Seq(T), q # << >>
    PROVE  /\ Tail(q) \in Seq(T) /\ Len(Tail(q)) = Len(q) - 1
           /\ Head(q) = q[1] /\ Head(q) \in T
           /\ \A i \in 1 .. Len(Tail(q)) : Tail(q)[i] = q[i + 1]
OBVIOUS

-----------------------------------------------------------------------------
(***************************************************************************)
(* Types, endpoints and wires.                                             *)
(***************************************************************************)

\* There are two endpoints.
LEMMA OtherFacts ==
    ASSUME NEW p \in Endpoint
    PROVE  Other(p) \in Endpoint /\ Other(p) # p /\ Other(Other(p)) = p
<1>1. \A q \in Endpoint : Other(q) \in Endpoint /\ Other(q) # q
  <2> SUFFICES ASSUME NEW q \in Endpoint PROVE Other(q) \in Endpoint /\ Other(q) # q
    OBVIOUS
  <2>1. \E x \in Endpoint : x # q
    BY Zenon DEF Endpoint
  <2> QED
    BY <2>1, Zenon DEF Other
<1> QED
  BY <1>1, Zenon DEF Endpoint

\* Every session has an address of the map.
LEMMA AddrFacts ==
    ASSUME setting \in Settings
    PROVE  AddrOf \in [Session -> Addr]
<1> SUFFICES ASSUME NEW s \in Session PROVE Thin[book[s]] \in Addr
  BY Zenon DEF AddrOf
<1>1. book[s] \in DOMAIN Thin
  BY DEF Thin, book
<1> QED
  BY <1>1, Zenon DEF Addr

\* Sessions of one address have one opener.
LEMMA SameOpener ==
    ASSUME OneOpener, setting \in Settings, NEW r \in Session, NEW s \in Session,
           AddrOf[r] = AddrOf[s]
    PROVE  Opener[r] = Opener[s]
BY DEF OneOpener, AddrOf, book

\* The setting, and with it the addresses, never change.
LEMMA SameAddr ==
    ASSUME UNCHANGED setting
    PROVE  AddrOf' = AddrOf
BY Zenon DEF AddrOf, book

\* The types of the parts of the state.
LEMMA Types ==
    ASSUME TypeOK, NEW p \in Endpoint, NEW s \in Session
    PROVE  /\ conn[p][s] \in ConnStates /\ sent[p][s] \in 0 .. MaxSent
           /\ wire[p] \in Seq(Frames) /\ got[p][s] \in Seq(0 .. MaxSent)
           /\ AddrOf \in [Session -> Addr] /\ Opener[s] \in Endpoint
           /\ DOMAIN wire[p] = 1 .. Len(wire[p]) /\ Len(wire[p]) \in Nat
<1>1. wire[p] \in Seq(Frames)
  BY Zenon DEF TypeOK
<1>2. DOMAIN wire[p] = 1 .. Len(wire[p]) /\ Len(wire[p]) \in Nat
  BY <1>1
<1>3. AddrOf \in [Session -> Addr]
  BY AddrFacts, Zenon DEF TypeOK
<1> QED
  BY <1>1, <1>2, <1>3, SessionAssumption DEF TypeOK

\* A frame is appended to what is on its way to the other end.
LEMMA SendFacts ==
    ASSUME TypeOK, NEW p \in Endpoint, NEW t \in Session, NEW kind \in {"open", "data", "close"},
           NEW n \in 0 .. MaxSent, Send(p, t, kind, n), NEW q \in Endpoint
    PROVE  /\ wire' \in [Endpoint -> Seq(Frames)]
           /\ DOMAIN wire[q] \subseteq DOMAIN wire'[q]
           /\ \A i \in DOMAIN wire[q] : wire'[q][i] = wire[q][i]
           /\ \A i \in DOMAIN wire'[q] : i \notin DOMAIN wire[q] =>
                 /\ q = Other(p) /\ wire'[q][i] = [s |-> t, kind |-> kind, n |-> n]
                 /\ \A j \in DOMAIN wire'[q] : j # i => j \in DOMAIN wire[q] /\ j < i
           /\ q = Other(p) => \E i \in DOMAIN wire'[q] : i \notin DOMAIN wire[q]
           /\ q # Other(p) => wire'[q] = wire[q]
<1> DEFINE o == Other(p)
           f == [s |-> t, kind |-> kind, n |-> n]
           L == Len(wire[o])
<1>0. o \in Endpoint /\ f \in Frames /\ wire \in [Endpoint -> Seq(Frames)]
  BY OtherFacts, Zenon DEF Frames, TypeOK
<1>1. wire' = [wire EXCEPT ![o] = Append(wire[o], f)]
  BY Zenon DEF Send
<1>2. /\ Append(wire[o], f) \in Seq(Frames) /\ Len(Append(wire[o], f)) = L + 1 /\ L \in Nat
      /\ \A i \in 1 .. L : Append(wire[o], f)[i] = wire[o][i]
      /\ Append(wire[o], f)[L + 1] = f
  <2> HIDE DEF f, o
  <2> QED
    BY <1>0, AppendFacts
<1> HIDE DEF f, o
<1>3. wire' \in [Endpoint -> Seq(Frames)] /\ wire'[o] = Append(wire[o], f)
      /\ (q # o => wire'[q] = wire[q])
  BY <1>0, <1>1, <1>2, Zenon
<1>4. DOMAIN wire'[o] = 1 .. (L + 1) /\ DOMAIN wire[o] = 1 .. L
  BY <1>0, <1>2, <1>3
<1>5. \A i \in DOMAIN wire[o] : wire'[o][i] = wire[o][i]
  BY <1>2, <1>3, <1>4, Zenon
<1>6. \A i \in DOMAIN wire'[o] : i \notin DOMAIN wire[o] =>
         /\ wire'[o][i] = f
         /\ \A j \in DOMAIN wire'[o] : j # i => j \in DOMAIN wire[o] /\ j < i
  BY <1>2, <1>3, <1>4
<1>7. \E i \in DOMAIN wire'[o] : i \notin DOMAIN wire[o]
  BY <1>2, <1>4
<1>8. CASE q = o
  <2>1. DOMAIN wire[o] \subseteq DOMAIN wire'[o]
    BY <1>2, <1>4
  <2> QED
    BY <1>3, <1>5, <1>6, <1>7, <1>8, <2>1, Zenon DEF f, o
<1>9. CASE q # o
  BY <1>3, <1>9, Zenon DEF o
<1> QED
  BY <1>8, <1>9, Zenon

\* What is then on its way.
LEMMA SendHas ==
    ASSUME TypeOK, NEW p \in Endpoint, NEW t \in Session, NEW kind \in {"open", "data", "close"},
           NEW n \in 0 .. MaxSent, Send(p, t, kind, n), NEW q \in Endpoint, NEW s \in Session
    PROVE  /\ Coming(q, s)' <=> Coming(q, s) \/ (q = Other(p) /\ s = t)
           /\ \A k : Has(q, s, k)' <=> Has(q, s, k) \/ (q = Other(p) /\ s = t /\ k = kind)
<1>1. /\ DOMAIN wire[q] \subseteq DOMAIN wire'[q]
      /\ \A i \in DOMAIN wire[q] : wire'[q][i] = wire[q][i]
      /\ \A i \in DOMAIN wire'[q] : i \notin DOMAIN wire[q] =>
            q = Other(p) /\ wire'[q][i] = [s |-> t, kind |-> kind, n |-> n]
      /\ q = Other(p) => \E i \in DOMAIN wire'[q] : i \notin DOMAIN wire[q]
  BY SendFacts
<1>2. Coming(q, s)' <=> Coming(q, s) \/ (q = Other(p) /\ s = t)
  BY <1>1 DEF Coming, On
<1>3. ASSUME NEW k
      PROVE  Has(q, s, k)' <=> Has(q, s, k) \/ (q = Other(p) /\ s = t /\ k = kind)
  BY <1>1 DEF Has, At, On
<1> QED
  BY <1>2, <1>3, Zenon

\* The front frame is taken.
LEMMA TakeFacts ==
    ASSUME TypeOK, NEW p \in Endpoint, NEW e \in BOOLEAN, Arrived(p, e), NEW q \in Endpoint
    PROVE  /\ wire' \in [Endpoint -> Seq(Frames)]
           /\ q # p => wire'[q] = wire[q]
           /\ 1 \in DOMAIN wire[p] /\ Front(p) = wire[p][1] /\ Front(p) \in Frames
           /\ \A i \in DOMAIN wire[p] : i \in Nat /\ i >= 1
           /\ \A i \in DOMAIN wire'[p] :
                 /\ i \in Nat /\ i + 1 \in DOMAIN wire[p] /\ i + 1 # 1
                 /\ wire'[p][i] = wire[p][i + 1]
           /\ \A i \in DOMAIN wire[p] : i # 1 =>
                 /\ i - 1 \in DOMAIN wire'[p] /\ wire'[p][i - 1] = wire[p][i]
<1> DEFINE W == wire[p]
<1>0. W \in Seq(Frames) /\ W # << >> /\ wire \in [Endpoint -> Seq(Frames)]
  BY Zenon DEF TypeOK, Arrived
<1>1. wire' = [wire EXCEPT ![p] = Tail(W)]
  BY Zenon DEF Arrived
<1> HIDE DEF W
<1>2. /\ Tail(W) \in Seq(Frames) /\ Len(Tail(W)) = Len(W) - 1 /\ Head(W) = W[1]
      /\ \A i \in 1 .. Len(Tail(W)) : Tail(W)[i] = W[i + 1]
  BY <1>0, TailFacts, Zenon
<1>3. /\ wire' \in [Endpoint -> Seq(Frames)] /\ wire'[p] = Tail(W)
      /\ q # p => wire'[q] = wire[q]
  BY <1>0, <1>1, <1>2, Zenon
<1>4. Len(W) \in Nat /\ Len(W) >= 1 /\ DOMAIN W = 1 .. Len(W)
  BY <1>0
<1>5. DOMAIN wire'[p] = 1 .. (Len(W) - 1)
  BY <1>2, <1>3
<1>6. 1 \in DOMAIN W /\ Front(p) = W[1] /\ W[1] \in Frames
  BY <1>0, <1>2, <1>4 DEF Front, W
<1>7. \A i \in DOMAIN wire'[p] :
         i \in Nat /\ i + 1 \in DOMAIN W /\ i + 1 # 1 /\ wire'[p][i] = W[i + 1]
  BY <1>2, <1>3, <1>4, <1>5
<1>8. ASSUME NEW i \in DOMAIN W, i # 1
      PROVE  i - 1 \in DOMAIN wire'[p] /\ wire'[p][i - 1] = W[i]
  <2>1. i - 1 \in DOMAIN wire'[p] /\ (i - 1) + 1 = i
    BY <1>4, <1>5, <1>8
  <2>2. wire'[p][i - 1] = W[(i - 1) + 1]
    BY <1>7, <2>1, Zenon
  <2> QED
    BY <2>1, <2>2, Zenon
<1> QED
  BY <1>3, <1>4, <1>6, <1>7, <1>8 DEF W

\* What is then left.
LEMMA TakeHas ==
    ASSUME TypeOK, NEW p \in Endpoint, NEW e \in BOOLEAN, Arrived(p, e), NEW q \in Endpoint,
           NEW s \in Session
    PROVE  /\ q # p \/ s # Front(p).s => (Coming(q, s)' <=> Coming(q, s))
           /\ Coming(q, s)' => Coming(q, s)
           /\ Coming(p, Front(p).s) /\ Has(p, Front(p).s, Front(p).kind)
           /\ \A k : Has(q, s, k)' => Has(q, s, k)
           /\ \A k : q # p \/ s # Front(p).s \/ k # Front(p).kind =>
                 (Has(q, s, k)' <=> Has(q, s, k))
<1>1. /\ q # p => wire'[q] = wire[q]
      /\ 1 \in DOMAIN wire[p] /\ Front(p) = wire[p][1]
      /\ \A i \in DOMAIN wire'[p] :
            i + 1 \in DOMAIN wire[p] /\ wire'[p][i] = wire[p][i + 1]
      /\ \A i \in DOMAIN wire[p] : i # 1 =>
            i - 1 \in DOMAIN wire'[p] /\ wire'[p][i - 1] = wire[p][i]
  BY TakeFacts
<1>2. CASE q # p
  BY <1>1, <1>2, Zenon DEF Coming, Has, At, On
<1>3. CASE q = p
  <2>1. Coming(p, s)' => Coming(p, s)
    BY <1>1 DEF Coming, On
  <2>2. s # Front(p).s /\ Coming(p, s) => Coming(p, s)'
    BY <1>1 DEF Coming, On
  <2>3. ASSUME NEW k PROVE Has(p, s, k)' => Has(p, s, k)
    BY <1>1 DEF Has, At, On
  <2>4. ASSUME NEW k, s # Front(p).s \/ k # Front(p).kind, Has(p, s, k) PROVE Has(p, s, k)'
    BY <1>1, <2>4 DEF Has, At, On
  <2>5. Coming(p, Front(p).s) /\ Has(p, Front(p).s, Front(p).kind)
    BY <1>1, Zenon DEF Coming, Has, At, On
  <2> QED
    BY <1>3, <2>1, <2>2, <2>3, <2>4, <2>5, Zenon
<1> QED
  BY <1>2, <1>3, Zenon

\* A step that leaves the data an entry has got keeps the types.
LEMMA TypeStep ==
    ASSUME TypeOK, UNCHANGED <<setting, got>>,
           wire' \in [Endpoint -> Seq(Frames)],
           socket_map' \in [Endpoint -> [Addr -> Session \cup {None}]],
           conn' \in [Endpoint -> [Session -> ConnStates]],
           listening' \in [Endpoint -> BOOLEAN],
           sent' \in [Endpoint -> [Session -> 0 .. MaxSent]],
           ended' \in [Endpoint -> SUBSET Session]
    PROVE  TypeOK'
BY Zenon DEF TypeOK

\* What becomes of one session at one endpoint changes nothing else of conn.
LEMMA BecomeFacts ==
    ASSUME TypeOK, NEW p \in Endpoint, NEW t \in Session, NEW c \in ConnStates, Become(p, t, c)
    PROVE  /\ conn' \in [Endpoint -> [Session -> ConnStates]] /\ conn'[p][t] = c
           /\ \A q \in Endpoint : \A s \in Session :
                 q # p \/ s # t => conn'[q][s] = conn[q][s]
BY Zenon DEF TypeOK, Become

\* What the invariant says of a session at an endpoint.
LEMMA InvOf ==
    ASSUME MuxInv, NEW p \in Endpoint, NEW s \in Session
    PROVE  /\ TypeOK /\ Roles(s) /\ FromSender(p, s) /\ InMap(p, s) /\ InOrder(p, s)
           /\ Numbered(p, s) /\ \A r \in Session : Separate(p, r, s) /\ Separate(p, s, r)
BY Zenon DEF MuxInv

\* The parts of the invariant, for a step that has kept the types.
LEMMA InvFrom ==
    ASSUME TypeOK', \A s \in Session : Roles(s)',
           \A p \in Endpoint, s \in Session :
              FromSender(p, s)' /\ InMap(p, s)' /\ InOrder(p, s)' /\ Numbered(p, s)',
           \A p \in Endpoint : \A r, s \in Session : Separate(p, r, s)'
    PROVE  MuxInv'
BY Zenon DEF MuxInv

-----------------------------------------------------------------------------
(***************************************************************************)
(* Steps of a connection that send and receive nothing: accept, a call of  *)
(* shutdown, drop, the cancellation of add_connection, and what into_pipe  *)
(* does to the connections that were not accepted.                         *)
(***************************************************************************)

Moves == {<<"queued", "open">>, <<"queued", "lost">>, <<"inserted", "cancelled">>,
          <<"open", "shutting">>, <<"open", "closing">>, <<"shutting", "abandoned">>,
          <<"shut", "gone">>}

\* The connections move on, nothing else happens but that a listener may be given up.
LEMMA MoveStep ==
    ASSUME MuxInv, TypeOK', UNCHANGED <<setting, wire, socket_map, sent, got, ended>>,
           \A p \in Endpoint : listening'[p] => listening[p],
           \A p \in Endpoint : \A s \in Session :
              conn'[p][s] = conn[p][s] \/ <<conn[p][s], conn'[p][s]>> \in Moves
    PROVE  MuxInv'
<1>0. AddrOf' = AddrOf
  BY SameAddr, Zenon
<1>1. ASSUME NEW p \in Endpoint, NEW s \in Session
      PROVE  \/ conn'[p][s] = conn[p][s]
             \/ conn[p][s] = "queued" /\ conn'[p][s] = "open"
             \/ conn[p][s] = "queued" /\ conn'[p][s] = "lost"
             \/ conn[p][s] = "inserted" /\ conn'[p][s] = "cancelled"
             \/ conn[p][s] = "open" /\ conn'[p][s] = "shutting"
             \/ conn[p][s] = "shutting" /\ conn'[p][s] = "abandoned"
             \/ conn[p][s] = "open" /\ conn'[p][s] = "closing"
             \/ conn[p][s] = "shut" /\ conn'[p][s] = "gone"
  BY Zenon DEF Moves
<1>2. ASSUME NEW s \in Session PROVE Roles(s)'
  <2> DEFINE o == Opener[s]
  <2>0. o \in Endpoint /\ Other(o) \in Endpoint
    BY SessionAssumption, OtherFacts, Zenon
  <2>1. Roles(s)
    BY Zenon DEF MuxInv
  <2>2. conn'[o][s] \notin {"queued", "lost"}
        /\ conn'[Other(o)][s] \notin {"inserted", "cancelled"}
    BY <1>1, <2>0, <2>1, Zenon DEF Roles
  <2>3. conn'[Other(o)][s] # "none" => conn'[o][s] \notin {"none", "inserted", "cancelled"}
    BY <1>1, <2>0, <2>1, Zenon DEF Roles
  <2>4. ASSUME conn'[o][s] \in {"inserted", "cancelled", "open", "shutting", "closing"},
               NEW r \in Session \ {s}, AddrOf[r] = AddrOf[s]
        PROVE  conn'[o][r] \in {"none", "shut", "gone"}
    <3>1. conn[o][s] \in {"inserted", "cancelled", "open", "shutting", "closing"}
      BY <1>1, <2>0, <2>1, <2>4, Zenon DEF Roles
    <3>2. conn[o][r] \in {"none", "shut", "gone"}
      BY <2>1, <2>4, <3>1, Zenon DEF Roles
    <3> QED
      BY <1>1, <2>0, <3>2, Zenon
  <2> QED
    BY <1>0, <2>2, <2>3, <2>4, Zenon DEF Roles
<1>3. ASSUME NEW p \in Endpoint, NEW s \in Session
      PROVE  FromSender(p, s)' /\ InMap(p, s)' /\ InOrder(p, s)' /\ Numbered(p, s)'
  <2> DEFINE o == Other(p)
  <2>0. o \in Endpoint /\ Other(o) = p /\ o # p /\ Opener[s] \in Endpoint
    BY OtherFacts, SessionAssumption, Zenon
  <2>1. Roles(s) /\ FromSender(p, s) /\ InMap(p, s) /\ InOrder(p, s) /\ Numbered(p, s)
    BY InvOf, Zenon
  <2>2. /\ Coming(p, s)' <=> Coming(p, s)
        /\ \A k : Has(p, s, k)' <=> Has(p, s, k)
    BY Zenon DEF Coming, Has, At, On
  <2>3. /\ conn'[o][s] \in Silent => conn[o][s] \in Silent
        /\ conn'[o][s] \in Finished <=> conn[o][s] \in Finished
        /\ conn'[p][s] = "none" <=> conn[p][s] = "none"
        /\ Alive(p, s)' => Alive(p, s)
    BY <1>1, <2>0, Zenon DEF Silent, Finished, Alive
  <2>4. conn'[o][s] \notin Silent /\ conn[p][s] = "none" => conn[o][s] \notin Silent
    <3>1. conn[o][s] = "queued" => conn[p][s] # "none"
      BY <2>0, <2>1, Zenon DEF Roles, Endpoint
    <3> QED
      BY <1>1, <2>0, <3>1, Zenon DEF Silent
  <2>5. FromSender(p, s)'
    BY <2>1, <2>2, <2>3, <2>4, Zenon DEF FromSender
  <2>6. InMap(p, s)'
    BY <1>0, <2>1, <2>2, <2>3, Zenon DEF InMap
  <2>7. InOrder(p, s)'
    BY <2>1, Zenon DEF InOrder, On
  <2>8. Numbered(p, s)'
    <3>1. Reading(p, s)' => Reading(p, s)
      BY <2>2, <2>3, Zenon DEF Reading
    <3> QED
      BY <2>1, <2>3, <3>1, Zenon DEF Numbered, At, On
  <2> QED
    BY <2>5, <2>6, <2>7, <2>8, Zenon
<1>4. ASSUME NEW p \in Endpoint, NEW r \in Session, NEW s \in Session PROVE Separate(p, r, s)'
  <2>1. Separate(p, r, s)
    BY InvOf, Zenon
  <2> QED
    BY <1>0, <2>1 DEF Separate, At, On
<1> QED
  BY <1>2, <1>3, <1>4, InvFrom, Zenon

\* A connection is accepted or dropped, its shutdown is called, or the add_connection that
\* opens it is cancelled.
LEMMA QuietStep ==
    ASSUME MuxInv, NEW p \in Endpoint, NEW t \in Session,
           Accept(p, t) \/ Shutdown(p, t) \/ Drop(p, t) \/ (p = Opener[t] /\ Cancel(t))
    PROVE  MuxInv'
<1>0. TypeOK
  BY Zenon DEF MuxInv
<1>1. /\ UNCHANGED <<setting, wire, socket_map, listening, sent, got, ended>>
      /\ \/ conn[p][t] = "queued" /\ Become(p, t, "open")
         \/ conn[p][t] = "inserted" /\ Become(p, t, "cancelled")
         \/ conn[p][t] = "open" /\ Become(p, t, "shutting")
         \/ conn[p][t] = "open" /\ Become(p, t, "closing")
         \/ conn[p][t] = "shutting" /\ Become(p, t, "abandoned")
         \/ conn[p][t] = "shut" /\ Become(p, t, "gone")
  BY Zenon DEF Accept, Shutdown, Drop, Cancel
<1>2. PICK c \in ConnStates : <<conn[p][t], c>> \in Moves /\ Become(p, t, c)
  BY <1>1, Zenon DEF ConnStates, Moves
<1>3. /\ conn' \in [Endpoint -> [Session -> ConnStates]] /\ conn'[p][t] = c
      /\ \A q \in Endpoint : \A s \in Session : q # p \/ s # t => conn'[q][s] = conn[q][s]
  BY <1>0, <1>2, BecomeFacts, Zenon
<1>4. TypeOK'
  BY <1>0, <1>1, <1>3, TypeStep, Zenon DEF TypeOK
<1>5. \A q \in Endpoint : \A s \in Session :
         conn'[q][s] = conn[q][s] \/ <<conn[q][s], conn'[q][s]>> \in Moves
  BY <1>2, <1>3, Zenon
<1> QED
  BY <1>1, <1>4, <1>5, MoveStep, Zenon

\* A listener is turned into a pipe.
LEMMA UnlistenStep ==
    ASSUME MuxInv, NEW p \in Endpoint, Unlisten(p)
    PROVE  MuxInv'
<1>0. TypeOK
  BY Zenon DEF MuxInv
<1>1. /\ UNCHANGED <<setting, wire, socket_map, sent, got, ended>>
      /\ listening' = [listening EXCEPT ![p] = FALSE]
  BY Zenon DEF Unlisten
<1>2. /\ listening' \in [Endpoint -> BOOLEAN]
      /\ \A q \in Endpoint : listening'[q] => listening[q]
  BY <1>0, <1>1, Zenon DEF TypeOK
<1>3. /\ conn' \in [Endpoint -> [Session -> ConnStates]]
      /\ \A q \in Endpoint : \A s \in Session :
            conn'[q][s] = conn[q][s] \/ <<conn[q][s], conn'[q][s]>> \in Moves
  <2>1. CASE UNCHANGED conn
    BY <1>0, <2>1, Zenon DEF TypeOK
  <2>2. CASE conn' = [conn EXCEPT ![p] =
                        [s \in Session |-> IF @[s] = "queued" THEN "lost" ELSE @[s]]]
    <3>1. ASSUME NEW q \in Endpoint, NEW s \in Session
          PROVE  \/ conn'[q][s] = conn[q][s]
                 \/ conn[q][s] = "queued" /\ conn'[q][s] = "lost"
      BY <1>0, <2>2, Zenon DEF TypeOK
    <3>2. conn' \in [Endpoint -> [Session -> ConnStates]]
      BY <1>0, <2>2, Zenon DEF TypeOK, ConnStates
    <3> QED
      BY <3>1, <3>2, Zenon DEF Moves
  <2> QED
    BY <2>1, <2>2, Zenon DEF Unlisten
<1>4. TypeOK'
  BY <1>0, <1>1, <1>2, <1>3, TypeStep, Zenon DEF TypeOK
<1> QED
  BY <1>1, <1>2, <1>3, <1>4, MoveStep, Zenon

-----------------------------------------------------------------------------
(***************************************************************************)
(* add_connection, first half.                                             *)
(***************************************************************************)

\* The new session has the address to itself at the opener, and the other end has not
\* heard of it.
LEMMA InsertStep ==
    ASSUME MuxInv, OneOpener, Patient, NEW t \in Session, Insert(t)
    PROVE  MuxInv'
<1> DEFINE p == Opener[t]
           b == AddrOf[t]
<1>0. /\ TypeOK /\ p \in Endpoint /\ Other(p) \in Endpoint /\ Other(p) # p
      /\ AddrOf \in [Session -> Addr]
  BY SessionAssumption, OtherFacts, AddrFacts, Zenon DEF MuxInv, TypeOK
<1>1. /\ conn[p][t] = "none" /\ socket_map[p][b] = None /\ Released(p, t)
      /\ socket_map' = [socket_map EXCEPT ![p][b] = t]
      /\ Become(p, t, "inserted")
      /\ UNCHANGED <<setting, wire, listening, sent, got, ended>>
  BY Zenon DEF Insert
<1>2. /\ conn' \in [Endpoint -> [Session -> ConnStates]] /\ conn'[p][t] = "inserted"
      /\ \A q \in Endpoint : \A s \in Session : q # p \/ s # t => conn'[q][s] = conn[q][s]
  <2>1. "inserted" \in ConnStates
    BY Zenon DEF ConnStates
  <2> QED
    BY <1>0, <1>1, <2>1, BecomeFacts
<1>3. /\ socket_map' \in [Endpoint -> [Addr -> Session \cup {None}]]
      /\ socket_map'[p][b] = t
      /\ \A q \in Endpoint : \A a \in Addr :
            q # p \/ a # b => socket_map'[q][a] = socket_map[q][a]
  BY <1>0, <1>1 DEF TypeOK
<1>4. TypeOK' /\ AddrOf' = AddrOf
  BY <1>0, <1>1, <1>2, <1>3, TypeStep, SameAddr, Zenon DEF TypeOK
<1>5. conn[Other(p)][t] = "none"
  BY <1>1, Zenon DEF MuxInv, Roles
<1>6. \A r \in Session \ {t} : AddrOf[r] = b => conn[p][r] \in {"none", "shut", "gone"}
  BY <1>1, Zenon DEF Released, Patient
<1> HIDE DEF p, b
<1>7. ASSUME NEW s \in Session PROVE Roles(s)'
  <2>1. Roles(s) /\ Opener[s] \in Endpoint /\ Other(Opener[s]) \in Endpoint
    BY SessionAssumption, OtherFacts, Zenon DEF MuxInv
  <2>2. CASE s = t
    <3>1. \A r \in Session \ {t} : AddrOf[r] = b => conn'[p][r] \in {"none", "shut", "gone"}
      BY <1>0, <1>2, <1>6, Zenon
    <3> QED
      BY <1>0, <1>2, <1>4, <1>5, <2>2, <3>1, Zenon DEF Roles, p, b
  <2>3. CASE s # t
    <3>1. conn'[Opener[s]][s] = conn[Opener[s]][s]
          /\ conn'[Other(Opener[s])][s] = conn[Other(Opener[s])][s]
      BY <1>2, <2>1, <2>3, Zenon
    <3>2. ASSUME conn[Opener[s]][s] \in {"inserted", "cancelled", "open", "shutting", "closing"},
                 NEW r \in Session \ {s}, AddrOf[r] = AddrOf[s]
          PROVE  conn'[Opener[s]][r] \in {"none", "shut", "gone"}
      <4>1. CASE r = t
        <5>1. Opener[s] = p
          BY <1>0, <3>2, <4>1, SameOpener, Zenon DEF TypeOK, p
        <5> QED
          BY <1>6, <2>3, <3>2, <4>1, <5>1, Zenon DEF b
      <4>2. CASE r # t
        BY <1>2, <2>1, <3>2, <4>2, Zenon DEF Roles
      <4> QED
        BY <4>1, <4>2, Zenon
    <3> QED
      BY <1>4, <2>1, <3>1, <3>2, Zenon DEF Roles
  <2> QED
    BY <2>2, <2>3, Zenon
<1>8. ASSUME NEW q \in Endpoint, NEW s \in Session
      PROVE  FromSender(q, s)' /\ InMap(q, s)' /\ InOrder(q, s)' /\ Numbered(q, s)'
  <2>0. Other(q) \in Endpoint /\ Other(q) # q /\ (Other(q) = p <=> q = Other(p))
    BY <1>0, OtherFacts, Zenon DEF Endpoint
  <2>1. FromSender(q, s) /\ InMap(q, s) /\ InOrder(q, s) /\ Numbered(q, s)
    BY InvOf, Zenon
  <2>2. /\ Coming(q, s)' <=> Coming(q, s)
        /\ \A k : Has(q, s, k)' <=> Has(q, s, k)
    BY <1>1, Zenon DEF Coming, Has, At, On
  <2>3. InOrder(q, s)'
    BY <1>1, <2>1, Zenon DEF InOrder, On
  <2>4. CASE s # t
    <3>1. conn'[q][s] = conn[q][s] /\ conn'[Other(q)][s] = conn[Other(q)][s]
      BY <1>2, <2>0, <2>4, Zenon
    <3>2. FromSender(q, s)'
      BY <1>1, <2>1, <2>2, <3>1, Zenon DEF FromSender
    <3>3. InMap(q, s)'
      <4>1. ASSUME NEW a \in Addr PROVE socket_map'[q][a] = s <=> socket_map[q][a] = s
        BY <1>1, <1>3, <2>4, MuxNone
      <4> QED
        BY <1>0, <1>1, <1>4, <2>1, <2>2, <3>1, <4>1, Zenon DEF InMap
    <3>4. Numbered(q, s)'
      BY <1>1, <2>1, <2>2, <3>1, Zenon DEF Numbered, Reading, Alive, At, On
    <3> QED
      BY <2>3, <3>2, <3>3, <3>4, Zenon
  <2>5. CASE s = t /\ q = p
    <3>1. /\ sent[Other(p)][t] = 0 /\ ~Coming(p, t) /\ \A k : ~Has(p, t, k)
          /\ conn'[Other(p)][t] = "none" /\ t \notin ended[p]
      <4>1. sent[Other(p)][t] = 0 /\ ~Coming(p, t)
        BY <1>5, <2>1, <2>5, Zenon DEF FromSender, Silent
      <4> QED
        BY <1>0, <1>1, <1>2, <1>5, <2>1, <2>5, <4>1, Zenon DEF InMap, Coming, Has, At
    <3>2. FromSender(p, t)'
      BY <1>1, <2>2, <2>5, <3>1, Zenon DEF FromSender, Finished, Silent
    <3>3. InMap(p, t)'
      <4>1. \A a \in Addr : socket_map'[p][a] = t => a = b
        BY <1>0, <1>1, <1>3, <2>1, <2>5, Zenon DEF InMap, b
      <4> QED
        BY <1>1, <1>2, <1>3, <1>4, <2>2, <3>1, <4>1, Zenon DEF InMap, b
    <3>4. Numbered(p, t)'
      <4>1. Len(got[p][t]) \in Nat
        BY <1>0 DEF TypeOK
      <4>2. \A n \in (Len(got[p][t]) + 1) .. 0 : FALSE
        BY <4>1
      <4>3. \A i \in DOMAIN wire[p] : ~At(p, i, t, "data")
        BY <3>1, Zenon DEF Has
      <4> QED
        BY <1>1, <2>1, <2>5, <3>1, <4>2, <4>3, Zenon DEF Numbered, At, On
    <3> QED
      BY <2>3, <2>5, <3>2, <3>3, <3>4, Zenon
  <2>6. CASE s = t /\ q # p
    <3>1. q = Other(p) /\ Other(q) = p /\ conn'[q][t] = "none" /\ conn[q][t] = "none"
      BY <1>0, <1>2, <1>5, <2>0, <2>6, Zenon DEF Endpoint
    <3>2. FromSender(q, t)'
      <4>1. sent[p][t] = 0 /\ ~Coming(q, t)
        BY <1>1, <2>1, <2>6, <3>1, Zenon DEF FromSender, Silent
      <4>2. \A k : ~Has(q, t, k)
        BY <4>1, Zenon DEF Coming, Has, At
      <4> QED
        BY <1>1, <1>2, <2>2, <2>6, <3>1, <4>1, <4>2, Zenon DEF FromSender, Silent, Finished
    <3>3. InMap(q, t)'
      BY <1>0, <1>1, <1>3, <1>4, <2>1, <2>2, <2>6, <3>1, Zenon DEF InMap
    <3>4. Numbered(q, t)'
      BY <1>1, <2>1, <2>2, <2>6, <3>1 DEF Numbered, Reading, Alive, At, On
    <3> QED
      BY <2>3, <2>6, <3>2, <3>3, <3>4, Zenon
  <2> QED
    BY <2>4, <2>5, <2>6, Zenon
<1>9. ASSUME NEW q \in Endpoint, NEW r \in Session, NEW s \in Session
      PROVE  Separate(q, r, s)'
  <2> SUFFICES ASSUME r # s, AddrOf[r] = AddrOf[s], NEW i \in DOMAIN wire[q], On(q, i, s),
                      socket_map'[q][AddrOf[s]] = r
               PROVE  \E j \in DOMAIN wire[q] : j < i /\ At(q, j, r, "close")
    <3>1. Separate(q, r, s)
      BY InvOf, Zenon
    <3> QED
      BY <1>1, <1>4, <3>1 DEF Separate, At, On
  <2>1. socket_map[q][AddrOf[s]] = r
    <3> SUFFICES ASSUME q = p, AddrOf[s] = b PROVE FALSE
      BY <1>0, <1>3, Zenon
    <3>1. r = t /\ Opener[s] = p
      BY <1>0, <1>3, SameOpener, Zenon DEF TypeOK, p, b
    <3>2. InMap(p, s) /\ FromSender(p, s) /\ Roles(s)
      BY <1>0, InvOf, Zenon
    <3>3. Coming(p, s)
      BY Zenon DEF Coming
    <3>4. s \notin ended[p] /\ conn[Other(p)][s] # "none"
      BY <3>2, <3>3, Zenon DEF InMap, FromSender, Silent
    <3>5. conn[p][s] # "none"
      BY <3>1, <3>2, <3>4, Zenon DEF Roles
    <3> QED
      BY <1>1, <3>2, <3>4, <3>5, MuxNone, Zenon DEF InMap
  <2> QED
    BY <2>1, InvOf, Zenon DEF Separate
<1> QED
  BY <1>4, <1>7, <1>8, <1>9, InvFrom, Zenon

-----------------------------------------------------------------------------
(***************************************************************************)
(* The steps that send a frame.                                            *)
(***************************************************************************)

\* The frames that Handshake, Write, ShutdownDone and DropTask send for t, what becomes of
\* t, and how many data frames it has then sent.
SendOf(p, t, kind, n, c, m) ==
    \/ /\ kind = "open" /\ n = 0 /\ p = Opener[t]
       /\ <<conn[p][t], c>> \in {<<"inserted", "open">>, <<"cancelled", "abandoned">>}
       /\ m = sent[p][t]
    \/ /\ kind = "data" /\ n = sent[p][t] + 1 /\ conn[p][t] \in {"open", "shutting"}
       /\ c = conn[p][t] /\ m = n
    \/ /\ kind = "close" /\ n = 0 /\ conn[p][t] \in {"shutting", "closing"} /\ c \in Finished
       /\ conn[p][t] = "closing" => c = "gone"
       /\ m = sent[p][t]

SendIt(p, t, kind, n, c, m) ==
    /\ SendOf(p, t, kind, n, c, m) /\ Send(p, t, kind, n) /\ Become(p, t, c)
    /\ sent' = [sent EXCEPT ![p][t] = m]
    /\ UNCHANGED <<setting, socket_map, listening, got, ended>>

\* What the sender of a frame is in a position to know.
LEMMA SenderFacts ==
    ASSUME MuxInv, OneOpener, NEW p \in Endpoint, NEW t \in Session,
           conn[p][t] \in {"inserted", "cancelled", "open", "shutting", "closing"},
           NEW q \in Endpoint, q = Other(p)
    PROVE  /\ Other(q) = p /\ ~Has(q, t, "close") /\ t \notin ended[q]
           /\ \A r \in Session : r # t /\ AddrOf[r] = AddrOf[t] /\
                 (socket_map[q][AddrOf[t]] = r \/ Has(q, r, "open")) => Has(q, r, "close")
<1>0. q # p /\ Other(q) = p /\ TypeOK /\ Opener[t] \in Endpoint
  BY OtherFacts, SessionAssumption, Zenon DEF MuxInv
<1>1. Roles(t) /\ FromSender(q, t) /\ InMap(q, t)
  BY InvOf, Zenon
<1>2. ~Has(q, t, "close") /\ t \notin ended[q]
  BY <1>0, <1>1, Zenon DEF FromSender, InMap, Finished
<1>3. ASSUME NEW r \in Session, r # t, AddrOf[r] = AddrOf[t],
             socket_map[q][AddrOf[t]] = r \/ Has(q, r, "open")
      PROVE  Has(q, r, "close")
  <2>1. Roles(r) /\ FromSender(q, r) /\ InMap(q, r) /\ Opener[r] = Opener[t]
    BY <1>0, <1>3, InvOf, SameOpener, Zenon DEF TypeOK
  <2>2. CASE p = Opener[t]
    <3>1. conn[p][r] \in {"none", "shut", "gone"}
      BY <1>1, <1>3, <2>2, Zenon DEF Roles
    <3>2. CASE socket_map[q][AddrOf[t]] = r
      <4>1. conn[q][r] # "none" /\ r \notin ended[q]
        BY <1>3, <2>1, <3>2, Zenon DEF InMap
      <4>2. conn[p][r] # "none"
        BY <1>0, <2>1, <2>2, <4>1, Zenon DEF Roles
      <4> QED
        BY <1>0, <2>1, <3>1, <4>1, <4>2, Zenon DEF FromSender, Finished
    <3>3. CASE Has(q, r, "open")
      <4>1. conn[q][r] = "none" /\ Coming(q, r)
        BY <2>1, <3>3, Zenon DEF FromSender, Has, Coming, At
      <4>2. conn[p][r] # "none"
        BY <1>0, <2>1, <4>1, Zenon DEF FromSender, Silent
      <4>3. r \notin ended[q]
        BY <2>1, <4>1, Zenon DEF InMap
      <4> QED
        BY <1>0, <2>1, <3>1, <3>3, <4>2, <4>3, Zenon DEF FromSender, Finished
    <3> QED
      BY <1>3, <3>2, <3>3, Zenon
  <2>3. CASE p # Opener[t]
    <3>1. q = Opener[t]
      BY <1>0, <2>3, Zenon DEF Endpoint
    <3>2. conn[q][t] # "none"
      BY <1>0, <1>1, <3>1, Zenon DEF Roles
    <3>3. socket_map[q][AddrOf[t]] = t
      BY <1>1, <1>2, <3>2, Zenon DEF InMap
    <3>4. ~Has(q, r, "open")
      BY <1>0, <2>1, <3>1, Zenon DEF FromSender
    <3> QED
      BY <1>3, <3>3, <3>4, Zenon
  <2> QED
    BY <2>2, <2>3, Zenon
<1> QED
  BY <1>0, <1>2, <1>3, Zenon

\* A frame that is sent comes after the others of its session.
LEMMA SendInOrder ==
    ASSUME MuxInv, OneOpener, NEW p \in Endpoint, NEW t \in Session,
           NEW kind \in {"open", "data", "close"}, NEW n \in 0 .. MaxSent,
           NEW c \in ConnStates, NEW m \in 0 .. MaxSent, SendIt(p, t, kind, n, c, m),
           NEW q \in Endpoint, NEW s \in Session
    PROVE  InOrder(q, s)'
<1>0. /\ TypeOK /\ Send(p, t, kind, n) /\ InOrder(q, s) /\ Other(q) \in Endpoint
      /\ sent \in [Endpoint -> [Session -> 0 .. MaxSent]] /\ MaxSent \in Nat
  BY InvOf, OtherFacts, MuxBounds, Zenon DEF SendIt, TypeOK
<1>1. /\ DOMAIN wire[q] \subseteq DOMAIN wire'[q]
      /\ \A i \in DOMAIN wire[q] : wire'[q][i] = wire[q][i]
      /\ \A i \in DOMAIN wire'[q] : i \notin DOMAIN wire[q] =>
            /\ q = Other(p) /\ wire'[q][i] = [s |-> t, kind |-> kind, n |-> n]
            /\ \A j \in DOMAIN wire'[q] : j # i => j \in DOMAIN wire[q] /\ j < i
  <2>1. TypeOK /\ Send(p, t, kind, n)
    BY <1>0, Zenon
  <2> QED
    BY <2>1, SendFacts
<1>2. DOMAIN wire'[q] \subseteq Nat
  <2>0. TypeOK /\ Send(p, t, kind, n)
    BY <1>0, Zenon
  <2>1. wire' \in [Endpoint -> Seq(Frames)]
    BY <2>0, SendFacts, Zenon
  <2>2. wire'[q] \in Seq(Frames)
    BY <2>1, Zenon
  <2> QED
    BY <2>2
<1>3. sent[Other(q)][s] <= sent'[Other(q)][s] /\ sent'[Other(q)][s] \in Nat
  BY <1>0 DEF SendIt, SendOf
<1> SUFFICES ASSUME NEW i \in DOMAIN wire'[q], On(q, i, s)'
             PROVE  /\ wire'[q][i].kind = "data" => wire'[q][i].n \in 1 .. sent'[Other(q)][s]
                    /\ \A j \in DOMAIN wire'[q] : i < j /\ On(q, j, s)' =>
                          /\ wire'[q][i].kind # "close" /\ wire'[q][j].kind # "open"
                          /\ wire'[q][i].kind = "data" /\ wire'[q][j].kind = "data" =>
                                wire'[q][i].n < wire'[q][j].n
  BY Zenon DEF InOrder
<1>4. CASE i \notin DOMAIN wire[q]
  <2>1. q = Other(p) /\ wire'[q][i] = [s |-> t, kind |-> kind, n |-> n] /\ s = t
    BY <1>1, <1>4 DEF On
  <2>2. kind = "data" => n \in 1 .. sent'[Other(q)][s]
    <3>1. Other(q) = p
      BY <2>1, OtherFacts, Zenon
    <3> QED
      BY <1>0, <2>1, <3>1 DEF SendIt, SendOf
  <2>3. \A j \in DOMAIN wire'[q] : ~(i < j)
    BY <1>1, <1>2, <1>4
  <2> QED
    BY <2>1, <2>2, <2>3
<1>5. CASE i \in DOMAIN wire[q]
  <2>1. wire'[q][i] = wire[q][i] /\ On(q, i, s)
    BY <1>1, <1>5, Zenon DEF On
  <2>2. wire[q][i].kind = "data" => wire[q][i].n \in 1 .. sent[Other(q)][s]
    BY <1>0, <1>5, <2>1, Zenon DEF InOrder
  <2>3. wire[q][i].kind = "data" => wire[q][i].n \in 1 .. sent'[Other(q)][s]
    BY <1>0, <1>3, <2>2
  <2>4. ASSUME NEW j \in DOMAIN wire'[q], i < j, On(q, j, s)'
        PROVE  /\ wire[q][i].kind # "close" /\ wire'[q][j].kind # "open"
               /\ wire[q][i].kind = "data" /\ wire'[q][j].kind = "data" =>
                     wire[q][i].n < wire'[q][j].n
    <3>1. CASE j \in DOMAIN wire[q]
      <4>1. wire'[q][j] = wire[q][j] /\ On(q, j, s)
        BY <1>1, <2>4, <3>1, Zenon DEF On
      <4> QED
        BY <1>0, <1>5, <2>1, <2>4, <3>1, <4>1, Zenon DEF InOrder
    <3>2. CASE j \notin DOMAIN wire[q]
      <4>1. q = Other(p) /\ wire'[q][j] = [s |-> t, kind |-> kind, n |-> n] /\ s = t
        BY <1>1, <2>4, <3>2 DEF On
      <4>2. conn[p][t] \in {"inserted", "cancelled", "open", "shutting", "closing"}
        BY Zenon DEF SendIt, SendOf
      <4>3. Other(q) = p /\ ~Has(q, t, "close") /\ FromSender(q, t)
        BY <4>1, <4>2, SenderFacts, InvOf, Zenon
      <4>4. wire[q][i].kind # "close"
        BY <1>5, <2>1, <4>1, <4>3, Zenon DEF Has, At
      <4>5. kind # "open"
        <5>1. Coming(q, t)
          BY <1>5, <2>1, <4>1, Zenon DEF Coming
        <5>2. conn[p][t] \notin Silent
          BY <4>3, <5>1, Zenon DEF FromSender
        <5> QED
          BY <5>2, Zenon DEF SendIt, SendOf, Silent
      <4>6. kind = "data" /\ wire[q][i].kind = "data" => wire[q][i].n < n
        <5>1. kind = "data" => n = sent[p][t] + 1
          BY Zenon DEF SendIt, SendOf
        <5> QED
          BY <1>0, <2>2, <4>1, <4>3, <5>1
      <4> QED
        BY <4>1, <4>4, <4>5, <4>6
    <3> QED
      BY <3>1, <3>2, Zenon
  <2> QED
    BY <2>1, <2>3, <2>4, Zenon
<1> QED
  BY <1>4, <1>5, Zenon

\* A frame that is sent comes after the closing frames of earlier sessions.
LEMMA SendSeparate ==
    ASSUME MuxInv, OneOpener, NEW p \in Endpoint, NEW t \in Session,
           NEW kind \in {"open", "data", "close"}, NEW n \in 0 .. MaxSent,
           NEW c \in ConnStates, NEW m \in 0 .. MaxSent, SendIt(p, t, kind, n, c, m),
           NEW q \in Endpoint, NEW r \in Session, NEW s \in Session
    PROVE  Separate(q, r, s)'
<1>0. /\ TypeOK /\ Send(p, t, kind, n) /\ Separate(q, r, s) /\ InOrder(q, r)
      /\ AddrOf' = AddrOf /\ socket_map' = socket_map
  BY InvOf, SameAddr, Zenon DEF SendIt
<1>1. /\ DOMAIN wire[q] \subseteq DOMAIN wire'[q]
      /\ \A i \in DOMAIN wire[q] : wire'[q][i] = wire[q][i]
      /\ \A i \in DOMAIN wire'[q] : i \notin DOMAIN wire[q] =>
            /\ q = Other(p) /\ wire'[q][i] = [s |-> t, kind |-> kind, n |-> n]
            /\ \A j \in DOMAIN wire'[q] : j # i => j \in DOMAIN wire[q] /\ j < i
  <2>1. TypeOK /\ Send(p, t, kind, n)
    BY <1>0, Zenon
  <2> QED
    BY <2>1, SendFacts
<1>2. DOMAIN wire'[q] \subseteq Nat
  <2>0. TypeOK /\ Send(p, t, kind, n)
    BY <1>0, Zenon
  <2>1. wire' \in [Endpoint -> Seq(Frames)]
    BY <2>0, SendFacts, Zenon
  <2>2. wire'[q] \in Seq(Frames)
    BY <2>1, Zenon
  <2> QED
    BY <2>2
<1>3. \A j \in DOMAIN wire[q] : At(q, j, r, "close") => At(q, j, r, "close")'
  BY <1>1, Zenon DEF At, On
<1> SUFFICES ASSUME r # s, AddrOf[r] = AddrOf[s], NEW i \in DOMAIN wire'[q], On(q, i, s)'
             PROVE  /\ socket_map[q][AddrOf[s]] = r =>
                         \E j \in DOMAIN wire'[q] : j < i /\ At(q, j, r, "close")'
                    /\ \A k \in DOMAIN wire'[q] : k < i /\ At(q, k, r, "open")' =>
                         \E j \in DOMAIN wire'[q] : k < j /\ j < i /\ At(q, j, r, "close")'
  BY <1>0, Zenon DEF Separate
<1>4. CASE i \in DOMAIN wire[q]
  <2>1. On(q, i, s)
    BY <1>1, <1>4, Zenon DEF On
  <2>2. socket_map[q][AddrOf[s]] = r =>
           \E j \in DOMAIN wire[q] : j < i /\ At(q, j, r, "close")
    BY <1>0, <1>4, <2>1, Zenon DEF Separate
  <2>3. ASSUME NEW k \in DOMAIN wire'[q], k < i, At(q, k, r, "open")'
        PROVE  \E j \in DOMAIN wire'[q] : k < j /\ j < i /\ At(q, j, r, "close")'
    <3>1. k \in DOMAIN wire[q]
      BY <1>1, <1>2, <1>4, <2>3
    <3>2. At(q, k, r, "open")
      BY <1>1, <2>3, <3>1, Zenon DEF At, On
    <3>3. \E j \in DOMAIN wire[q] : k < j /\ j < i /\ At(q, j, r, "close")
      BY <1>0, <1>4, <2>1, <2>3, <3>1, <3>2, Zenon DEF Separate
    <3> QED
      BY <1>1, <1>3, <3>3, Zenon
  <2> QED
    BY <1>1, <1>3, <2>2, <2>3, Zenon
<1>5. CASE i \notin DOMAIN wire[q]
  <2>1. q = Other(p) /\ s = t /\ \A j \in DOMAIN wire[q] : j < i
    <3>1. q = Other(p) /\ wire'[q][i] = [s |-> t, kind |-> kind, n |-> n]
      BY <1>1, <1>5, Zenon
    <3> QED
      BY <1>1, <1>5, <3>1 DEF On
  <2>2. socket_map[q][AddrOf[s]] = r \/ Has(q, r, "open") => Has(q, r, "close")
    <3>1. conn[p][t] \in {"inserted", "cancelled", "open", "shutting", "closing"}
      BY Zenon DEF SendIt, SendOf
    <3> QED
      BY <2>1, <3>1, SenderFacts, Zenon
  <2>3. socket_map[q][AddrOf[s]] = r =>
           \E j \in DOMAIN wire'[q] : j < i /\ At(q, j, r, "close")'
    BY <1>1, <1>3, <2>1, <2>2, Zenon DEF Has
  <2>4. ASSUME NEW k \in DOMAIN wire'[q], k < i, At(q, k, r, "open")'
        PROVE  \E j \in DOMAIN wire'[q] : k < j /\ j < i /\ At(q, j, r, "close")'
    <3>1. k \in DOMAIN wire[q]
      BY <1>1, <1>2, <1>5, <2>4
    <3>2. At(q, k, r, "open")
      BY <1>1, <2>4, <3>1, Zenon DEF At, On
    <3>3. PICK j \in DOMAIN wire[q] : At(q, j, r, "close")
      BY <2>2, <3>1, <3>2, Zenon DEF Has
    <3>4. ~(j < k) /\ j # k
      BY <1>0, <3>1, <3>2, <3>3, Zenon DEF InOrder, At
    <3>5. k < j
      BY <1>1, <1>2, <3>1, <3>4
    <3> QED
      BY <1>1, <1>3, <2>1, <3>3, <3>5, Zenon
  <2> QED
    BY <2>3, <2>4, Zenon
<1> QED
  BY <1>4, <1>5, Zenon

\* What an entry has got, and what is coming for it, goes on to be all that was sent.
LEMMA SendNumbered ==
    ASSUME MuxInv, OneOpener, NEW p \in Endpoint, NEW t \in Session,
           NEW kind \in {"open", "data", "close"}, NEW n \in 0 .. MaxSent,
           NEW c \in ConnStates, NEW m \in 0 .. MaxSent, SendIt(p, t, kind, n, c, m),
           NEW q \in Endpoint, NEW s \in Session
    PROVE  Numbered(q, s)'
<1> DEFINE o == Other(q)
           g == Len(got[q][s])
<1>0. /\ TypeOK /\ Send(p, t, kind, n) /\ Become(p, t, c) /\ Numbered(q, s) /\ InMap(q, s)
      /\ FromSender(q, s) /\ o \in Endpoint /\ (o = p <=> q = Other(p)) /\ got' = got
      /\ ended' = ended /\ sent' = [sent EXCEPT ![p][t] = m]
      /\ sent \in [Endpoint -> [Session -> 0 .. MaxSent]] /\ MaxSent \in Nat
  BY InvOf, OtherFacts, MuxBounds, Zenon DEF SendIt, TypeOK
<1>1. /\ DOMAIN wire[q] \subseteq DOMAIN wire'[q]
      /\ \A i \in DOMAIN wire[q] : wire'[q][i] = wire[q][i]
      /\ \A i \in DOMAIN wire'[q] : i \notin DOMAIN wire[q] =>
            q = Other(p) /\ wire'[q][i] = [s |-> t, kind |-> kind, n |-> n]
      /\ q = Other(p) => \E i \in DOMAIN wire'[q] : i \notin DOMAIN wire[q]
  <2>1. TypeOK /\ Send(p, t, kind, n)
    BY <1>0, Zenon
  <2> QED
    BY <2>1, SendFacts
<1>2. Has(q, s, "open")' <=> Has(q, s, "open") \/ (q = Other(p) /\ s = t /\ kind = "open")
  BY <1>0, SendHas
<1>3. g \in Nat
  BY <1>0 DEF TypeOK
<1>4. Alive(q, s)' => Alive(q, s)
  <2>1. CASE q = p /\ s = t
    <3>1. conn'[q][s] = c
      BY <1>0, <2>1, BecomeFacts
    <3> QED
      BY <2>1, <3>1, Zenon DEF Alive, SendIt, SendOf, Finished
  <2>2. CASE q # p \/ s # t
    BY <1>0, <2>2, BecomeFacts DEF Alive
  <2> QED
    BY <2>1, <2>2, Zenon
<1>5. CASE o = p /\ s = t
  <2>0. sent'[o][s] = m /\ sent[p][t] \in 0 .. MaxSent
    BY <1>0, <1>5, Zenon
  <2>1. t \notin ended[q]
    BY <1>0, <1>5, SenderFacts, Zenon DEF SendIt, SendOf
  <2>2. g <= sent[p][t] /\ sent[p][t] <= m
    <3>1. g <= sent[p][t]
      BY <1>0, <1>5, Zenon DEF Numbered
    <3>2. sent[p][t] <= m
      BY <2>0, MuxBounds DEF SendIt, SendOf
    <3> QED
      BY <3>1, <3>2, Zenon
  <2>3. ASSUME Reading(q, s)', NEW i \in DOMAIN wire'[q], At(q, i, s, "data")'
        PROVE  wire'[q][i].n > g
    <3>1. CASE i \in DOMAIN wire[q]
      <4>1. At(q, i, s, "data") /\ Coming(q, s)
        BY <1>1, <2>3, <3>1, Zenon DEF At, On, Coming
      <4>2. kind # "open"
        BY <1>0, <1>5, <4>1, Zenon DEF FromSender, SendIt, SendOf, Silent
      <4>3. Reading(q, s)
        BY <1>0, <1>2, <1>4, <2>3, <4>2, Zenon DEF Reading
      <4> QED
        BY <1>0, <1>1, <3>1, <4>1, <4>3, Zenon DEF Numbered
    <3>2. CASE i \notin DOMAIN wire[q]
      <4>1. kind = "data" /\ wire'[q][i].n = n
        BY <1>1, <2>3, <3>2 DEF At
      <4> QED
        BY <1>3, <2>0, <2>2, <4>1 DEF SendIt, SendOf
    <3> QED
      BY <3>1, <3>2, Zenon
  <2>4. ASSUME Reading(q, s)', NEW x \in (g + 1) .. m
        PROVE  \E i \in DOMAIN wire'[q] : At(q, i, s, "data")' /\ wire'[q][i].n = x
    <3>1. CASE x <= sent[p][t]
      <4>1. kind # "open"
        <5>1. kind = "open" => sent[p][t] = 0
          BY <1>0, <1>5, Zenon DEF FromSender, SendIt, SendOf, Silent
        <5> QED
          BY <1>3, <3>1, <5>1
      <4>2. Reading(q, s)
        BY <1>0, <1>2, <1>4, <2>4, <4>1, Zenon DEF Reading
      <4>3. x \in (g + 1) .. sent[o][s]
        BY <1>3, <1>5, <2>0, <3>1
      <4>4. PICK i \in DOMAIN wire[q] : At(q, i, s, "data") /\ wire[q][i].n = x
        BY <1>0, <4>2, <4>3, Zenon DEF Numbered
      <4> QED
        BY <1>1, <4>4, Zenon DEF At, On
    <3>2. CASE ~(x <= sent[p][t])
      <4>1. kind = "data" /\ x = n
        BY <1>3, <2>0, <2>2, <3>2 DEF SendIt, SendOf
      <4>2. PICK i \in DOMAIN wire'[q] : i \notin DOMAIN wire[q]
        BY <1>0, <1>1, <1>5, Zenon
      <4>3. wire'[q][i] = [s |-> t, kind |-> kind, n |-> n]
        BY <1>1, <4>2, Zenon
      <4> QED
        BY <1>5, <4>1, <4>2, <4>3 DEF At, On
    <3> QED
      BY <3>1, <3>2, Zenon
  <2>5. Len(got'[q][s]) <= sent'[o][s]
    <3>1. Len(got'[q][s]) = g
      BY <1>0, Zenon
    <3> QED
      BY <1>3, <2>0, <2>2, <3>1, MuxBounds, m \in 0 .. MaxSent
  <2> QED
    BY <1>0, <1>5, <2>0, <2>1, <2>3, <2>4, <2>5, Zenon DEF Numbered
<1>6. CASE o # p \/ s # t
  <2>1. sent'[o][s] = sent[o][s]
    BY <1>0, <1>6, Zenon
  <2>2. Reading(q, s)' => Reading(q, s)
    BY <1>0, <1>2, <1>4, <1>6, Zenon DEF Reading
  <2>3. \A i \in DOMAIN wire'[q] : At(q, i, s, "data")' =>
           i \in DOMAIN wire[q] /\ At(q, i, s, "data") /\ wire'[q][i] = wire[q][i]
    <3> SUFFICES ASSUME NEW i \in DOMAIN wire'[q], At(q, i, s, "data")', i \notin DOMAIN wire[q]
                 PROVE  FALSE
      BY <1>1, Zenon DEF At, On
    <3>1. q = Other(p) /\ wire'[q][i] = [s |-> t, kind |-> kind, n |-> n]
      BY <1>1, Zenon
    <3>2. wire'[q][i].s = t
      BY <3>1
    <3>3. s = t
      BY <3>2, Zenon DEF At, On
    <3> QED
      BY <1>0, <1>6, <3>1, <3>3, Zenon
  <2>4. \A i \in DOMAIN wire[q] : At(q, i, s, "data") =>
           i \in DOMAIN wire'[q] /\ At(q, i, s, "data")' /\ wire'[q][i] = wire[q][i]
    BY <1>1, Zenon DEF At, On
  <2>5. Reading(q, s)' =>
          /\ \A i \in DOMAIN wire'[q] : At(q, i, s, "data")' => wire'[q][i].n > g
          /\ \A x \in (g + 1) .. sent[o][s] :
                \E i \in DOMAIN wire'[q] : At(q, i, s, "data")' /\ wire'[q][i].n = x
    BY <1>0, <2>2, <2>3, <2>4, Zenon DEF Numbered
  <2> QED
    BY <1>0, <1>4, <2>1, <2>5, Zenon DEF Numbered
<1> QED
  BY <1>5, <1>6, Zenon

\* A frame is sent.
LEMMA SendStep ==
    ASSUME MuxInv, OneOpener, NEW p \in Endpoint, NEW t \in Session,
           NEW kind \in {"open", "data", "close"}, NEW n \in 0 .. MaxSent,
           NEW c \in ConnStates, NEW m \in 0 .. MaxSent, SendIt(p, t, kind, n, c, m)
    PROVE  MuxInv'
<1>0. /\ TypeOK /\ Send(p, t, kind, n) /\ Become(p, t, c) /\ SendOf(p, t, kind, n, c, m)
      /\ sent' = [sent EXCEPT ![p][t] = m]
      /\ UNCHANGED <<setting, socket_map, listening, got, ended>>
  BY Zenon DEF SendIt, MuxInv
<1>1. /\ conn' \in [Endpoint -> [Session -> ConnStates]] /\ conn'[p][t] = c
      /\ \A q \in Endpoint : \A s \in Session : q # p \/ s # t => conn'[q][s] = conn[q][s]
  BY <1>0, BecomeFacts
<1>2. TypeOK'
  <2>1. wire' \in [Endpoint -> Seq(Frames)]
    BY <1>0, SendFacts, Zenon
  <2>2. sent' \in [Endpoint -> [Session -> 0 .. MaxSent]]
    BY <1>0, Zenon DEF TypeOK
  <2> QED
    BY <1>0, <1>1, <2>1, <2>2, TypeStep, Zenon DEF TypeOK
<1>3. AddrOf' = AddrOf
  BY <1>0, SameAddr, Zenon
<1>4. /\ conn[p][t] \in {"inserted", "cancelled", "open", "shutting", "closing"} /\ c # "none"
      /\ c \notin Silent /\ (c \in Finished <=> kind = "close")
      /\ c \in {"open", "shutting", "abandoned", "shut", "gone"}
  BY <1>0, Zenon DEF SendOf, Silent, Finished
<1>5. ASSUME NEW s \in Session PROVE Roles(s)'
  <2> DEFINE o == Opener[s]
  <2>0. o \in Endpoint /\ Other(o) \in Endpoint
    BY SessionAssumption, OtherFacts, Zenon
  <2>1. Roles(s)
    BY Zenon DEF MuxInv
  <2>2. \A q \in Endpoint :
           /\ conn'[q][s] = "none" <=> conn[q][s] = "none"
           /\ conn'[q][s] \in {"inserted", "cancelled"} => conn[q][s] \in {"inserted", "cancelled"}
           /\ conn'[q][s] \in {"queued", "lost"} => conn[q][s] \in {"queued", "lost"}
           /\ conn'[q][s] \in {"inserted", "cancelled", "open", "shutting", "closing"} =>
                 conn[q][s] \in {"inserted", "cancelled", "open", "shutting", "closing"}
    BY <1>1, <1>4, Zenon
  <2>3. ASSUME conn'[o][s] \in {"inserted", "cancelled", "open", "shutting", "closing"},
               NEW r \in Session \ {s}, AddrOf[r] = AddrOf[s]
        PROVE  conn'[o][r] \in {"none", "shut", "gone"}
    <3>1. conn[o][r] \in {"none", "shut", "gone"}
      BY <2>0, <2>1, <2>2, <2>3, Zenon DEF Roles
    <3> QED
      BY <1>1, <1>4, <2>0, <3>1, Zenon
  <2> QED
    BY <1>3, <2>0, <2>1, <2>2, <2>3, Zenon DEF Roles
<1>6. ASSUME NEW q \in Endpoint, NEW s \in Session PROVE FromSender(q, s)' /\ InMap(q, s)'
  <2> DEFINE o == Other(q)
  <2>0. o \in Endpoint /\ o # q /\ (q = Other(p) <=> o = p)
    BY OtherFacts, Zenon
  <2>1. Roles(s) /\ FromSender(q, s) /\ InMap(q, s) /\ Roles(t) /\ FromSender(q, t)
    BY InvOf, Zenon
  <2>2. /\ Coming(q, s)' <=> Coming(q, s) \/ (q = Other(p) /\ s = t)
        /\ \A k : Has(q, s, k)' <=> Has(q, s, k) \/ (q = Other(p) /\ s = t /\ k = kind)
    BY <1>0, SendHas
  <2>3. conn'[q][s] = "none" <=> conn[q][s] = "none"
    BY <1>1, <1>4, Zenon
  <2>4. CASE o = p /\ s = t
    <3>1. /\ ~Has(q, t, "close") /\ t \notin ended[q] /\ conn'[o][s] = c
          /\ conn'[q][s] = conn[q][s]
      BY <1>1, <1>4, <2>0, <2>4, SenderFacts, Zenon
    <3>2. kind = "open" => /\ p = Opener[t] /\ conn[q][t] = "none"
                           /\ conn[p][t] \in {"inserted", "cancelled"}
      BY <1>0, <2>0, <2>1, <2>4, Zenon DEF SendOf, Roles
    <3>3. kind # "open" => conn[p][t] \notin Silent
      BY <1>0, Zenon DEF SendOf, Silent
    <3>4. FromSender(q, s)'
      <4>1. Has(q, s, "open")' => o = Opener[s] /\ conn'[q][s] = "none"
        BY <2>1, <2>2, <2>4, <3>1, <3>2, Zenon DEF FromSender
      <4>2. conn'[q][s] = "none" /\ listening'[q] => Has(q, s, "open")'
        BY <1>0, <2>0, <2>1, <2>2, <2>4, <3>1, <3>2, <3>3, Zenon DEF FromSender
      <4>3. Has(q, s, "close")' <=> kind = "close"
        BY <2>0, <2>2, <2>4, <3>1, Zenon
      <4> QED
        BY <1>4, <3>1, <4>1, <4>2, <4>3, Zenon DEF FromSender
    <3>5. InMap(q, s)'
      BY <1>0, <1>3, <2>1, <2>3, <2>4, <3>1, Zenon DEF InMap
    <3> QED
      BY <3>4, <3>5, Zenon
  <2>5. CASE o # p \/ s # t
    <3>1. conn'[o][s] = conn[o][s] /\ sent'[o][s] = sent[o][s]
      BY <1>0, <1>1, <2>0, <2>5, Zenon DEF TypeOK
    <3>2. /\ Coming(q, s)' <=> Coming(q, s)
          /\ \A k : Has(q, s, k)' <=> Has(q, s, k)
      BY <2>0, <2>2, <2>5, Zenon
    <3> QED
      BY <1>0, <1>3, <2>1, <2>3, <3>1, <3>2, Zenon DEF FromSender, InMap
  <2> QED
    BY <2>4, <2>5, Zenon
<1> QED
  BY <1>2, <1>5, <1>6, SendInOrder, SendNumbered, SendSeparate, InvFrom, Zenon

\* Handshake, Write, ShutdownDone and DropTask.
LEMMA SendersStep ==
    ASSUME MuxInv, OneOpener, NEW p \in Endpoint, NEW t \in Session,
           (p = Opener[t] /\ Handshake(t)) \/ Write(p, t) \/ ShutdownDone(p, t) \/ DropTask(p, t)
    PROVE  MuxInv'
<1>0. /\ TypeOK /\ MaxSent \in Nat /\ sent \in [Endpoint -> [Session -> 0 .. MaxSent]]
      /\ sent[p][t] \in 0 .. MaxSent /\ 0 \in 0 .. MaxSent
  BY MuxBounds DEF MuxInv, TypeOK
<1>1. [sent EXCEPT ![p][t] = sent[p][t]] = sent
  BY <1>0, Zenon
<1>2. {"open", "shutting", "abandoned", "shut", "gone"} \subseteq ConnStates
  BY Zenon DEF ConnStates
<1>3. CASE p = Opener[t] /\ Handshake(t)
  <2>1. SendIt(p, t, "open", 0, "open", sent[p][t])
    BY <1>1, <1>3, Zenon DEF SendIt, SendOf, Handshake
  <2> QED
    BY <1>0, <1>2, <2>1, SendStep, Zenon
<1>4. CASE Write(p, t)
  <2>1. sent[p][t] + 1 \in 0 .. MaxSent
    <3>1. setting.quota \in 0 .. MaxSent /\ sent[p][t] < setting.quota
      BY <1>0, <1>4, SessionAssumption, Zenon DEF TypeOK, Write
    <3> QED
      BY <1>0, <3>1
  <2>2. [conn EXCEPT ![p][t] = conn[p][t]] = conn /\ conn[p][t] \in {"open", "shutting"}
    BY <1>4, Zenon DEF MuxInv, TypeOK, Write
  <2>3. SendIt(p, t, "data", sent[p][t] + 1, conn[p][t], sent[p][t] + 1)
    BY <1>4, <2>2, Zenon DEF SendIt, SendOf, Write, Become
  <2>4. conn[p][t] \in ConnStates
    BY <1>2, <2>2, Zenon
  <2> QED
    BY <2>1, <2>3, <2>4, SendStep, Zenon
<1>5. CASE ShutdownDone(p, t)
  <2>1. SendIt(p, t, "close", 0, "shut", sent[p][t])
    BY <1>1, <1>5, Zenon DEF SendIt, SendOf, ShutdownDone, Finished
  <2> QED
    BY <1>0, <1>2, <2>1, SendStep, Zenon
<1>6. CASE DropTask(p, t)
  <2>1. CASE conn[p][t] = "closing"
    <3>1. SendIt(p, t, "close", 0, "gone", sent[p][t])
      BY <1>1, <1>6, <2>1, Zenon DEF SendIt, SendOf, DropTask, Finished
    <3> QED
      BY <1>0, <1>2, <3>1, SendStep, Zenon
  <2>2. CASE conn[p][t] = "cancelled"
    <3>0. Roles(t) /\ Opener[t] \in Endpoint
      BY SessionAssumption, Zenon DEF MuxInv
    <3>1. p = Opener[t]
      <4>1. p # Opener[t] => p = Other(Opener[t])
        BY <3>0, Zenon DEF Endpoint, Other
      <4> QED
        BY <2>2, <3>0, <4>1, Zenon DEF Roles
    <3>2. SendIt(p, t, "open", 0, "abandoned", sent[p][t])
      BY <1>1, <1>6, <2>2, <3>1, Zenon DEF SendIt, SendOf, DropTask
    <3> QED
      BY <1>0, <1>2, <3>2, SendStep, Zenon
  <2> QED
    BY <1>6, <2>1, <2>2, Zenon DEF DropTask
<1> QED
  BY <1>3, <1>4, <1>5, <1>6, Zenon
============================================================================
