----------------------------- MODULE MuxProofs -----------------------------
(***************************************************************************)
(* Proofs about Mux, for any number of sessions and addresses: the empty   *)
(* frame is taken for what it is in its session.  The stream does not fail *)
(* and frames are whole; cancelled add_connections and connections dropped *)
(* in a pending shutdown are part of the model.                            *)
(***************************************************************************)
EXTENDS MuxSendSteps

-----------------------------------------------------------------------------
(***************************************************************************)
(* The demultiplexer.                                                      *)
(***************************************************************************)

\* What the frame that poll_next_packet meets next can be: its address is free, or taken
\* by its own session; it is free for an opening frame, and for another only at an
\* endpoint that does not listen and has ignored the opening frame.
LEMMA FrontFacts ==
    ASSUME MuxInv, NEW p \in Endpoint, wire[p] # << >>, NEW s, s = Front(p).s
    PROVE  /\ s \in Session /\ s \notin ended[p] /\ conn[Other(p)][s] \notin Silent
           /\ 1 \in DOMAIN wire[p] /\ Front(p) = wire[p][1] /\ Front(p) \in Frames
           /\ Known(p) \in {None, s}
           /\ Known(p) = s <=> conn[p][s] # "none"
           /\ Front(p).kind = "open" =>
                 Known(p) = None /\ p = Other(Opener[s]) /\ Opener[s] = Other(p)
           /\ Front(p).kind # "open" =>
                 ~Has(p, s, "open") /\ (Known(p) = None => ~listening[p])
           /\ Front(p).kind = "close" => \A i \in DOMAIN wire[p] : i # 1 => ~On(p, i, s)
<1> DEFINE W == wire[p]
           o == Other(p)
<1>0. TypeOK /\ W \in Seq(Frames) /\ o \in Endpoint /\ Other(o) = p
  BY OtherFacts, Zenon DEF MuxInv, TypeOK
<1>1. /\ 1 \in DOMAIN W /\ Front(p) = W[1] /\ W[1] \in Frames
      /\ \A i \in DOMAIN W : i \in Nat /\ i >= 1
  BY <1>0 DEF Front
<1>2. s \in Session /\ On(p, 1, s) /\ Coming(p, s)
  BY <1>1, Zenon DEF Frames, On, Coming
<1>3. FromSender(p, s) /\ InMap(p, s) /\ InOrder(p, s)
  BY <1>2, InvOf, Zenon
<1>4. s \notin ended[p] /\ conn[o][s] \notin Silent
  BY <1>2, <1>3, Zenon DEF InMap, FromSender
<1>5. Place(p) = AddrOf[s] /\ AddrOf[s] \in Addr /\ Known(p) = socket_map[p][AddrOf[s]]
  BY <1>0, <1>2, AddrFacts, Zenon DEF Place, Known, TypeOK
<1>6. Known(p) \in {None, s}
  <2> SUFFICES ASSUME NEW r \in Session, r # s, Known(p) = r PROVE FALSE
    BY <1>0, <1>5 DEF TypeOK
  <2>1. InMap(p, r) /\ Separate(p, r, s)
    BY <1>2, InvOf, Zenon
  <2>2. AddrOf[r] = AddrOf[s]
    BY <1>5, <2>1, Zenon DEF InMap
  <2>3. \E j \in DOMAIN W : j < 1 /\ At(p, j, r, "close")
    BY <1>1, <1>2, <1>5, <2>1, <2>2, Zenon DEF Separate
  <2> QED
    BY <1>1, <2>3
<1>7. Known(p) = s <=> conn[p][s] # "none"
  BY <1>3, <1>4, <1>5, Zenon DEF InMap
<1>8. Front(p).kind = "open" => Known(p) = None /\ p = Other(Opener[s]) /\ Opener[s] = o
  <2>1. Front(p).kind = "open" => Has(p, s, "open")
    BY <1>1, <1>2, Zenon DEF Has, At
  <2> QED
    BY <1>0, <1>3, <1>6, <1>7, <2>1, Zenon DEF FromSender
<1>9. ASSUME Front(p).kind # "open"
      PROVE  ~Has(p, s, "open") /\ (Known(p) = None => ~listening[p])
  <2>1. \A j \in DOMAIN W : At(p, j, s, "open") => j # 1 /\ 1 < j
    BY <1>1, <1>9 DEF At
  <2>2. ~Has(p, s, "open")
    BY <1>1, <1>2, <1>3, <2>1, Zenon DEF Has, At, InOrder
  <2>3. Known(p) = None => conn[p][s] = "none"
    BY <1>2, <1>7, MuxNone, Zenon
  <2> QED
    BY <1>3, <1>4, <2>2, <2>3, Zenon DEF FromSender
<1>10. ASSUME Front(p).kind = "close", NEW i \in DOMAIN W, i # 1 PROVE ~On(p, i, s)
  <2>1. 1 < i
    BY <1>1, <1>10
  <2> QED
    BY <1>1, <1>2, <1>3, <1>10, <2>1, Zenon DEF InOrder
<1> QED
  BY <1>1, <1>2, <1>4, <1>6, <1>7, <1>8, <1>9, <1>10, Zenon

\* The frames that are left are in order.
LEMMA TakeInOrder ==
    ASSUME MuxInv, NEW p \in Endpoint, NEW e \in BOOLEAN, Arrived(p, e), UNCHANGED sent,
           NEW q \in Endpoint, NEW s \in Session
    PROVE  InOrder(q, s)'
<1>0. TypeOK /\ InOrder(q, s)
  BY InvOf, Zenon
<1>1. /\ q # p => wire'[q] = wire[q]
      /\ \A i \in DOMAIN wire'[p] :
            i \in Nat /\ i + 1 \in DOMAIN wire[p] /\ wire'[p][i] = wire[p][i + 1]
  BY <1>0, TakeFacts, Zenon
<1>2. CASE q # p
  BY <1>0, <1>1, <1>2, Zenon DEF InOrder, On
<1>3. CASE q = p
  <2> SUFFICES ASSUME NEW i \in DOMAIN wire'[p], On(p, i, s)'
               PROVE  /\ wire'[p][i].kind = "data" => wire'[p][i].n \in 1 .. sent[Other(p)][s]
                      /\ \A j \in DOMAIN wire'[p] : i < j /\ On(p, j, s)' =>
                            /\ wire'[p][i].kind # "close" /\ wire'[p][j].kind # "open"
                            /\ wire'[p][i].kind = "data" /\ wire'[p][j].kind = "data" =>
                                  wire'[p][i].n < wire'[p][j].n
    BY <1>3, Zenon DEF InOrder
  <2>1. i + 1 \in DOMAIN wire[p] /\ On(p, i + 1, s) /\ wire'[p][i] = wire[p][i + 1]
    BY <1>1, Zenon DEF On
  <2>2. wire'[p][i].kind = "data" => wire'[p][i].n \in 1 .. sent[Other(p)][s]
    BY <1>0, <1>3, <2>1, Zenon DEF InOrder
  <2>3. ASSUME NEW j \in DOMAIN wire'[p], i < j, On(p, j, s)'
        PROVE  /\ wire'[p][i].kind # "close" /\ wire'[p][j].kind # "open"
               /\ wire'[p][i].kind = "data" /\ wire'[p][j].kind = "data" =>
                     wire'[p][i].n < wire'[p][j].n
    <3>1. j + 1 \in DOMAIN wire[p] /\ On(p, j + 1, s) /\ wire'[p][j] = wire[p][j + 1]
      BY <1>1, <2>3, Zenon DEF On
    <3>2. i + 1 < j + 1
      BY <1>1, <2>3
    <3> QED
      BY <1>0, <1>3, <2>1, <3>1, <3>2, Zenon DEF InOrder
  <2> QED
    BY <2>2, <2>3, Zenon
<1> QED
  BY <1>2, <1>3, Zenon

\* Sessions stay separate if the map gets only the session of an opening frame, and
\* loses that of a closing one.
LEMMA TakeSeparate ==
    ASSUME MuxInv, NEW p \in Endpoint, NEW e \in BOOLEAN, Arrived(p, e), UNCHANGED setting,
           NEW q \in Endpoint, NEW r \in Session, NEW s \in Session,
           r # s /\ AddrOf[r] = AddrOf[s] /\ socket_map'[q][AddrOf[s]] = r =>
              \/ /\ socket_map[q][AddrOf[s]] = r
                 /\ q = p => ~(Front(p).s = r /\ Front(p).kind = "close")
              \/ q = p /\ Front(p).s = r /\ Front(p).kind = "open"
    PROVE  Separate(q, r, s)'
<1>0. TypeOK /\ Separate(q, r, s) /\ AddrOf' = AddrOf
  BY InvOf, SameAddr, Zenon
<1>1. /\ q # p => wire'[q] = wire[q]
      /\ 1 \in DOMAIN wire[p] /\ Front(p) = wire[p][1]
      /\ \A i \in DOMAIN wire[p] : i \in Nat /\ i >= 1
      /\ \A i \in DOMAIN wire'[p] :
            /\ i \in Nat /\ i + 1 \in DOMAIN wire[p] /\ i + 1 # 1
            /\ wire'[p][i] = wire[p][i + 1]
      /\ \A i \in DOMAIN wire[p] : i # 1 =>
            i - 1 \in DOMAIN wire'[p] /\ wire'[p][i - 1] = wire[p][i]
  BY <1>0, TakeFacts, Zenon
<1>2. CASE q # p
  BY <1>0, <1>1, <1>2 DEF Separate, At, On
<1>3. CASE q = p
  <2> SUFFICES ASSUME r # s, AddrOf[r] = AddrOf[s], NEW i \in DOMAIN wire'[p], On(p, i, s)'
               PROVE  /\ socket_map'[p][AddrOf[s]] = r =>
                            \E j \in DOMAIN wire'[p] : j < i /\ At(p, j, r, "close")'
                      /\ \A k \in DOMAIN wire'[p] : k < i /\ At(p, k, r, "open")' =>
                            \E j \in DOMAIN wire'[p] : k < j /\ j < i /\ At(p, j, r, "close")'
    BY <1>0, <1>3, Zenon DEF Separate
  <2>1. i \in Nat /\ i + 1 \in DOMAIN wire[p] /\ On(p, i + 1, s)
    BY <1>1, Zenon DEF On
  <2>2. ASSUME NEW j \in DOMAIN wire[p], j # 1, At(p, j, r, "close")
        PROVE  j - 1 \in DOMAIN wire'[p] /\ At(p, j - 1, r, "close")'
    BY <1>1, <2>2, Zenon DEF At, On
  <2>3. ASSUME NEW k \in DOMAIN wire[p], k < i + 1, At(p, k, r, "open")
        PROVE  \E j \in DOMAIN wire'[p] : k < j + 1 /\ j < i /\ At(p, j, r, "close")'
    <3>1. PICK j \in DOMAIN wire[p] : k < j /\ j < i + 1 /\ At(p, j, r, "close")
      BY <1>0, <1>3, <2>1, <2>3, Zenon DEF Separate
    <3>2. j # 1 /\ k < (j - 1) + 1 /\ j - 1 < i
      BY <1>1, <2>1, <3>1
    <3>3. j - 1 \in DOMAIN wire'[p] /\ At(p, j - 1, r, "close")'
      BY <2>2, <3>1, <3>2, Zenon
    <3> QED
      BY <3>2, <3>3, Zenon
  <2>4. ASSUME socket_map'[p][AddrOf[s]] = r
        PROVE  \E j \in DOMAIN wire'[p] : j < i /\ At(p, j, r, "close")'
    <3>1. CASE socket_map[p][AddrOf[s]] = r /\ ~(Front(p).s = r /\ Front(p).kind = "close")
      <4>1. PICK j \in DOMAIN wire[p] : j < i + 1 /\ At(p, j, r, "close")
        BY <1>0, <1>3, <2>1, <3>1, Zenon DEF Separate
      <4>2. j # 1
        BY <1>1, <3>1, <4>1, Zenon DEF At, On
      <4>3. j - 1 < i
        BY <1>1, <2>1, <4>1
      <4> QED
        BY <2>2, <4>1, <4>2, <4>3, Zenon
    <3>2. CASE Front(p).s = r /\ Front(p).kind = "open"
      <4>1. At(p, 1, r, "open") /\ 1 < i + 1
        <5>1. i \in Nat /\ i + 1 # 1
          BY <1>1, Zenon
        <5> QED
          BY <1>1, <3>2, <5>1 DEF At, On
      <4> QED
        BY <1>1, <2>3, <4>1, Zenon
    <3> QED
      BY <1>3, <2>4, <3>1, <3>2, Zenon
  <2>5. ASSUME NEW k \in DOMAIN wire'[p], k < i, At(p, k, r, "open")'
        PROVE  \E j \in DOMAIN wire'[p] : k < j /\ j < i /\ At(p, j, r, "close")'
    <3>1. k + 1 \in DOMAIN wire[p] /\ k + 1 < i + 1 /\ At(p, k + 1, r, "open") /\ k \in Nat
      BY <1>1, <2>1, <2>5 DEF At, On
    <3>2. PICK j \in DOMAIN wire'[p] : k + 1 < j + 1 /\ j < i /\ At(p, j, r, "close")'
      BY <2>3, <3>1, Zenon
    <3>3. k < j
      BY <1>1, <3>1, <3>2
    <3> QED
      BY <3>2, <3>3, Zenon
  <2> QED
    BY <2>4, <2>5, Zenon
<1> QED
  BY <1>2, <1>3, Zenon

\* What an entry has got stays right if it is not reading the data that is taken.
LEMMA TakeNumbered ==
    ASSUME MuxInv, NEW p \in Endpoint, NEW e \in BOOLEAN, Arrived(p, e),
           UNCHANGED <<sent, got>>, NEW q \in Endpoint, NEW s \in Session,
           Reading(q, s)' => Reading(q, s),
           (s \in ended[q] /\ Alive(q, s))' => Len(got[q][s]) = sent[Other(q)][s],
           q = p /\ Front(p).s = s /\ Front(p).kind = "data" => ~Reading(q, s)'
    PROVE  Numbered(q, s)'
<1>0. TypeOK /\ Numbered(q, s)
  BY InvOf, Zenon
<1>1. /\ q # p => wire'[q] = wire[q]
      /\ 1 \in DOMAIN wire[p] /\ Front(p) = wire[p][1]
      /\ \A i \in DOMAIN wire'[p] : i + 1 \in DOMAIN wire[p] /\ wire'[p][i] = wire[p][i + 1]
      /\ \A i \in DOMAIN wire[p] : i # 1 =>
            i - 1 \in DOMAIN wire'[p] /\ wire'[p][i - 1] = wire[p][i]
  BY <1>0, TakeFacts, Zenon
<1>2. ASSUME Reading(q, s)'
      PROVE  /\ \A i \in DOMAIN wire'[q] :
                   At(q, i, s, "data")' => wire'[q][i].n > Len(got[q][s])
             /\ \A x \in (Len(got[q][s]) + 1) .. sent[Other(q)][s] :
                   \E i \in DOMAIN wire'[q] : At(q, i, s, "data")' /\ wire'[q][i].n = x
  <2>0. /\ \A i \in DOMAIN wire[q] : At(q, i, s, "data") => wire[q][i].n > Len(got[q][s])
        /\ \A x \in (Len(got[q][s]) + 1) .. sent[Other(q)][s] :
              \E i \in DOMAIN wire[q] : At(q, i, s, "data") /\ wire[q][i].n = x
    BY <1>0, <1>2, Zenon DEF Numbered
  <2>1. CASE q # p
    BY <1>1, <2>0, <2>1 DEF At, On
  <2>2. CASE q = p
    <3>1. ASSUME NEW i \in DOMAIN wire'[p], At(p, i, s, "data")'
          PROVE  i + 1 \in DOMAIN wire[p] /\ At(p, i + 1, s, "data")
                 /\ wire'[p][i] = wire[p][i + 1]
      BY <1>1, <3>1, Zenon DEF At, On
    <3>2. ASSUME NEW i \in DOMAIN wire[p], At(p, i, s, "data")
          PROVE  i - 1 \in DOMAIN wire'[p] /\ At(p, i - 1, s, "data")'
                 /\ wire'[p][i - 1] = wire[p][i]
      <4>1. i # 1
        BY <1>1, <1>2, <2>2, <3>2, Zenon DEF At, On
      <4> QED
        BY <1>1, <3>2, <4>1, Zenon DEF At, On
    <3>3. \A i \in DOMAIN wire'[q] : At(q, i, s, "data")' => wire'[q][i].n > Len(got[q][s])
      BY <2>0, <2>2, <3>1
    <3>4. ASSUME NEW x \in (Len(got[q][s]) + 1) .. sent[Other(q)][s]
          PROVE  \E i \in DOMAIN wire'[q] : At(q, i, s, "data")' /\ wire'[q][i].n = x
      <4>1. PICK i \in DOMAIN wire[q] : At(q, i, s, "data") /\ wire[q][i].n = x
        BY <2>0, Zenon
      <4> QED
        BY <2>2, <3>2, <4>1, Zenon
    <3> QED
      BY <3>3, <3>4, Zenon
  <2> QED
    BY <2>1, <2>2, Zenon
<1> QED
  BY <1>0, <1>2, Zenon DEF Numbered

\* Payload is taken, stored or not, or an empty frame is ignored: the connections and
\* the map are as before.
LEMMA TakeRest ==
    ASSUME MuxInv, NEW p \in Endpoint, NEW e \in BOOLEAN, Arrived(p, e),
           UNCHANGED <<setting, socket_map, conn, listening, sent, ended>>,
           Front(p).kind # "data" => Known(p) = None /\ ~listening[p],
           NEW q \in Endpoint, NEW s \in Session
    PROVE  /\ Roles(s)' /\ FromSender(q, s)' /\ InMap(q, s)' /\ InOrder(q, s)'
           /\ \A r \in Session : Separate(q, r, s)'
<1> DEFINE f == Front(p).s
<1>0. /\ TypeOK /\ Roles(s) /\ FromSender(q, s) /\ InMap(q, s) /\ wire[p] # << >>
      /\ AddrOf' = AddrOf
  BY InvOf, SameAddr, Zenon DEF Arrived
<1>1. /\ f \in Session /\ conn[Other(p)][f] \notin Silent /\ f \notin ended[p]
      /\ Known(p) = f <=> conn[p][f] # "none"
      /\ Front(p).kind # "open" => ~Has(p, f, "open")
      /\ Front(p) \in Frames
  BY <1>0, FrontFacts, Zenon
<1>2. /\ q # p \/ s # f => (Coming(q, s)' <=> Coming(q, s))
      /\ Coming(q, s)' => Coming(q, s)
      /\ Has(p, f, Front(p).kind)
      /\ \A k : Has(q, s, k)' => Has(q, s, k)
      /\ \A k : q # p \/ s # f \/ k # Front(p).kind => (Has(q, s, k)' <=> Has(q, s, k))
  BY <1>0, TakeHas, Zenon
<1>3. Front(p).kind \in {"open", "data", "close"}
  BY <1>1, Zenon DEF Frames
<1>4. Roles(s)'
  BY <1>0, Zenon DEF Roles
<1>5. FromSender(q, s)'
  <2>1. CASE q = p /\ s = f /\ Front(p).kind # "data"
    <3>1. conn[p][f] = "none" /\ ~listening[p]
      BY <1>1, <2>1, MuxNone, Zenon
    <3>2. conn[Other(p)][s] \in Finished =>
             Has(p, s, "close")' \/ s \in ended[p] \/ ~Has(p, s, "open")'
      <4>1. CASE Front(p).kind = "open"
        BY <1>0, <1>2, <2>1, <4>1, Zenon DEF FromSender
      <4>2. CASE Front(p).kind = "close"
        BY <1>1, <1>2, <2>1, <4>2, Zenon
      <4> QED
        BY <1>3, <2>1, <4>1, <4>2, Zenon
    <3> QED
      BY <1>0, <1>1, <1>2, <2>1, <3>1, <3>2, Zenon DEF FromSender
  <2>2. CASE ~(q = p /\ s = f /\ Front(p).kind # "data")
    <3>1. (Has(q, s, "open")' <=> Has(q, s, "open"))
          /\ (Has(q, s, "close")' <=> Has(q, s, "close"))
      BY <1>2, <2>2, Zenon
    <3> QED
      BY <1>0, <1>2, <3>1, Zenon DEF FromSender
  <2> QED
    BY <2>1, <2>2, Zenon
<1>6. InMap(q, s)'
  BY <1>0, <1>2, Zenon DEF InMap
<1>7. InOrder(q, s)'
  BY TakeInOrder, Zenon
<1>8. ASSUME NEW r \in Session PROVE Separate(q, r, s)'
  <2>1. r # s /\ AddrOf[r] = AddrOf[s] /\ socket_map'[q][AddrOf[s]] = r =>
           /\ socket_map[q][AddrOf[s]] = r
           /\ q = p => ~(Front(p).s = r /\ Front(p).kind = "close")
    BY MuxNone, Zenon DEF Known, Place
  <2> QED
    BY <2>1, TakeSeparate, Zenon
<1> QED
  BY <1>4, <1>5, <1>6, <1>7, <1>8, Zenon

\* A frame is thrown away.
LEMMA IgnoreStep ==
    ASSUME MuxInv, NEW p \in Endpoint, NEW e \in BOOLEAN, Arrived(p, e),
           UNCHANGED <<setting, socket_map, conn, listening, sent, got, ended>>,
           Front(p).kind # "data" => Known(p) = None /\ ~listening[p],
           Front(p).kind = "data" => ~Alive(p, Front(p).s)
    PROVE  MuxInv'
<1>0. TypeOK /\ wire[p] # << >>
  BY Zenon DEF MuxInv, Arrived
<1>1. TypeOK'
  <2>1. wire' \in [Endpoint -> Seq(Frames)]
    BY <1>0, TakeFacts, Zenon
  <2> QED
    BY <1>0, <2>1, TypeStep, Zenon DEF TypeOK
<1>2. ASSUME NEW q \in Endpoint, NEW s \in Session PROVE Numbered(q, s)'
  <2>1. Reading(q, s)' => Reading(q, s)
    BY <1>0, TakeHas, Zenon DEF Reading, Alive
  <2>2. (s \in ended[q] /\ Alive(q, s))' => Len(got[q][s]) = sent[Other(q)][s]
    <3>1. Numbered(q, s)
      BY InvOf, Zenon
    <3> QED
      BY <3>1, Zenon DEF Numbered, Alive
  <2>3. q = p /\ Front(p).s = s /\ Front(p).kind = "data" => ~Reading(q, s)'
    <3> SUFFICES ASSUME q = p, Front(p).s = s, Front(p).kind = "data" PROVE ~Reading(p, s)'
      OBVIOUS
    <3>1. ~Has(p, s, "open")
      BY <1>0, FrontFacts, Zenon
    <3>2. ~Has(p, s, "open")'
      BY <1>0, <3>1, TakeHas, Zenon
    <3> QED
      BY <3>2, Zenon DEF Reading, Alive
  <2> QED
    BY <2>1, <2>2, <2>3, TakeNumbered, Zenon
<1>3. Endpoint # {}
  BY Zenon DEF Endpoint
<1>4. /\ \A s \in Session : Roles(s)'
      /\ \A q \in Endpoint, s \in Session : FromSender(q, s)' /\ InMap(q, s)' /\ InOrder(q, s)'
      /\ \A q \in Endpoint : \A r, s \in Session : Separate(q, r, s)'
  BY <1>3, TakeRest, Zenon
<1> QED
  BY <1>1, <1>2, <1>4, InvFrom, Zenon

\* Payload for a live entry is the next one it waits for, and is stored.
LEMMA StoreStep ==
    ASSUME MuxInv, NEW p \in Endpoint, Arrived(p, FALSE), NEW t \in Session,
           t = Front(p).s, Known(p) = t, Alive(p, t),
           got' = [got EXCEPT ![p][t] = Append(got[p][t], Front(p).n)],
           UNCHANGED <<setting, socket_map, conn, listening, sent, ended>>
    PROVE  MuxInv'
<1> DEFINE g == got[p][t]
           n == Front(p).n
           o == Other(p)
<1>0. /\ TypeOK /\ wire[p] # << >> /\ Front(p).kind = "data" /\ FALSE \in BOOLEAN
      /\ InOrder(p, t) /\ Numbered(p, t) /\ o \in Endpoint
  BY InvOf, OtherFacts, Zenon DEF Arrived
<1>1. /\ t \notin ended[p] /\ 1 \in DOMAIN wire[p] /\ Front(p) = wire[p][1]
      /\ Front(p) \in Frames /\ At(p, 1, t, "data")
  BY <1>0, FrontFacts, Zenon DEF At, On
<1>2. Reading(p, t)
  BY <1>1, Zenon DEF Reading
<1>3. /\ \A i \in DOMAIN wire[p] : i \in Nat /\ i >= 1
      /\ \A i \in DOMAIN wire'[p] :
            /\ i \in Nat /\ i + 1 \in DOMAIN wire[p] /\ i + 1 # 1
            /\ wire'[p][i] = wire[p][i + 1]
      /\ \A i \in DOMAIN wire[p] : i # 1 =>
            i - 1 \in DOMAIN wire'[p] /\ wire'[p][i - 1] = wire[p][i]
  BY <1>0, TakeFacts, Zenon
<1>4. /\ Len(g) \in Nat /\ g \in Seq(0 .. MaxSent) /\ MaxSent \in Nat
      /\ sent[o][t] \in 0 .. MaxSent /\ n \in 0 .. MaxSent
  <2>1. /\ got \in [Endpoint -> [Session -> Seq(0 .. MaxSent)]]
        /\ sent \in [Endpoint -> [Session -> 0 .. MaxSent]]
    BY <1>0, Zenon DEF TypeOK
  <2>2. g \in Seq(0 .. MaxSent) /\ sent[o][t] \in 0 .. MaxSent
    BY <1>0, <2>1, Zenon
  <2>3. n \in 0 .. MaxSent
    BY <1>1, Zenon DEF Frames
  <2> HIDE DEF g, n, o
  <2> QED
    BY <2>2, <2>3, MuxBounds
<1>5. n > Len(g) /\ n \in 1 .. sent[o][t]
  BY <1>0, <1>1, <1>2, Zenon DEF Numbered, InOrder, At
<1>6. ASSUME NEW i \in DOMAIN wire[p], i # 1, At(p, i, t, "data") PROVE wire[p][i].n > n
  <2>1. 1 < i
    BY <1>3, <1>6
  <2>2. n < wire[p][i].n
    BY <1>0, <1>1, <1>6, <2>1, Zenon DEF InOrder, At
  <2>3. wire[p][i].n \in 0 .. MaxSent
    <3>1. wire[p] \in Seq(Frames)
      BY <1>0, Zenon DEF TypeOK
    <3>2. wire[p][i] \in Frames
      BY <1>6, <3>1
    <3> QED
      BY <3>2, Zenon DEF Frames
  <2> QED
    BY <1>4, <2>2, <2>3, Zenon
<1>7. n = Len(g) + 1
  <2>1. Len(g) + 1 \in (Len(g) + 1) .. sent[o][t]
    BY <1>4, <1>5
  <2>2. PICK i \in DOMAIN wire[p] : At(p, i, t, "data") /\ wire[p][i].n = Len(g) + 1
    BY <1>0, <1>2, <2>1, Zenon DEF Numbered
  <2>3. CASE i = 1
    BY <1>1, <2>2, <2>3, Zenon
  <2>4. CASE i # 1
    <3>1. Len(g) + 1 > n
      BY <1>6, <2>2, <2>4, Zenon
    <3> HIDE DEF g, n, o
    <3> QED
      BY <1>4, <1>5, <3>1
  <2> QED
    BY <2>3, <2>4, Zenon
<1>8. /\ Append(g, n) \in Seq(0 .. MaxSent) /\ Len(Append(g, n)) = Len(g) + 1
      /\ \A i \in 1 .. Len(g) : Append(g, n)[i] = g[i]
      /\ Append(g, n)[Len(g) + 1] = n
  <2> HIDE DEF g, n
  <2> QED
    BY <1>4, AppendFacts
<1>9. /\ got' \in [Endpoint -> [Session -> Seq(0 .. MaxSent)]]
      /\ got'[p][t] = Append(g, n)
      /\ \A q \in Endpoint : \A s \in Session : q # p \/ s # t => got'[q][s] = got[q][s]
  <2> HIDE DEF n
  <2>1. got \in [Endpoint -> [Session -> Seq(0 .. MaxSent)]]
    BY <1>0, Zenon DEF TypeOK
  <2>2. got' = [got EXCEPT ![p][t] = Append(g, n)]
    BY Zenon DEF n
  <2> HIDE DEF g
  <2> QED
    BY <1>8, <2>1, <2>2
<1>10. TypeOK'
  <2>1. wire' \in [Endpoint -> Seq(Frames)]
    BY <1>0, TakeFacts, Zenon
  <2>2. ASSUME NEW q \in Endpoint, NEW s \in Session PROVE Len(got'[q][s]) <= MaxSent
    <3>1. CASE q = p /\ s = t
      <4>1. Len(got'[q][s]) = Len(g) + 1
        BY <1>8, <1>9, <3>1, Zenon
      <4> HIDE DEF g, n, o
      <4> QED
        BY <1>4, <1>5, <1>7, <4>1
    <3>2. CASE q # p \/ s # t
      BY <1>0, <1>9, <3>2, Zenon DEF TypeOK
    <3> QED
      BY <3>1, <3>2, Zenon
  <2> QED
    BY <1>0, <1>9, <2>1, <2>2, Zenon DEF TypeOK
<1>11. Numbered(p, t)'
  <2>1. Len(got'[p][t]) = Len(g) + 1 /\ Len(g) + 1 <= sent'[o][t]
    <3>1. Len(got'[p][t]) = Len(g) + 1 /\ sent'[o][t] = sent[o][t]
      BY <1>8, <1>9, Zenon
    <3> HIDE DEF g, n, o
    <3> QED
      BY <1>4, <1>5, <1>7, <3>1
  <2>2. got'[p][t] = [i \in 1 .. Len(got'[p][t]) |-> i]
    <3>1. \A i \in 1 .. Len(g) : g[i] = i
      BY <1>0, Zenon DEF Numbered
    <3>2. DOMAIN Append(g, n) = 1 .. (Len(g) + 1)
      BY <1>8
    <3>3. \A i \in 1 .. (Len(g) + 1) : Append(g, n)[i] = i
      <4> HIDE DEF g, n
      <4> QED
        BY <1>4, <1>7, <1>8, <3>1
    <3>4. Append(g, n) = [i \in 1 .. (Len(g) + 1) |-> i]
      <4> HIDE DEF g, n
      <4> DEFINE A == Append(g, n)
      <4>1. A \in Seq(0 .. MaxSent)
        BY <1>8, Zenon
      <4>2. DOMAIN A = 1 .. (Len(g) + 1) /\ \A i \in 1 .. (Len(g) + 1) : A[i] = i
        BY <3>2, <3>3, Zenon
      <4> HIDE DEF A
      <4>3. A = [i \in DOMAIN A |-> A[i]]
        BY <4>1
      <4> QED
        BY <4>2, <4>3, Zenon DEF A
    <3> QED
      BY <1>9, <2>1, <3>4, Zenon
  <2>3. t \notin ended'[p]
    BY <1>1, Zenon
  <2>4. ASSUME NEW i \in DOMAIN wire'[p], At(p, i, t, "data")'
        PROVE  wire'[p][i].n > Len(g) + 1
    <3>1. At(p, i + 1, t, "data") /\ i + 1 \in DOMAIN wire[p] /\ i + 1 # 1
          /\ wire'[p][i] = wire[p][i + 1]
      BY <1>3, <2>4, Zenon DEF At, On
    <3> QED
      BY <1>6, <1>7, <3>1, Zenon
  <2>5. ASSUME NEW x \in ((Len(g) + 1) + 1) .. sent[o][t]
        PROVE  \E i \in DOMAIN wire'[p] : At(p, i, t, "data")' /\ wire'[p][i].n = x
    <3>1. x \in (Len(g) + 1) .. sent[o][t] /\ x # n
      BY <1>4, <1>7
    <3>2. PICK i \in DOMAIN wire[p] : At(p, i, t, "data") /\ wire[p][i].n = x
      BY <1>0, <1>2, <3>1, Zenon DEF Numbered
    <3>3. i # 1
      BY <1>1, <3>1, <3>2, Zenon
    <3>4. i - 1 \in DOMAIN wire'[p] /\ wire'[p][i - 1] = wire[p][i]
      BY <1>3, <3>3, Zenon
    <3> QED
      BY <3>2, <3>4, Zenon DEF At, On
  <2> QED
    BY <2>1, <2>2, <2>3, <2>4, <2>5, Zenon DEF Numbered
<1>12. ASSUME NEW q \in Endpoint, NEW s \in Session PROVE Numbered(q, s)'
  <2>1. CASE q = p /\ s = t
    BY <1>11, <2>1, Zenon
  <2>2. CASE q # p \/ s # t
    <3>1. got'[q][s] = got[q][s] /\ Numbered(q, s)
      BY <1>9, <2>2, InvOf, Zenon
    <3>2. Reading(q, s)' => Reading(q, s)
      BY <1>0, TakeHas, Zenon DEF Reading, Alive
    <3>3. /\ \A i \in DOMAIN wire'[q] : At(q, i, s, "data")' =>
                \E j \in DOMAIN wire[q] : At(q, j, s, "data") /\ wire'[q][i] = wire[q][j]
          /\ \A i \in DOMAIN wire[q] : At(q, i, s, "data") =>
                \E j \in DOMAIN wire'[q] : At(q, j, s, "data")' /\ wire'[q][j] = wire[q][i]
      <4>1. CASE q # p
        <5>1. wire'[q] = wire[q]
          BY <1>0, <4>1, TakeFacts, Zenon
        <5> QED
          BY <5>1, Zenon DEF At, On
      <4>2. CASE q = p
        <5>1. s # t
          BY <2>2, <4>2, Zenon
        <5>2. \A i \in DOMAIN wire[p] : At(p, i, s, "data") => i # 1
          BY <1>1, <5>1, Zenon DEF At, On
        <5> QED
          BY <1>3, <4>2, <5>2 DEF At, On
      <4> QED
        BY <4>1, <4>2, Zenon
    <3>4. Reading(q, s)' =>
            /\ \A i \in DOMAIN wire'[q] :
                  At(q, i, s, "data")' => wire'[q][i].n > Len(got'[q][s])
            /\ \A x \in (Len(got'[q][s]) + 1) .. sent[Other(q)][s] :
                  \E i \in DOMAIN wire'[q] : At(q, i, s, "data")' /\ wire'[q][i].n = x
      <4> SUFFICES ASSUME Reading(q, s)'
                   PROVE  /\ \A i \in DOMAIN wire'[q] :
                                At(q, i, s, "data")' => wire'[q][i].n > Len(got[q][s])
                          /\ \A x \in (Len(got[q][s]) + 1) .. sent[Other(q)][s] :
                                \E i \in DOMAIN wire'[q] :
                                   At(q, i, s, "data")' /\ wire'[q][i].n = x
        BY <3>1, Zenon
      <4>1. /\ \A i \in DOMAIN wire[q] : At(q, i, s, "data") => wire[q][i].n > Len(got[q][s])
            /\ \A x \in (Len(got[q][s]) + 1) .. sent[Other(q)][s] :
                  \E i \in DOMAIN wire[q] : At(q, i, s, "data") /\ wire[q][i].n = x
        BY <3>1, <3>2, Zenon DEF Numbered
      <4>2. \A i \in DOMAIN wire'[q] : At(q, i, s, "data")' => wire'[q][i].n > Len(got[q][s])
        BY <3>3, <4>1, Zenon
      <4>3. ASSUME NEW x \in (Len(got[q][s]) + 1) .. sent[Other(q)][s]
            PROVE  \E i \in DOMAIN wire'[q] : At(q, i, s, "data")' /\ wire'[q][i].n = x
        <5>1. PICK i \in DOMAIN wire[q] : At(q, i, s, "data") /\ wire[q][i].n = x
          BY <4>1, Zenon
        <5>2. PICK j \in DOMAIN wire'[q] : At(q, j, s, "data")' /\ wire'[q][j] = wire[q][i]
          BY <3>3, <5>1, Zenon
        <5> QED
          BY <5>1, <5>2, Zenon
      <4> QED
        BY <4>2, <4>3, Zenon
    <3> QED
      BY <3>1, <3>4, Zenon DEF Numbered, Alive
  <2> QED
    BY <2>1, <2>2, Zenon
<1>13. /\ \A s \in Session : Roles(s)'
       /\ \A q \in Endpoint, s \in Session : FromSender(q, s)' /\ InMap(q, s)' /\ InOrder(q, s)'
       /\ \A q \in Endpoint : \A r, s \in Session : Separate(q, r, s)'
  BY <1>0, TakeRest, Zenon
<1> QED
  BY <1>10, <1>12, <1>13, InvFrom, Zenon

\* Payload arrives.
LEMMA ReceiveDataStep ==
    ASSUME MuxInv, NEW p \in Endpoint, ReceiveData(p)
    PROVE  MuxInv'
<1> DEFINE t == Front(p).s
<1>0. /\ Arrived(p, FALSE) /\ wire[p] # << >> /\ Front(p).kind = "data"
      /\ UNCHANGED <<setting, socket_map, conn, listening, sent, ended>>
  BY Zenon DEF ReceiveData, Arrived
<1>1. t \in Session /\ Known(p) \in {None, t} /\ (Known(p) = t <=> conn[p][t] # "none")
  BY <1>0, FrontFacts, Zenon
<1>2. CASE Known(p) # None /\ Alive(p, Known(p))
  <2>1. Known(p) = t
    BY <1>1, <1>2, Zenon
  <2>2. got' = [got EXCEPT ![p][t] = Append(got[p][t], Front(p).n)]
    BY <1>2, <2>1, Zenon DEF ReceiveData
  <2> QED
    BY <1>0, <1>1, <1>2, <2>1, <2>2, StoreStep, Zenon
<1>3. CASE ~(Known(p) # None /\ Alive(p, Known(p)))
  <2>1. UNCHANGED got
    BY <1>3, Zenon DEF ReceiveData
  <2>2. ~Alive(p, t)
    BY <1>1, <1>3, MuxNone, Zenon DEF Alive
  <2> QED
    BY <1>0, <2>1, <2>2, IgnoreStep, Zenon
<1> QED
  BY <1>2, <1>3, Zenon

\* An empty frame for a known address is the closing frame of the session it is known
\* for, which has got everything.
LEMMA ReceiveCloseStep ==
    ASSUME MuxInv, NEW p \in Endpoint, ReceiveClose(p)
    PROVE  MuxInv'
<1>0. /\ TypeOK /\ Arrived(p, TRUE) /\ wire[p] # << >> /\ Front(p).kind # "data"
      /\ TRUE \in BOOLEAN /\ Known(p) # None
      /\ socket_map' = [socket_map EXCEPT ![p][Place(p)] = None]
      /\ ended' = [ended EXCEPT ![p] = @ \cup {Known(p)}]
      /\ UNCHANGED <<setting, conn, listening, sent, got>>
  BY Zenon DEF MuxInv, ReceiveClose, Arrived
<1>1. PICK t \in Session : t = Front(p).s
  BY <1>0, FrontFacts, Zenon
<1>2. /\ t \notin ended[p] /\ Known(p) = t /\ conn[p][t] # "none"
      /\ ~Has(p, t, "open") /\ Front(p).kind = "close"
      /\ 1 \in DOMAIN wire[p] /\ Front(p) = wire[p][1]
      /\ \A i \in DOMAIN wire[p] : i # 1 => ~On(p, i, t)
  <2>1. Front(p) \in Frames
    BY <1>0, FrontFacts, Zenon
  <2>2. Front(p).kind = "close"
    BY <1>0, <1>1, <2>1, FrontFacts, Zenon DEF Frames
  <2> QED
    BY <1>0, <1>1, <2>2, FrontFacts, Zenon
<1>3. ~Coming(p, t)' /\ conn[Other(p)][t] \in Finished /\ Has(p, t, "close")
  <2>1. \A i \in DOMAIN wire'[p] :
           i + 1 \in DOMAIN wire[p] /\ i + 1 # 1 /\ wire'[p][i] = wire[p][i + 1]
    BY <1>0, TakeFacts, Zenon
  <2>2. ~Coming(p, t)'
    BY <1>2, <2>1, Zenon DEF Coming, On
  <2>3. Has(p, t, "close")
    BY <1>1, <1>2, Zenon DEF Has, At, On
  <2> QED
    BY <2>2, <2>3, InvOf, Zenon DEF FromSender
<1>4. /\ AddrOf \in [Session -> Addr] /\ AddrOf' = AddrOf /\ Place(p) = AddrOf[t]
      /\ socket_map[p][AddrOf[t]] = t
  BY <1>0, <1>1, <1>2, AddrFacts, SameAddr, Zenon DEF TypeOK, Place, Known
<1>5. /\ socket_map' \in [Endpoint -> [Addr -> Session \cup {None}]]
      /\ socket_map'[p][AddrOf[t]] = None
      /\ \A q \in Endpoint : \A a \in Addr :
            q # p \/ a # AddrOf[t] => socket_map'[q][a] = socket_map[q][a]
  BY <1>0, <1>4, Zenon DEF TypeOK
<1>6. /\ ended' \in [Endpoint -> SUBSET Session] /\ t \in ended'[p]
      /\ \A q \in Endpoint : \A s \in Session :
            q # p \/ s # t => (s \in ended'[q] <=> s \in ended[q])
  BY <1>0, <1>2, Zenon DEF TypeOK
<1>7. TypeOK'
  <2>1. wire' \in [Endpoint -> Seq(Frames)]
    BY <1>0, TakeFacts, Zenon
  <2> QED
    BY <1>0, <1>5, <1>6, <2>1, TypeStep, Zenon DEF TypeOK
<1>8. ASSUME NEW s \in Session PROVE Roles(s)'
  BY <1>0, <1>4, Zenon DEF MuxInv, Roles
<1>9. ASSUME NEW q \in Endpoint, NEW s \in Session
      PROVE  FromSender(q, s)' /\ InMap(q, s)' /\ InOrder(q, s)' /\ Numbered(q, s)'
  <2>0. FromSender(q, s) /\ InMap(q, s) /\ Numbered(q, s)
    BY InvOf, Zenon
  <2>1. /\ Coming(q, s)' => Coming(q, s)
        /\ \A k : Has(q, s, k)' => Has(q, s, k)
        /\ \A k : q # p \/ s # t \/ k # "close" => (Has(q, s, k)' <=> Has(q, s, k))
    BY <1>0, <1>1, <1>2, TakeHas, Zenon
  <2>2. InOrder(q, s)'
    BY <1>0, TakeInOrder, Zenon
  <2>3. ASSUME NEW a \in Addr PROVE socket_map'[q][a] = s => socket_map[q][a] = s
    BY <1>5, MuxNone, Zenon
  <2>4. Reading(q, s)' => Reading(q, s)
    BY <1>0, <1>2, <1>6, <2>1, Zenon DEF Reading, Alive
  <2>5. CASE q = p /\ s = t
    <3>1. FromSender(q, s)'
      BY <1>0, <1>2, <1>6, <2>0, <2>1, <2>5, Zenon DEF FromSender
    <3>2. InMap(q, s)'
      BY <1>0, <1>2, <1>3, <1>4, <1>5, <1>6, <2>0, <2>3, <2>5, MuxNone, Zenon DEF InMap
    <3>3. Alive(p, t) => Len(got[p][t]) = sent[Other(p)][t]
      <4> SUFFICES ASSUME Alive(p, t), Len(got[p][t]) # sent[Other(p)][t] PROVE FALSE
        OBVIOUS
      <4>1. Reading(p, t)
        BY <1>2, Zenon DEF Reading
      <4>2. Len(got[p][t]) \in Nat /\ sent[Other(p)][t] \in Nat
        BY <1>0, OtherFacts, MuxBounds DEF TypeOK
      <4>3. Len(got[p][t]) + 1 \in (Len(got[p][t]) + 1) .. sent[Other(p)][t]
        BY <2>0, <2>5, <4>2 DEF Numbered
      <4>4. PICK i \in DOMAIN wire[p] : At(p, i, t, "data")
        BY <2>0, <2>5, <4>1, <4>3, Zenon DEF Numbered
      <4> QED
        BY <1>2, <4>4, Zenon DEF At
    <3>4. Numbered(q, s)'
      BY <1>0, <1>2, <2>4, <2>5, <3>3, TakeNumbered, Zenon DEF Alive
    <3> QED
      BY <2>2, <3>1, <3>2, <3>4, Zenon
  <2>6. CASE q # p \/ s # t
    <3>1. FromSender(q, s)'
      BY <1>0, <1>6, <2>0, <2>1, <2>6, Zenon DEF FromSender
    <3>2. InMap(q, s)'
      <4>1. AddrOf[s] \in Addr /\ (socket_map[q][AddrOf[s]] = s => socket_map'[q][AddrOf[s]] = s)
        BY <1>4, <1>5, <2>6, Zenon
      <4> QED
        BY <1>0, <1>4, <1>6, <2>0, <2>1, <2>3, <2>6, <4>1, Zenon DEF InMap
    <3>3. (s \in ended[q] /\ Alive(q, s))' => Len(got[q][s]) = sent[Other(q)][s]
      BY <1>0, <1>6, <2>0, <2>6, Zenon DEF Numbered, Alive
    <3>4. Numbered(q, s)'
      BY <1>0, <1>2, <2>4, <3>3, TakeNumbered, Zenon
    <3> QED
      BY <2>2, <3>1, <3>2, <3>4, Zenon
  <2> QED
    BY <2>5, <2>6, Zenon
<1>10. ASSUME NEW q \in Endpoint, NEW r \in Session, NEW s \in Session
       PROVE  Separate(q, r, s)'
  <2>1. r # s /\ AddrOf[r] = AddrOf[s] /\ socket_map'[q][AddrOf[s]] = r =>
           /\ socket_map[q][AddrOf[s]] = r
           /\ q = p => ~(Front(p).s = r /\ Front(p).kind = "close")
    BY <1>1, <1>4, <1>5, MuxNone, Zenon
  <2> QED
    BY <1>0, <2>1, TakeSeparate, Zenon
<1> QED
  BY <1>7, <1>8, <1>9, <1>10, InvFrom, Zenon

\* An opening frame makes an entry at an endpoint that listens.
LEMMA NewEntryStep ==
    ASSUME MuxInv, OneOpener, NEW p \in Endpoint, NEW t \in Session, t = Front(p).s,
           Arrived(p, TRUE), Known(p) = None, Front(p).kind = "open",
           socket_map' = [socket_map EXCEPT ![p][Place(p)] = t], Become(p, t, "queued"),
           UNCHANGED <<setting, listening, sent, got, ended>>
    PROVE  MuxInv'
<1> DEFINE o == Other(p)
<1>0. /\ TypeOK /\ wire[p] # << >> /\ TRUE \in BOOLEAN /\ o \in Endpoint /\ o # p
      /\ Other(o) = p
  BY OtherFacts, Zenon DEF MuxInv, Arrived
<1>1. /\ t \notin ended[p] /\ Opener[t] = o /\ conn[p][t] = "none"
      /\ conn[o][t] \notin Silent /\ 1 \in DOMAIN wire[p] /\ Front(p) = wire[p][1]
      /\ At(p, 1, t, "open") /\ Has(p, t, "open")
  <2>1. /\ t \notin ended[p] /\ Opener[t] = o /\ conn[p][t] = "none"
        /\ conn[o][t] \notin Silent /\ 1 \in DOMAIN wire[p] /\ Front(p) = wire[p][1]
    BY <1>0, FrontFacts, MuxNone, Zenon
  <2> QED
    BY <2>1, Zenon DEF At, On, Has
<1>2. ~Has(p, t, "open")'
  <2>1. /\ \A i \in DOMAIN wire[p] : i \in Nat /\ i >= 1
        /\ \A i \in DOMAIN wire'[p] :
              i + 1 \in DOMAIN wire[p] /\ i + 1 # 1 /\ wire'[p][i] = wire[p][i + 1]
    BY <1>0, TakeFacts, Zenon
  <2>2. ASSUME NEW i \in DOMAIN wire[p], i # 1 PROVE ~At(p, i, t, "open")
    <3>1. 1 < i /\ InOrder(p, t)
      BY <2>1, <2>2, InvOf
    <3> QED
      BY <1>1, <3>1, Zenon DEF InOrder, At
  <2> QED
    BY <2>1, <2>2, Zenon DEF Has, At, On
<1>3. /\ AddrOf \in [Session -> Addr] /\ AddrOf' = AddrOf /\ Place(p) = AddrOf[t]
      /\ socket_map[p][AddrOf[t]] = None
  BY <1>0, AddrFacts, SameAddr, Zenon DEF TypeOK, Place, Known
<1>4. /\ socket_map' \in [Endpoint -> [Addr -> Session \cup {None}]]
      /\ socket_map'[p][AddrOf[t]] = t
      /\ \A q \in Endpoint : \A a \in Addr :
            q # p \/ a # AddrOf[t] => socket_map'[q][a] = socket_map[q][a]
  BY <1>0, <1>3, Zenon DEF TypeOK
<1>5. /\ conn' \in [Endpoint -> [Session -> ConnStates]] /\ conn'[p][t] = "queued"
      /\ \A q \in Endpoint : \A s \in Session : q # p \/ s # t => conn'[q][s] = conn[q][s]
  <2>1. "queued" \in ConnStates
    BY Zenon DEF ConnStates
  <2> QED
    BY <1>0, <2>1, BecomeFacts, Zenon
<1>6. TypeOK'
  <2>1. wire' \in [Endpoint -> Seq(Frames)]
    BY <1>0, TakeFacts, Zenon
  <2> QED
    BY <1>0, <1>4, <1>5, <2>1, TypeStep, Zenon DEF TypeOK
<1>7. ASSUME NEW s \in Session PROVE Roles(s)'
  <2>1. Roles(s) /\ Opener[s] \in Endpoint /\ Other(Opener[s]) \in Endpoint
    BY SessionAssumption, OtherFacts, Zenon DEF MuxInv
  <2>2. conn'[Opener[s]][s] = conn[Opener[s]][s]
    BY <1>0, <1>1, <1>5, <2>1
  <2>3. conn'[Other(Opener[s])][s] \notin {"inserted", "cancelled"}
        /\ (conn'[Other(Opener[s])][s] # "none" =>
               conn'[Opener[s]][s] \notin {"none", "inserted", "cancelled"})
    <3>1. CASE s = t
      BY <1>0, <1>1, <1>5, <2>2, <3>1, Zenon DEF Silent
    <3>2. CASE s # t
      BY <1>5, <2>1, <2>2, <3>2, Zenon DEF Roles
    <3> QED
      BY <3>1, <3>2, Zenon
  <2>4. ASSUME NEW r \in Session \ {s}, AddrOf[r] = AddrOf[s]
        PROVE  conn'[Opener[s]][r] = conn[Opener[s]][r]
    <3>1. Opener[r] = Opener[s]
      BY <1>0, <2>4, SameOpener, Zenon DEF TypeOK
    <3> QED
      BY <1>0, <1>1, <1>5, <2>1, <3>1, Zenon
  <2> QED
    BY <1>3, <2>1, <2>2, <2>3, <2>4, Zenon DEF Roles
<1>8. ASSUME NEW q \in Endpoint, NEW s \in Session
      PROVE  FromSender(q, s)' /\ InMap(q, s)' /\ InOrder(q, s)' /\ Numbered(q, s)'
  <2>0. FromSender(q, s) /\ InMap(q, s) /\ Numbered(q, s) /\ Other(q) \in Endpoint
        /\ (q # p => q = o /\ Other(q) = p) /\ Other(q) # q
    BY <1>0, InvOf, OtherFacts, Zenon DEF Endpoint
  <2>1. /\ Coming(q, s)' => Coming(q, s)
        /\ \A k : Has(q, s, k)' => Has(q, s, k)
        /\ \A k : q # p \/ s # t \/ k # "open" => (Has(q, s, k)' <=> Has(q, s, k))
    BY <1>0, TakeHas, Zenon
  <2>2. InOrder(q, s)'
    BY <1>0, TakeInOrder, Zenon
  <2>3. ASSUME q # p \/ s # t, NEW a \in Addr
        PROVE  socket_map'[q][a] = s <=> socket_map[q][a] = s
    BY <1>3, <1>4, <2>3, MuxNone
  <2>4. (s \in ended[q] /\ Alive(q, s))' => Len(got[q][s]) = sent[Other(q)][s]
    BY <1>1, <1>5, <2>0, Zenon DEF Numbered, Alive
  <2>5. Reading(q, s)' => Reading(q, s)
    BY <1>1, <1>5, <2>1, Zenon DEF Reading, Alive
  <2>6. Numbered(q, s)'
    BY <1>0, <2>4, <2>5, TakeNumbered, Zenon
  <2>7. CASE q = p /\ s = t
    <3>1. conn'[o][t] = conn[o][t]
      BY <1>0, <1>5, Zenon
    <3>2. FromSender(q, s)'
      BY <1>1, <1>2, <1>5, <2>0, <2>1, <2>7, <3>1, Zenon DEF FromSender
    <3>3. InMap(q, s)'
      <4>1. \A a \in Addr : socket_map'[p][a] = t => a = AddrOf[t]
        BY <1>1, <1>4, <2>0, <2>7, Zenon DEF InMap
      <4> QED
        BY <1>1, <1>3, <1>4, <1>5, <2>7, <4>1, Zenon DEF InMap
    <3> QED
      BY <2>2, <2>6, <3>2, <3>3, Zenon
  <2>8. CASE q # p /\ s = t
    <3>1. conn'[q][t] = conn[q][t] /\ conn[Other(q)][t] = "none" /\ conn'[Other(q)][t] = "queued"
      BY <1>1, <1>5, <2>0, <2>8, Zenon
    <3>2. FromSender(q, s)'
      BY <2>0, <2>1, <2>8, <3>1, Zenon DEF FromSender, Silent, Finished
    <3>3. InMap(q, s)'
      BY <1>3, <2>0, <2>1, <2>3, <2>8, <3>1, Zenon DEF InMap, Finished
    <3> QED
      BY <2>2, <2>6, <3>2, <3>3, Zenon
  <2>9. CASE s # t
    <3>1. conn'[q][s] = conn[q][s] /\ conn'[Other(q)][s] = conn[Other(q)][s]
      BY <1>5, <2>0, <2>9, Zenon
    <3>2. FromSender(q, s)'
      BY <2>0, <2>1, <2>9, <3>1, Zenon DEF FromSender
    <3>3. InMap(q, s)'
      BY <1>3, <2>0, <2>1, <2>3, <2>9, <3>1, Zenon DEF InMap
    <3> QED
      BY <2>2, <2>6, <3>2, <3>3, Zenon
  <2> QED
    BY <2>7, <2>8, <2>9, Zenon
<1>9. ASSUME NEW q \in Endpoint, NEW r \in Session, NEW s \in Session
      PROVE  Separate(q, r, s)'
  <2>1. r # s /\ AddrOf[r] = AddrOf[s] /\ socket_map'[q][AddrOf[s]] = r =>
           \/ socket_map[q][AddrOf[s]] = r /\ ~(Front(p).s = r /\ Front(p).kind = "close")
           \/ q = p /\ Front(p).s = r /\ Front(p).kind = "open"
    BY <1>3, <1>4, Zenon
  <2> QED
    BY <1>0, <2>1, TakeSeparate, Zenon
<1> QED
  BY <1>6, <1>7, <1>8, <1>9, InvFrom, Zenon

\* An empty frame for an unknown address is an opening frame, or is ignored.
LEMMA ReceiveOpenStep ==
    ASSUME MuxInv, OneOpener, NEW p \in Endpoint, ReceiveOpen(p)
    PROVE  MuxInv'
<1>0. /\ Arrived(p, TRUE) /\ wire[p] # << >> /\ Front(p).kind # "data"
      /\ TRUE \in BOOLEAN /\ Known(p) = None
      /\ UNCHANGED <<setting, listening, sent, got, ended>>
  BY Zenon DEF ReceiveOpen, Arrived
<1>1. CASE listening[p]
  <2>1. PICK t \in Session : t = Front(p).s
    BY <1>0, FrontFacts, Zenon
  <2>2. Front(p).kind = "open"
    BY <1>0, <1>1, FrontFacts, Zenon
  <2>3. Newcomer(p) = t
    BY <2>1, <2>2, Zenon DEF Newcomer
  <2>4. socket_map' = [socket_map EXCEPT ![p][Place(p)] = t] /\ Become(p, t, "queued")
    BY <1>1, <2>3, Zenon DEF ReceiveOpen
  <2> QED
    BY <1>0, <2>1, <2>2, <2>4, NewEntryStep, Zenon
<1>2. CASE ~listening[p]
  <2>1. UNCHANGED <<socket_map, conn>>
    BY <1>2, Zenon DEF ReceiveOpen
  <2> QED
    BY <1>0, <1>2, <2>1, IgnoreStep, Zenon
<1> QED
  BY <1>1, <1>2, Zenon

-----------------------------------------------------------------------------
(***************************************************************************)
(* The theorems.                                                           *)
(***************************************************************************)

\* Nothing is open, sent or received at first.
LEMMA InitMuxInv ==
    ASSUME Init
    PROVE  MuxInv
<1>0. AddrOf \in [Session -> Addr] /\ MaxSent \in Nat
  BY AddrFacts, MuxBounds, Zenon DEF Init
<1>1. TypeOK
  <2>1. << >> \in Seq(Frames) /\ << >> \in Seq(0 .. MaxSent) /\ Len(<< >>) = 0
    OBVIOUS
  <2> QED
    BY <1>0, <2>1 DEF Init, TypeOK, ConnStates
<1>2. ASSUME NEW p \in Endpoint, NEW s \in Session
      PROVE  /\ Other(p) \in Endpoint /\ Opener[s] \in Endpoint /\ wire[p] = << >>
             /\ \A q \in Endpoint : conn[q][s] = "none" /\ sent[q][s] = 0
             /\ \A a \in Addr : socket_map[p][a] # s
             /\ got[p][s] = << >> /\ ended[p] = {} /\ DOMAIN wire[p] = {}
  BY OtherFacts, SessionAssumption, MuxNone DEF Init
<1>3. ASSUME NEW p \in Endpoint, NEW s \in Session
      PROVE  ~Coming(p, s) /\ \A k : ~Has(p, s, k)
  BY <1>2, Zenon DEF Coming, Has
<1>4. ASSUME NEW s \in Session PROVE Roles(s)
  <2>1. Opener[s] \in Endpoint /\ Other(Opener[s]) \in Endpoint
    BY SessionAssumption, OtherFacts, Zenon
  <2> QED
    BY <1>2, <2>1, Zenon DEF Roles
<1>5. ASSUME NEW p \in Endpoint, NEW s \in Session
      PROVE  FromSender(p, s) /\ InMap(p, s) /\ InOrder(p, s) /\ Numbered(p, s)
  <2>1. FromSender(p, s)
    BY <1>2, <1>3, Zenon DEF FromSender, Silent, Finished
  <2>2. InMap(p, s)
    BY <1>0, <1>2 DEF InMap
  <2>3. InOrder(p, s)
    BY <1>2, Zenon DEF InOrder
  <2>4. Numbered(p, s)
    <3>1. Len(<< >>) = 0 /\ << >> = [i \in 1 .. 0 |-> i] /\ \A x \in (0 + 1) .. 0 : FALSE
      OBVIOUS
    <3> QED
      BY <1>2, <3>1 DEF Numbered
  <2> QED
    BY <2>1, <2>2, <2>3, <2>4, Zenon
<1>6. ASSUME NEW p \in Endpoint, NEW r \in Session, NEW s \in Session PROVE Separate(p, r, s)
  BY <1>2, Zenon DEF Separate
<1> QED
  BY <1>1, <1>4, <1>5, <1>6, Zenon DEF MuxInv

\* Every step keeps the invariant.
LEMMA NextMuxInv ==
    ASSUME MuxInv, OneOpener, Patient, [Next]_vars
    PROVE  MuxInv'
<1>1. CASE \E s \in Session : Insert(s)
  BY <1>1, InsertStep, Zenon
<1>2. CASE \E s \in Session : Handshake(s)
  <2>1. PICK s \in Session : Handshake(s)
    BY <1>2, Zenon
  <2>2. Opener[s] \in Endpoint
    BY SessionAssumption, Zenon
  <2> QED
    BY <2>1, <2>2, SendersStep, Zenon
<1>3. CASE \E p \in Endpoint, s \in Session : Accept(p, s) \/ Shutdown(p, s) \/ Drop(p, s)
  BY <1>3, QuietStep, Zenon
<1>4. CASE \E p \in Endpoint, s \in Session : Write(p, s) \/ ShutdownDone(p, s) \/ DropTask(p, s)
  BY <1>4, SendersStep, Zenon
<1>5. CASE \E p \in Endpoint : Unlisten(p)
  BY <1>5, UnlistenStep, Zenon
<1>6. CASE \E p \in Endpoint : ReceiveData(p)
  BY <1>6, ReceiveDataStep, Zenon
<1>7. CASE \E p \in Endpoint : ReceiveClose(p)
  BY <1>7, ReceiveCloseStep, Zenon
<1>8. CASE \E p \in Endpoint : ReceiveOpen(p)
  BY <1>8, ReceiveOpenStep, Zenon
<1>9. CASE UNCHANGED vars
  <2>1. TypeOK'
    BY <1>9, Zenon DEF MuxInv, TypeOK, vars
  <2>2. /\ UNCHANGED <<setting, wire, socket_map, conn, listening, sent, got, ended>>
    BY <1>9, Zenon DEF vars
  <2> QED
    BY <2>1, <2>2, MoveStep, Zenon
<1>10. CASE \E s \in Session : Cancel(s)
  <2>1. PICK s \in Session : Cancel(s)
    BY <1>10, Zenon
  <2>2. Opener[s] \in Endpoint
    BY SessionAssumption, Zenon
  <2> QED
    BY <2>1, <2>2, QuietStep, Zenon
<1> QED
  BY <1>1, <1>2, <1>3, <1>4, <1>5, <1>6, <1>7, <1>8, <1>9, <1>10, Zenon DEF Next, Receive

\* For applications that open an address from one end only, and again only after a
\* shutdown that returned or the closing frame of the drop task (add_connection,
\* src/lib.rs): what is on the wire, in the map and in the entries fits together, also
\* when add_connection is cancelled and connections are dropped (Drop, src/write.rs).
THEOREM MuxInductive ==
    ASSUME OneOpener, Patient
    PROVE  Spec => []MuxInv
<1>1. Init => MuxInv
  BY InitMuxInv, Zenon
<1>2. MuxInv /\ [Next]_vars => MuxInv'
  BY NextMuxInv, Zenon
<1> QED
  BY <1>1, <1>2, PTL DEF Spec

\* The state keeps its types; no entry is given more than what was sent.
THEOREM MuxTypeCorrect ==
    ASSUME OneOpener, Patient
    PROVE  Spec => []TypeOK
<1>1. MuxInv => TypeOK
  BY Zenon DEF MuxInv
<1> QED
  BY <1>1, MuxInductive, PTL

\* poll_next_packet (src/read.rs) takes the first empty frame of a session's opener for
\* an opening and every other for a close of that very session, though the frame does not
\* say which it is.  The first one may be the frame of a drop task, after a cancelled
\* add_connection; under Patient its address is not opened again.
THEOREM EmptyFramesAgree ==
    ASSUME OneOpener, Patient
    PROVE  Spec => []ToggleAgrees
<1>1. MuxInv => ToggleAgrees
  <2> SUFFICES ASSUME MuxInv, NEW p \in Endpoint, wire[p] # << >>
               PROVE  /\ Front(p).kind = "open" => Known(p) = None
                      /\ Front(p).kind = "close" =>
                           Known(p) = Front(p).s \/ (~listening[p] /\ Known(p) = None)
    BY Zenon DEF ToggleAgrees
  <2> QED
    BY FrontFacts, Zenon
<1> QED
  BY <1>1, MuxInductive, PTL

\* A connection reads its own peer's data, in order and from the first frame on, though
\* other connections have had its address before and will have it after; at the end of
\* the stream it has all of it.
THEOREM SessionsStayApart ==
    ASSUME OneOpener, Patient
    PROVE  Spec => []SessionsApart
<1>1. MuxInv => SessionsApart
  <2> SUFFICES ASSUME MuxInv, NEW p \in Endpoint, NEW s \in Session
               PROVE  /\ got[p][s] = [i \in 1 .. Len(got[p][s]) |-> i]
                      /\ s \in ended[p] /\ Alive(p, s) => Len(got[p][s]) = sent[Other(p)][s]
    BY Zenon DEF SessionsApart
  <2>1. Numbered(p, s)
    BY InvOf, Zenon
  <2> QED
    BY <2>1, Zenon DEF Numbered
<1> QED
  BY <1>1, MuxInductive, PTL

\* When all frames are received, socket_map has no connection whose other end has sent its
\* closing frame (poll_shutdown that returned, or the task of Drop).  One whose other end
\* was dropped in a pending shutdown, or whose add_connection was cancelled, is not meant:
\* no closing frame comes, and poll_next_packet never removes it.
THEOREM ClosedLeaveTheMap ==
    ASSUME OneOpener, Patient
    PROVE  Spec => []MapSettled
<1>1. MuxInv => MapSettled
  <2> SUFFICES ASSUME MuxInv, \A p \in Endpoint : wire[p] = << >>,
                      NEW p \in Endpoint, NEW s \in Session,
                      conn[Other(p)][s] \in {"shut", "gone"}
               PROVE  socket_map[p][AddrOf[s]] # s
    BY Zenon DEF MapSettled
  <2>1. FromSender(p, s) /\ InMap(p, s)
    BY InvOf, Zenon
  <2>2. ~Has(p, s, "close")
    BY DEF Has
  <2>3. s \in ended[p] \/ conn[p][s] = "none"
    BY <2>1, <2>2, Zenon DEF FromSender, Finished
  <2> QED
    BY <2>1, <2>3, Zenon DEF InMap
<1> QED
  BY <1>1, MuxInductive, PTL

=============================================================================
