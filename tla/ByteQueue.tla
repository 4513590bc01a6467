------------------------------ MODULE ByteQueue ------------------------------
(***************************************************************************)
(* A bounded first-in first-out queue of the bytes 1, 2, 3, ... : what a   *)
(* receive buffer promises.                                                *)
(***************************************************************************)
EXTENDS Naturals, Sequences

CONSTANT Capacity

VARIABLES q,       \* the bytes in the queue
          given,   \* how many bytes were put in
          taken    \* the bytes taken out

QInit == q = << >> /\ given = 0 /\ taken = << >>

Put(n) ==
    /\ Len(q) + n <= Capacity
    /\ q' = q \o [i \in 1 .. n |-> given + i]
    /\ given' = given + n
    /\ UNCHANGED taken

Take(n) ==
    /\ n <= Len(q)
    /\ taken' = taken \o SubSeq(q, 1, n)
    /\ q' = SubSeq(q, n + 1, Len(q))
    /\ UNCHANGED given

QNext == \E n \in 1 .. Capacity : Put(n) \/ Take(n)

QSpec == QInit /\ [][QNext]_<<q, given, taken>>
=============================================================================
