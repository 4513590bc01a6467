------------------------------ MODULE PollMutex ------------------------------
(***************************************************************************)
(* The mutex around the TCP write half, as the code uses it: a tokio Mutex *)
(* (a library) reached through PollMutex (src/poll_mutex.rs).              *)
(*                                                                         *)
(* tokio's mutex is fair: waiters queue, and releasing it hands it to the  *)
(* first waiter at once, whether or not that waiter is ever polled again.  *)
(* Hence `owner` is the connection the permit belongs to, which either     *)
(* has the guard or has it waiting inside PollMutex.fut.  A lock future is *)
(* not a variable of its own: c has one iff it is queued, or is the owner  *)
(* and has not yet collected the guard.                                    *)
(***************************************************************************)
EXTENDS Naturals, Sequences, MuxConstants

VARIABLES owner, queue

lockVars == <<owner, queue>>

LockType == /\ owner \in Conn \cup {None}
            /\ queue \in Seq(Conn)

LockInit == owner = None /\ queue = << >>

Queued(c) == \E i \in DOMAIN queue : queue[i] = c

QueueWithout(c) ==
    LET i == CHOOSE j \in DOMAIN queue : queue[j] = c
    IN  SubSeq(queue, 1, i - 1) \o SubSeq(queue, i + 1, Len(queue))

-----------------------------------------------------------------------------

\* poll_lock returns Ready: try_lock_owned succeeds, or the stored future has
\* been handed the mutex.
LockReady(c) == /\ owner = c \/ (owner = None /\ ~Queued(c))
                /\ owner' = c
                /\ UNCHANGED queue

\* poll_lock returns Pending; the first time, the future joins the queue.
LockPending(c) == /\ owner # c /\ (owner # None \/ Queued(c))
                  /\ queue' = IF Queued(c) THEN queue ELSE Append(queue, c)
                  /\ UNCHANGED owner

\* The guard is dropped.
Unlock == \/ /\ queue = << >>
             /\ owner' = None
             /\ UNCHANGED queue
          \/ /\ queue # << >>
             /\ owner' = Head(queue)
             /\ queue' = Tail(queue)

\* Whatever c has of the mutex is dropped: its guard, a granted or a queued
\* lock future, or nothing.
LockDrop(c) ==
    \/ owner = c /\ Unlock
    \/ /\ owner # c
       /\ queue' = IF Queued(c) THEN QueueWithout(c) ELSE queue
       /\ UNCHANGED owner

-----------------------------------------------------------------------------

\* A connection waits at most once, and not for what it already has.
QueuedOnce ==
    /\ \A i, j \in DOMAIN queue : queue[i] = queue[j] => i = j
    /\ \A i \in DOMAIN queue : queue[i] # owner
=============================================================================
