------------------------------- MODULE MCMux -------------------------------
(***************************************************************************)
(* Mux for TLC.                                                            *)
(***************************************************************************)
EXTENDS Mux, TLC

\* An IPv4 address, the IPv6 address it is mapped to, and the one with its number.
Ipv4 == [v |-> 4, host |-> 1, port |-> 2, scope |-> 0]
Mapped == [v |-> 6, host |-> Number(Ipv4), port |-> 2, scope |-> 1]
Compatible == [v |-> 6, host |-> 1, port |-> 2, scope |-> 0]

\* Two names of one address, with data, and two addresses, without.
Names(other, n) == [book |-> [s \in Session |-> IF s = 1 THEN Ipv4 ELSE other], quota |-> n]
Addresses == {Names(Mapped, MaxSent), Names(Compatible, 0)}
Openers == [s \in Session |-> "client"]

\* An application that waits for the shutdown of a connection, and for the closing
\* frame of a dropped one, before it opens the address again.
Settled == {"none", "shut", "gone"}

\* The discipline that the theorems of MuxProofs assume is the one of this run.
ASSUME Discipline == OneOpener /\ Patient
=============================================================================
