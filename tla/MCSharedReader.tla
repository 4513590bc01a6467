--------------------------- MODULE MCSharedReader ---------------------------
(***************************************************************************)
(* SharedReader for TLC.                                                   *)
(***************************************************************************)
EXTENDS SharedReader, TLC

\* Sessions with an address each, and sessions of one address.
Distinct == [e \in Entry |-> e]
Reused == [e \in Entry |-> 1]

\* Two connections of a client, whose polls are cancelled and repeated.
Demux == [addrOf |-> Distinct, local |-> Entry, listener |-> FALSE, quota |-> 3, backlog |-> 2,
          may |-> {"close", "cancel", "repoll"}]

\* Two connections that the peer opens, over a channel of one place, and a stream that fails.
Accepting == [addrOf |-> Distinct, local |-> {}, listener |-> TRUE, quota |-> 1, backlog |-> 0,
              may |-> {"cancel", "into_pipe", "ioerror"}]

\* Two sessions of one address, one after the other, with a unit of payload each.
Reusing == [addrOf |-> Reused, local |-> {}, listener |-> TRUE, quota |-> 1, backlog |-> 0,
            may |-> {"close", "drop", "cancel", "into_pipe"}]

\* Frames that arrive in parts, reads that end anywhere, and the end or failure of the stream.
Faults == [addrOf |-> Distinct, local |-> Entry, listener |-> FALSE, quota |-> 2, backlog |-> 0,
           may |-> {"close", "short", "late", "eof", "ioerror", "drop"}]

SafetySettings == {Demux, Accepting, Reusing, Faults}

\* Whole frames, and connections that stay open: what liveness needs.
LiveClient == [Demux EXCEPT !.quota = 2, !.backlog = 0, !.may = {"yield", "late"}]
LiveListener == [Accepting EXCEPT !.may = {"yield", "late"}]

LiveSettings == {LiveClient, LiveListener}
=============================================================================
