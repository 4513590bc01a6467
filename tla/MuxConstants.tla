---------------------------- MODULE MuxConstants ----------------------------
(***************************************************************************)
(* The logical connections that share one TCP stream.  A connection is     *)
(* named by its SocketAddr, which the socket map of SharedReader keeps     *)
(* distinct among the connections of one endpoint.                         *)
(***************************************************************************)

CONSTANTS Conn,    \* the logical connections
          None     \* no connection

ASSUME NoneAssumption == None \notin Conn
=============================================================================
