---------------------------- MODULE MCWriteInner ----------------------------
(***************************************************************************)
(* WriteInner for TLC.                                                     *)
(***************************************************************************)
EXTENDS WriteInner, TLC
=============================================================================
