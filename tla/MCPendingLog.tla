---------------------------- MODULE MCPendingLog ----------------------------
(***************************************************************************)
(* Rings that a few records fill, so that they are written over, with two   *)
(* records on their way at once: of XFS, behind one that is owed, with the  *)
(* room it keeps before its tail.                                           *)
(***************************************************************************)
EXTENDS PendingLog
=============================================================================
