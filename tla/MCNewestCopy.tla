---------------------------- MODULE MCNewestCopy ----------------------------
(***************************************************************************)
(* Five states after the first, and three power failures.                   *)
(***************************************************************************)
EXTENDS NewestCopy
=============================================================================
