------------------------------- MODULE MCYaffs -------------------------------
(***************************************************************************)
(* Four blocks of two pages, a file of two pages, two files one after the   *)
(* other.  A block's place matters only in the order of its pages.          *)
(***************************************************************************)
EXTENDS Yaffs
==============================================================================
