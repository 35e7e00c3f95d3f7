------------------------------- MODULE MCJffs2 -------------------------------
(***************************************************************************)
(* Two files of up to two ranges one after the other, and one name or two.  *)
(***************************************************************************)
EXTENDS Jffs2
==============================================================================
