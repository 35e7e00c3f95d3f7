------------------------------- MODULE MCWindow -------------------------------
(***************************************************************************)
(* Two runs, the first of two lines of report and one of progress, over     *)
(* pipes that hold one line, so that the child blocks, the second of none,  *)
(* to meet what the first left; and one image to load, any number of times. *)
(***************************************************************************)
EXTENDS Window, TLC

MCMaxLines == <<"out" :> 2 @@ "err" :> 1, "out" :> 0 @@ "err" :> 0>>
===============================================================================
