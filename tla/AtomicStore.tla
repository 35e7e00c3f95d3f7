----------------------------- MODULE AtomicStore -----------------------------
(***************************************************************************)
(* What a reader that opens a store its writer may stop writing at any      *)
(* moment promises: the store goes through states 1, 2, ..., some of them   *)
(* known to be safe; each opening shows one of them, whole, none older than *)
(* the last that was safe then, and none older than one shown before.       *)
(***************************************************************************)
EXTENDS Naturals

VARIABLES
    issued,     \* the last state the writer began to make
    safe,       \* the last it knows to be on its medium
    shown       \* the last a reader was shown

vars == <<issued, safe, shown>>

Init == issued = 1 /\ safe = 1 /\ shown = 1

Begin == issued' = issued + 1 /\ UNCHANGED <<safe, shown>>

Sync == safe' \in (safe + 1)..issued /\ UNCHANGED <<issued, shown>>

Show ==
    /\ shown' \in shown..issued
    /\ shown' >= safe
    /\ UNCHANGED <<issued, safe>>

Next == Begin \/ Sync \/ Show

Spec == Init /\ [][Next]_vars
=============================================================================
