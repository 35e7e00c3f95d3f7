------------------------------ MODULE ZipPromise ------------------------------
(***************************************************************************)
(* What extract_to_zip() promises of the zip, whatever walker reads the     *)
(* files and however the image is damaged: the entries are all listed       *)
(* before the first file is read, and are dealt with in order; each has one *)
(* outcome and keeps it; a file that was stored has one member, and one     *)
(* that was passed over has none, nor has one counted failed, whether its   *)
(* read raised or its copy into the zip did: "failed (files that could not  *)
(* be read, which are not in the zip)" (README 247-249).                    *)
(***************************************************************************)
EXTENDS Naturals, Sequences

VARIABLES
    todo,       \* how many entries are listed
    outcome,    \* the outcomes of the entries dealt with so far
    members     \* for each member of the zip, the entry it came from

promise == <<todo, outcome, members>>

Init ==
    /\ todo = 0
    /\ outcome = << >>
    /\ members = << >>

Settle(o) == outcome' = Append(outcome, o)
AddMember == members' = Append(members, Len(outcome) + 1)

Keep(o) == Settle(o) /\ AddMember
Drop(o) == Settle(o) /\ UNCHANGED members

(* The list is whole before the first of it is dealt with.                  *)
List ==
    /\ outcome = << >>
    /\ todo' = todo + 1
    /\ UNCHANGED <<outcome, members>>

Deal ==
    /\ Len(outcome) < todo
    /\ \/ \E o \in {"whole", "short"} : Keep(o)
       \/ \E o \in {"skipped", "unread", "unstored"} : Drop(o)
    /\ UNCHANGED todo

Next == List \/ Deal

Spec == Init /\ [][Next]_promise
===============================================================================
