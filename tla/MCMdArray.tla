------------------------------ MODULE MCMdArray ------------------------------
(***************************************************************************)
(* RAID0, RAID1 with spares, RAID5 with one, and the least RAID6.           *)
(***************************************************************************)
EXTENDS MdArray

MCArrays == {[level |-> 0, n |-> 2], [level |-> 1, n |-> 2], [level |-> 5, n |-> 3],
             [level |-> 6, n |-> 4]}

MCMaxEvents == [level \in {0, 1, 5, 6} |-> IF level = 6 THEN 3 ELSE 5]

(* Once the machine has stopped, two states that differ only in devices not *)
(* given, or in how many events ago they stopped, go on alike and are told  *)
(* apart by no property.                                                    *)
Behind(d) == Max({sb[e].events : e \in given}) - sb[d].events
Seen(d) == <<IF Behind(d) > 2 THEN 3 ELSE Behind(d), sb[d].clean,
             [e \in given |-> sb[d].roles[e]],
             d \in sb[d].recovering, d \in sb[d].bad, disk[d]>>
MCView ==
    IF given = {} THEN <<drive, program>>
    ELSE <<a, program, [d \in given |-> Seen(d)], [d \in Good |-> mem.roles[d]], Live = {},
           Settled, [c \in Chunks |-> Current(c)]>>
==============================================================================
