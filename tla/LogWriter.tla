----------------------------- MODULE LogWriter ------------------------------
(***************************************************************************)
(* Linux as it writes two logs that qnxprobe.py looks at and does not       *)
(* replay: XFS's own, and the write journal of an md RAID5 array.  None of  *)
(* it is code of this repository; it is what the readers take the kernel to *)
(* do (fs/xfs/xfs_log.c, drivers/md/raid5-cache.c).                         *)
(*                                                                          *)
(* Both are rings of blocks.  A record is a head and the blocks after it,   *)
(* several records may be on their way at once, and their blocks reach the  *)
(* ring in any order.  A record is committed when it and those before it    *)
(* have.  What it says must then be done in place, before the record may be *)
(* written over.  Block stamps tell new from old: in XFS the number of the  *)
(* pass over the ring, in md the number of the record.                      *)
(***************************************************************************)
EXTENDS Naturals, Sequences, SequencesExt

CONSTANTS
    Formats,        \* of "XFS", "through" and "back", md's two ways to use its journal
    Stripes,        \* of the array
    XfsRing,        \* blocks of XFS's ring
    MdRing,         \* and of md's
    Spare,          \* those that XFS leaves free before the tail
    MaxRecords,     \* bound: records made
    MaxFlying,      \* records on their way at once
    MaxCrashes      \* bound: power failures

ASSUME LogAssumption ==
    /\ Formats \subseteq {"XFS", "through", "back"}
    /\ {XfsRing, MdRing} \subseteq Nat \ 0..4
    /\ {Spare, MaxRecords, MaxFlying, MaxCrashes} \subseteq Nat

VARIABLES
    fmt,
    ring,       \* what each block of it holds
    at, stamp,  \* where the next record goes, and its stamp
    flying,     \* the records on their way, in order
    owed,       \* the committed ones that are not done in place
    last,       \* where the last committed began
    tail,       \* md: where its superblock says to begin
    stopped,    \* unmounted, or marked clean
    phase,      \* md: how far the write of each stripe is
    made, crashes

writer == <<fmt, ring, at, stamp, flying, owed, last, tail, stopped, phase, made, crashes>>

N == IF fmt = "XFS" THEN XfsRing ELSE MdRing
Blocks == 0..(N - 1)
Block(s, isHead, body) == [stamp |-> s, head |-> isHead, body |-> body]
Nothing == Block(0, FALSE, <<>>)

(* An XFS record's head: the blocks after it, the tail, and whether all it  *)
(* holds is that the volume was unmounted.  The block after that says so.   *)
XfsBody(n, from, unmount) == [len |-> n, tail |-> from, unmount |-> unmount]

(* mkfs leaves an unmount record, and md a head that holds nothing.         *)
WriterInit ==
    /\ fmt \in Formats
    /\ ring = [p \in Blocks |->
                 IF fmt = "XFS" THEN IF p < 2 THEN Block(1, p = 0, XfsBody(1, 0, TRUE))
                                     ELSE Block(0, FALSE, XfsBody(0, 0, FALSE))
                 ELSE IF p = 0 THEN Block(1, TRUE, <<>>) ELSE Nothing]
    /\ IF fmt = "XFS" THEN at = 2 /\ stamp = 1 /\ last = 2 ELSE at = 1 /\ stamp = 2 /\ last = 0
    /\ tail = 0 /\ flying = <<>> /\ owed = <<>> /\ stopped = TRUE
    /\ phase = [s \in Stripes |-> "idle"]
    /\ made = 0 /\ crashes = 0

-----------------------------------------------------------------------------
Oldest == IF owed # <<>> THEN owed[1].from ELSE last
InUse == (at + N - (IF fmt = "XFS" THEN Oldest ELSE tail)) % N
StampOf(k) == IF fmt = "XFS" /\ at + k >= N THEN stamp + 1 ELSE stamp

(* A record for `of' of n blocks after its head; bodies gives each its      *)
(* contents.  The ring is never filled to its last block.                   *)
Make(of, n, spare, owes, bodies) ==
    LET place(k) == (at + k) % N
        blocks == [p \in {place(k) : k \in 0..n} |->
                      LET k == (p + N - at) % N IN Block(StampOf(k), k = 0, bodies[k + 1])]
    IN /\ made < MaxRecords /\ Len(flying) < MaxFlying
       /\ InUse + 1 + n + spare < N
       /\ flying' = Append(flying, [from |-> at, of |-> of, owes |-> owes, stamp |-> stamp,
                                    blocks |-> blocks, left |-> DOMAIN blocks])
       /\ at' = place(n + 1)
       /\ stamp' = IF fmt = "XFS" THEN StampOf(n + 1) ELSE stamp + 1
       /\ made' = made + 1
       /\ UNCHANGED <<fmt, ring, owed, last, tail, crashes>>

Land(i, p) ==
    /\ ring' = [ring EXCEPT ![p] = flying[i].blocks[p]]
    /\ flying' = [flying EXCEPT ![i].left = @ \ {p}]
    /\ UNCHANGED <<fmt, at, stamp, owed, last, tail, stopped, phase, made, crashes>>

(* A sector of XFS is written whole or not at all; a page of md need not be.*)
Tear(i, p) ==
    /\ fmt # "XFS"
    /\ ring[p] # Nothing
    /\ ring' = [ring EXCEPT ![p] = Nothing]
    /\ UNCHANGED <<fmt, at, stamp, flying, owed, last, tail, stopped, phase, made, crashes>>

Commit ==
    /\ flying # <<>> /\ flying[1].left = {}
    /\ flying' = Tail(flying)
    /\ owed' = IF flying[1].owes THEN Append(owed, [from |-> flying[1].from, of |-> flying[1].of]) ELSE owed
    /\ last' = flying[1].from
    /\ stopped' = (flying[1].of = "unmount")
    /\ UNCHANGED <<fmt, ring, at, stamp, tail, phase, made, crashes>>

-----------------------------------------------------------------------------
(* XFS.                                                                     *)
Unmounting == \E i \in DOMAIN flying : flying[i].of = "unmount"

Mount ==
    /\ fmt = "XFS" /\ stopped
    /\ stopped' = FALSE /\ last' = at
    /\ UNCHANGED <<fmt, ring, at, stamp, flying, owed, tail, phase, made, crashes>>

Change(n) ==
    /\ fmt = "XFS" /\ ~stopped /\ ~Unmounting
    /\ Make("change", n, 2 + Spare, TRUE,
            <<XfsBody(n, Oldest, FALSE)>> \o [k \in 1..n |-> XfsBody(0, 0, FALSE)])
    /\ UNCHANGED <<stopped, phase>>

WriteBack(i) ==
    /\ fmt = "XFS"
    /\ owed' = RemoveAt(owed, i)
    /\ UNCHANGED <<fmt, ring, at, stamp, flying, last, tail, stopped, phase, made, crashes>>

Unmount ==
    /\ fmt = "XFS" /\ ~stopped /\ owed = <<>> /\ flying = <<>>
    /\ Make("unmount", 1, 0, FALSE, <<XfsBody(1, Oldest, TRUE), XfsBody(0, 0, TRUE)>>)
    /\ UNCHANGED <<stopped, phase>>

-----------------------------------------------------------------------------
(* md: a stripe's data, its parity, and that it is on the members.          *)
OnItsWay(s) == \E i \in DOMAIN flying : flying[i].of = s

Log(s, from, pays, to) ==
    /\ phase[s] \in from
    /\ LET pages == Len(SelectSeq(pays, LAMBDA kind : kind # "flush"))
       IN Make(s, pages, 0, pays # <<"flush">>, <<[pays |-> pays, of |-> s]>> \o [k \in 1..pages |-> k])
    /\ phase' = [phase EXCEPT ![s] = to]
    /\ stopped' = FALSE

WriteStripe(s) ==
    \/ fmt = "through" /\ Log(s, {"idle"}, <<"data", "parity">>, "logged")
    \/ fmt = "back" /\ Log(s, {"idle", "cached"}, <<"data">>, "cached")
    \/ fmt = "back" /\ ~OnItsWay(s) /\ Log(s, {"cached"}, <<"parity">>, "logged")
    \/ fmt = "back" /\ Log(s, {"written"}, <<"flush">>, "idle")

Members(s) ==
    /\ phase[s] = "logged" /\ ~OnItsWay(s)
    /\ phase' = [phase EXCEPT ![s] = IF fmt = "back" THEN "written" ELSE "idle"]
    /\ owed' = SelectSeq(owed, LAMBDA r : r.of # s)
    /\ UNCHANGED <<fmt, ring, at, stamp, flying, last, tail, stopped, made, crashes>>

(* The tail follows what is owed, at leisure.  A record is always there.    *)
Reclaim ==
    /\ fmt # "XFS" /\ tail # Oldest
    /\ tail' = Oldest
    /\ UNCHANGED <<fmt, ring, at, stamp, flying, owed, last, stopped, phase, made, crashes>>

MarkClean ==
    /\ fmt # "XFS" /\ ~stopped /\ flying = <<>>
    /\ \A s \in Stripes : phase[s] = "idle"
    /\ stopped' = TRUE
    /\ UNCHANGED <<fmt, ring, at, stamp, flying, owed, last, tail, phase, made, crashes>>

-----------------------------------------------------------------------------
(* Power fails and comes back: the records up to the first that is not      *)
(* there are done in place.  XFS then gives what follows the stamp of the   *)
(* pass before, and md writes a head whose number none on its way had.      *)
Crash ==
    LET there(r) == IF fmt = "XFS" THEN r.left = {} ELSE r.from \notin r.left
        lost == {i \in DOMAIN flying : \E j \in 1..i : ~there(flying[j])}
        end == IF lost = {} THEN at ELSE flying[CHOOSE i \in lost : \A j \in lost : i <= j].from
        of(p) == CHOOSE i \in lost : p \in DOMAIN flying[i].blocks
        after == IF lost = {} THEN stamp ELSE flying[CHOOSE i \in lost : \A j \in lost : i <= j].stamp
    IN /\ ~stopped /\ crashes < MaxCrashes
       /\ crashes' = crashes + 1
       /\ owed' = <<>> /\ flying' = <<>>
       /\ phase' = [s \in Stripes |-> "idle"]
       /\ IF fmt = "XFS"
          THEN /\ ring' = [p \in Blocks |->
                             IF \E i \in lost : p \in DOMAIN flying[i].blocks
                             THEN Block(flying[of(p)].blocks[p].stamp - 1, TRUE, XfsBody(0, end, FALSE))
                             ELSE ring[p]]
               /\ at' = end /\ stamp' = after
               /\ tail' = tail
               /\ last' = IF 1 \in lost \/ flying = <<>> THEN last
                          ELSE flying[CHOOSE i \in DOMAIN flying \ lost : i + 1 \notin DOMAIN flying \ lost].from
          ELSE /\ ring' = [ring EXCEPT ![end] = Block(after + MaxFlying, TRUE, <<>>)]
               /\ at' = (end + 1) % N /\ stamp' = after + MaxFlying + 1
               /\ last' = end /\ tail' = end
       /\ UNCHANGED <<fmt, stopped, made>>

WriterNext ==
    \/ \E i \in DOMAIN flying : \E p \in flying[i].left : Land(i, p) \/ Tear(i, p)
    \/ Commit \/ Crash
    \/ Mount \/ Unmount \/ \E n \in 1..2 : Change(n)
    \/ \E i \in DOMAIN owed : WriteBack(i)
    \/ \E s \in Stripes : WriteStripe(s) \/ Members(s)
    \/ Reclaim \/ MarkClean
=============================================================================
