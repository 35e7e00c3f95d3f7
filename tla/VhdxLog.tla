------------------------------- MODULE VhdxLog -------------------------------
(***************************************************************************)
(* How ewfprobe.py opens a VHDX file as a writer left it: the choice of the *)
(* current header, the search for the active sequence of the log, its       *)
(* replay in memory, and the check of the table that comes out of it        *)
(* (_index_vhdx, _vhdx_replay, _vhdx_read).  The reader keeps nothing on    *)
(* the medium, so it is a function of it, looked at in every state.         *)
(***************************************************************************)
EXTENDS VhdxDisk

(* The header with the greatest sequence number of those whose checksum     *)
(* matches; the first of two that have the same.                            *)
Matching == {h \in 1..2 : headers[h].ok}

Current ==
    CHOOSE h \in Matching :
        \A i \in Matching : headers[i].seq <= headers[h].seq /\ (headers[i].seq = headers[h].seq => h <= i)

-----------------------------------------------------------------------------
(* Mutant: an entry is taken without its checksum.                          *)
ValidEntryUnsummed(guid, at) ==
    /\ ring[at].kind = "loge"
    /\ ring[at].guid = guid
    /\ ring[at].seq # 0 /\ ring[at].len \in 1..LogSectors /\ ring[at].tail < LogSectors
    /\ \A i \in 1..(ring[at].len - 1) :
          LET sector == ring[At(at + i)]
          IN sector.kind = "data" /\ sector.seq = ring[at].seq

(* entry(): whether a valid entry of the log guid begins at a sector.  Its  *)
(* checksum covers the data sectors that belong to it, each of which says   *)
(* that it is of this entry.                                                *)
ValidEntry(guid, at) ==
    /\ ring[at].kind = "loge"
    /\ ring[at].guid = guid
    /\ ring[at].seq # 0 /\ ring[at].len \in 1..LogSectors /\ ring[at].tail < LogSectors
    /\ \A i \in 1..(ring[at].len - 1) :
          LET sector == ring[At(at + i)]
          IN sector.kind = "data" /\ sector.seq = ring[at].seq /\ sector = ring[at].sum[i]

After(at) == At(at + ring[at].len)

(* From each sector, the entries that follow one another, each numbered one *)
(* more than the last.                                                      *)
Chains(guid) ==
    LET chain[at \in Ring] ==
            IF ~ValidEntry(guid, at) THEN <<>>
            ELSE IF ValidEntry(guid, After(at)) /\ ring[After(at)].seq = ring[at].seq + 1
            THEN <<at>> \o chain[After(at)]
            ELSE <<at>>
    IN chain

CompleteChain(chain) == chain # <<>> /\ ring[Last(chain)].tail \in ToSet(chain)

(* The search goes once round the ring, over each complete sequence it      *)
(* finds and sector by sector elsewhere.                                    *)
Tails(chains) ==
    LET tails[t \in Ring] ==
            LET next == IF CompleteChain(chains[t]) THEN After(Last(chains[t])) ELSE At(t + 1)
            IN {t} \cup IF next > t THEN tails[next] ELSE {}
    IN tails[0]

(* Of those it finds it takes the one whose last entry has the greatest     *)
(* number.                                                                  *)
Active(guid) ==
    LET chains == Chains(guid)
        found == {chains[t] : t \in {x \in Tails(chains) : CompleteChain(chains[x])}}
    IN IF found = {} THEN <<>>
       ELSE CHOOSE c \in found : \A d \in found : ring[Last(d)].seq <= ring[Last(c)].seq

(* The entries replayed: from the one the newest entry names as the tail.   *)
FromTail(chain) ==
    IF chain = <<>> THEN <<>>
    ELSE LET first == Min({i \in 1..Len(chain) : chain[i] = ring[Last(chain)].tail})
         IN [i \in 1..(Len(chain) - first + 1) |->
                LET at == chain[first + i - 1]
                IN [entry |-> ring[at], data |-> ring[At(at + 1)]]]

-----------------------------------------------------------------------------
(* The overlay: the table, where the last of the entries to say anything of *)
(* a block says it.                                                         *)
Speaking(log, b) == {i \in 1..Len(log) : b \in log[i].entry.zero \cup log[i].entry.desc}

Overlay(log) ==
    [b \in Blocks |->
        LET i == Speaking(log, b)
        IN IF i = {} THEN bat[b] ELSE IF b \in log[Max(i)].entry.zero THEN 0 ELSE log[Max(i)].data.place]

(* Mutant: the file is as long as it is.                                    *)
ExtentAsItIs(log) == size

(* How far the file reaches once the log has been replayed.                 *)
Extent(log) == Max({size} \cup {e.entry.last : e \in ToSet(log)})

(* What _index_vhdx() gives: the table, or why it will not.                 *)
Refuse(why) == [refused |-> why, table |-> <<>>]

Read(log) ==
    IF log # <<>> /\ size < Last(log).entry.flushed THEN Refuse("cut short")
    ELSE IF \E b \in Blocks : Overlay(log)[b] > Extent(log) THEN Refuse("ends inside a block")
    ELSE [refused |-> "", table |-> Overlay(log)]

Look ==
    IF Matching = {} THEN Refuse("no header")
    ELSE LET guid == headers[Current].guid
             log == FromTail(Active(guid))
         IN IF guid = 0 THEN Read(<<>>)
            ELSE IF log = <<>> THEN Refuse("no sequence")
            ELSE Read(log)

-----------------------------------------------------------------------------
VARIABLE shown  \* which of the writer's tables was read last

vars == <<disk, shown>>

Init == DiskInit /\ shown = 1

(* A copy of the file as it is on its medium is opened.                     *)
OpenCopy ==
    LET seen == Look
    IN /\ seen.refused = ""
       /\ shown' = IF seen.table \in Range(hist) THEN CHOOSE k \in 1..Len(hist) : hist[k] = seen.table ELSE 0
       /\ UNCHANGED disk

Next == (DiskNext /\ UNCHANGED shown) \/ OpenCopy

Spec == Init /\ [][Next]_vars

-----------------------------------------------------------------------------
Store == INSTANCE AtomicStore WITH issued <- Len(hist)

(* The disk is an atomic store: whatever reached the medium, an entry of    *)
(* the log is read whole or not at all, one known to be there is read, and  *)
(* what was read once never gives way to an older state (_vhdx_replay).     *)
IsAtomic == Store!Spec

(* A file a writer left is refused only in the time between the header that *)
(* opens a log and the log's first entry, when there is no sequence to be   *)
(* found; a block the log places past the end of the file is not taken for  *)
(* one that was cut off, nor a file that grew for one that was cut short    *)
(* (_vhdx_replay, _index_vhdx).                                             *)
RefusedOnlyBeforeFirstEntry ==
    LET seen == Look
    IN seen.refused # "" =>
        /\ seen.refused = "no sequence"
        /\ \A i \in 1..Len(entries) : entries[i].state = "issued"
=============================================================================
