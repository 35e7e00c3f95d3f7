----------------------------- MODULE PendingLog -----------------------------
(***************************************************************************)
(* Whether qnxprobe.py says that a log it does not replay holds changes     *)
(* that the volume, or the members of the array, may lack: _xfs_log_state() *)
(* and _md_journal_pending().  Both only read, so each is a function of the *)
(* medium, looked at in every state.                                        *)
(***************************************************************************)
EXTENDS LogWriter

(* cycle_start(): the block where the stamps become `want', by halving.     *)
CycleStart(want) ==
    LET from[first \in Blocks, end \in Blocks] ==
            LET mid == (first + end) \div 2
            IN IF mid \in {first, end} THEN end
               ELSE IF ring[mid].stamp = want THEN from[first, mid] ELSE from[mid, end]
    IN from[0, N - 1]

(* Mutant: a log that ends where the ring does is searched all the same.    *)
HeadNeverWraps == CycleStart(ring[N - 1].stamp)

(* The end of the log: where its stamps drop, or the start of the ring.     *)
XfsHead ==
    LET first == ring[0].stamp
        end == ring[N - 1].stamp
    IN IF end # 0 /\ first = end THEN 0 ELSE CycleStart(end)

(* The last record before the head.                                         *)
Found ==
    LET back(k) == (XfsHead + N - k) % N
        heads == {k \in 1..N : ring[back(k)].head}
    IN back(CHOOSE k \in heads : \A j \in heads : k <= j)

(* The block after that record if it is an unmount record alone, or the     *)
(* tail it names.                                                           *)
XfsTail ==
    LET body == ring[Found].body
        after == (Found + 1 + body.len) % N
        op == ring[(Found + 1) % N].body
    IN IF XfsHead = after /\ body.unmount /\ op.unmount THEN after ELSE body.tail

(* _xfs_log_state(): "clean", and not "dirty" or "unknown".                 *)
XfsClean ==
    LET first == ring[0].stamp
        unwritten == ring[N - 1].stamp = 0
    IN \/ unwritten /\ first = 0
       \/ (unwritten => first = 1) /\ (\E p \in Blocks : ring[p].head) /\ XfsHead = XfsTail

-----------------------------------------------------------------------------
Pages(pays) == SelectSeq(pays, LAMBDA kind : kind # "flush")

(* Whether the pages that a head names hold what it has checksums of.       *)
Sound(p) ==
    \A k \in 1..Len(Pages(ring[p].body.pays)) : ring[(p + k) % N] = Block(ring[p].stamp, FALSE, k)

(* What a head tells of a stripe: that its data is only in the journal,     *)
(* that data and parity are, or neither.                                    *)
Told(state, body) ==
    [state EXCEPT ![body.of] = IF body.pays = <<"flush">> THEN "none" ELSE body.pays[Len(body.pays)]]

(* The walk of the journal from its tail, after k heads.                    *)
Walk ==
    LET w[k \in 0..N] ==
            IF k = 0 THEN [pos |-> tail, seq |-> 0, state |-> [s \in Stripes |-> "none"], ended |-> FALSE]
            ELSE LET b == w[k - 1]
                     block == ring[b.pos]
                     empty == block.body = <<>>
                 IN IF b.ended \/ ~block.head \/ (b.seq # 0 /\ block.stamp # b.seq)
                    THEN [b EXCEPT !.ended = TRUE]
                    ELSE [pos |-> (b.pos + 1 + (IF empty THEN 0 ELSE Len(Pages(block.body.pays)))) % N,
                          seq |-> block.stamp + 1, ended |-> FALSE,
                          state |-> IF empty THEN b.state
                                    ELSE IF Sound(b.pos) THEN Told(b.state, block.body) ELSE b.state]
    IN w[N].state

(* Mutant: data and parity in the journal are taken to be on the members.   *)
JournalHasBoth == \A s \in Stripes : Walk[s] # "data"

(* _md_journal_pending(): None, and not why the array is refused.           *)
JournalDone ==
    LET state == Walk
    IN \A s \in Stripes : state[s] # "data" /\ (state[s] = "parity" => stopped)

Quiet == IF fmt = "XFS" THEN XfsClean ELSE JournalDone

-----------------------------------------------------------------------------
Spec == WriterInit /\ [][WriterNext]_writer

(* A log of which nothing is said holds no committed change that is not     *)
(* done in place, wherever the writing stopped (_xfs_log_state,             *)
(* _md_journal_pending).                                                    *)
QuietOwesNothing == Quiet => owed = <<>>

(* Nothing is said of a log that was left in order.                         *)
StoppedIsQuiet == stopped => Quiet
=============================================================================
