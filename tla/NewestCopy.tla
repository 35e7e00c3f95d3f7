----------------------------- MODULE NewestCopy -----------------------------
(***************************************************************************)
(* Which of the copies of its most important structure qnxprobe.py reads a  *)
(* volume by, when the program that wrote them was stopped: the superblock  *)
(* of QNX6 and of Btrfs, the checkpoint of F2FS, APFS and ReFS, the header  *)
(* of LUKS2, the metadata of LVM, the GPT, an erase block and the volume    *)
(* table of UBI and the master node of UBIFS.  It keeps nothing on the      *)
(* medium, so it is a function of it, looked at in every state.             *)
(***************************************************************************)
EXTENDS CopyWriter

At(c, p) == medium[<<c, p>>]

(* Of the copies S the one whose part p has the greatest number, the first  *)
(* of those that have the same.                                             *)
Greatest(S, p) ==
    CHOOSE c \in S : \A d \in S : At(d, p).stamp <= At(c, p).stamp /\ (At(d, p).stamp = At(c, p).stamp => c <= d)

GreatestOf(S, p) == IF S = {} THEN {} ELSE {<<Greatest(S, p), p>>}

(* Copies that are one block with a checksum.                               *)
Good == {c \in Copies : At(c, "block").whole}

(* Each reader gives the places it reads by, or none.                       *)
(* sb_slots() and report(): the greatest serial.                            *)
ReadQnx6 == GreatestOf(Good, "block")

(* _checkpoint() of ReFS: the greatest clock.                               *)
ReadRefs == GreatestOf(Good, "block")

(* _luks2(): the greatest seqid.                                            *)
ReadLuks2 == GreatestOf(Good, "block")

(* _load_checkpoint(): the greatest version of the packs whose first and    *)
(* last blocks have the same; no checksum is looked at.                     *)
ReadF2fs ==
    LET packs == {c \in Copies : At(c, "head").stamp # 0 /\ At(c, "head").stamp = At(c, "tail").stamp}
    IN IF packs = {} THEN {} ELSE {Greatest(packs, "head")} \X {"head", "body"}

(* _newest_checkpoint(): block zero, of which only the magic is looked at,  *)
(* or the superblock of the ring that is newer than it.                     *)
ReadApfs ==
    LET newer == {c \in Good \ {Zero} : At(c, "block").stamp > At(Zero, "block").stamp}
    IN IF newer = {} THEN {<<Zero, "block">>} ELSE GreatestOf(newer, "block")

(* Mutant: a primary that does not hold is not done without.                *)
PrimaryOnly == {<<c, "block">> : c \in Good \cap {1}}

(* _btrfs_pick_super(): the primary if it is good, or the greatest          *)
(* generation of the copies that are.                                       *)
ReadBtrfs == IF 1 \in Good THEN {<<1, "block">>} ELSE GreatestOf(Good, "block")

(* LvmPv and _metadata(): the greatest seqno of the areas whose header      *)
(* holds, and names a text that has the checksum it gives.                  *)
ReadLvm ==
    LET text(c) == {p \in {"text1", "text2"} : At(c, p).whole /\ At(c, p).id = At(c, "head").id}
        areas == {c \in Copies : At(c, "head").whole /\ text(c) # {}}
    IN IF areas = {} THEN {} ELSE {Greatest(areas, "head")} \X text(Greatest(areas, "head"))

(* Mutant: a header is used with whatever array it points to.               *)
TableUnsummed(c) == At(c, "head").whole

(* _gpt_at(): whether the header at a place and the array it points to are  *)
(* those that were written together.                                        *)
Table(c) == At(c, "head").whole /\ At(c, "array").whole /\ At(c, "array").id = At(c, "head").id

(* read_gpt(): the primary table, or the backup.                            *)
ReadGpt ==
    LET tables == {c \in Copies : Table(c)}
    IN IF tables = {} THEN {} ELSE {Min(tables)} \X Parts

(* UBI's attach: the greatest sqnum of the erase blocks with a header,      *)
(* those whose data does not match passed over while there is an older.     *)
ReadUbi ==
    LET seen == {c \in Copies : At(c, "vid").whole}
        matches(c) == At(c, "data").whole /\ At(c, "data").id = At(c, "vid").id
        oldest(c) == \A d \in seen : At(c, "vid").stamp <= At(d, "vid").stamp
        used == {c \in seen : matches(c) \/ oldest(c)}
    IN IF used = {} THEN {} ELSE {Greatest(used, "vid")} \X {"vid", "data"}

(* _volume_table() of UBI: the first copy whose records all hold.           *)
ReadUbiTable == IF Good = {} THEN {} ELSE {<<Min(Good), "block">>}

(* _scan_leb() and _master(): the newest node, up to the first that does    *)
(* not hold, of the first block that has any.                               *)
ReadUbifs ==
    LET nodes(c) == IF ~At(c, "node1").whole THEN {}
                    ELSE IF ~At(c, "node2").whole THEN {"node1"} ELSE {"node1", "node2"}
        newest(c) == CHOOSE p \in nodes(c) : \A q \in nodes(c) : At(c, q).stamp <= At(c, p).stamp
        used == {c \in Copies : nodes(c) # {}}
    IN IF used = {} THEN {} ELSE {<<Min(used), newest(Min(used))>>}

Used ==
    CASE fmt = "QNX6" -> ReadQnx6
      [] fmt = "ReFS" -> ReadRefs
      [] fmt = "LUKS2" -> ReadLuks2
      [] fmt = "F2FS" -> ReadF2fs
      [] fmt = "APFS" -> ReadApfs
      [] fmt = "Btrfs" -> ReadBtrfs
      [] fmt = "LVM" -> ReadLvm
      [] fmt = "GPT" -> ReadGpt
      [] fmt = "UBI" -> ReadUbi
      [] fmt = "UBItable" -> ReadUbiTable
      [] fmt = "UBIFS" -> ReadUbifs

(* The state the places are of, or 0 when they are not all of one, whole.   *)
State(places) ==
    LET parts == {medium[at] : at \in places}
    IN IF Cardinality(parts) = 1 THEN (CHOOSE x \in parts : TRUE).id ELSE 0

-----------------------------------------------------------------------------
VARIABLE shown  \* the state that was read last

vars == <<writer, shown>>

Init == WriterInit /\ shown = 1

(* A copy of the medium as it is is opened.                                 *)
OpenCopy ==
    /\ Used # {}
    /\ shown' = State(Used)
    /\ UNCHANGED writer

Next == (WriterNext /\ UNCHANGED shown) \/ OpenCopy

Spec == Init /\ [][Next]_vars

-----------------------------------------------------------------------------
Store == INSTANCE AtomicStore

(* Whenever the writing stopped, and however often, the volume is read by   *)
(* one state of it, whole: none older than the last that was safe, none     *)
(* older than one read before, and never parts of two (_newest_checkpoint,  *)
(* _btrfs_pick_super, _luks2, LvmPv, read_gpt, UBI).  The block that is     *)
(* being written may be torn, but for formats in Untorn: F2FS, of which it  *)
(* holds only where a block is written at once (see PackWrittenWhole).      *)
IsAtomic == Store!Spec

(* There is always a copy to read it by.                                    *)
IsAlwaysFound == Used # {}

(* A pack of F2FS that is taken, for having one version at its first block  *)
(* and its last, was written whole: what is read of it is of one state      *)
(* (_load_checkpoint).                                                      *)
PackWrittenWhole == fmt = "F2FS" /\ Used # {} => State(Used) # 0
=============================================================================
